--------------------------- MODULE MappingReview ---------------------------
(***************************************************************************)
(* Mapping proposals and the registry of canonical entities:               *)
(* ProductionMappingService of research/review/mapping_service.py, over    *)
(* the tables of persistence/models.py and migration 0003.                 *)
(*                                                                         *)
(* A review is one transaction of several row locks: the proposal, then    *)
(* the entities its resolution names, in the order the code reads them.    *)
(* What it writes is seen by others at its commit.  Supporting Evidence is *)
(* approved for good and static; reviews that share none of it run         *)
(* concurrently, and these are the ones modelled.                          *)
(***************************************************************************)
EXTENDS GovernanceRoles, FiniteSets, Sequences

CONSTANTS
  Proposers,  \* bound: the operators that submit mappings
  Entities,   \* canonical keys of one entity type; an entity's id derives from its key
  Proposals,  \* proposal checksums: what is proposed, word for word
  Payload     \* what each proposes

EntityPayloads == [kind : {"entity"}, name : Entities]
RelationshipPayloads == [kind : {"relationship"}, source : Entities, target : Entities]

ASSUME MappingConstants ==
  /\ Proposers \subseteq Operators
  /\ Payload \in [Proposals -> EntityPayloads \cup RelationshipPayloads]
  /\ None \notin Proposals /\ None \notin Entities

VARIABLES
  registry,    \* knowledge_entities by key, or None
  proposal,    \* mapping_proposals, or None
  nodes,       \* knowledge_node_versions of each entity, in order
  assertions,  \* knowledge_relationship_assertions of each pair, in order
  review       \* the approval each user has open, or None

mappingVars == <<registry, proposal, nodes, assertions, review>>

KnowledgeEntities ==
  [status : {"active"}, into : {None}, aliases : SUBSET Entities]
  \cup [status : {"merged"}, into : Entities, aliases : SUBSET Entities]

MappingProposals == [by : Users, status : {"submitted", "approved", "rejected"}]

\* An open approval: what it resolves to, the aliases it has read of its target, the
\* rows it has locked, and those still to be locked with what they must be.
Resolutions == {"create", "reuse", "merge", "relate"}
LockRequests == [entity : Entities, must : {"absent", "exist", "active"}]
Approvals ==
  [of : Proposals, as : Resolutions, target : Entities, read : SUBSET Entities,
   held : SUBSET Entities, todo : Seq(LockRequests)]

ASSUME AbsentReview == None \notin KnowledgeEntities \cup MappingProposals \cup Approvals

MappingTypeOK ==
  /\ registry \in [Entities -> KnowledgeEntities \cup {None}]
  /\ proposal \in [Proposals -> MappingProposals \cup {None}]
  /\ nodes \in [Entities -> Seq(Proposals)]
  /\ assertions \in [Entities \X Entities -> Seq(Proposals)]
  /\ review \in [Users -> Approvals \cup {None}]

MappingInit ==
  /\ registry = [e \in Entities |-> None]
  /\ proposal = [p \in Proposals |-> None]
  /\ nodes = [e \in Entities |-> <<>>]
  /\ assertions = [pair \in Entities \X Entities |-> <<>>]
  /\ review = [u \in Users |-> None]

-----------------------------------------------------------------------------
Active(e) == registry[e] # None /\ registry[e].status = "active"
Merged == {e \in Entities : registry[e] # None /\ registry[e].status = "merged"}

\* An unlocked read: both ends of a relationship are active entities.
EndsActive(payload) ==
  payload.kind = "relationship" => Active(payload.source) /\ Active(payload.target)

\* A proposal of the same kind and checksum is answered with the existing row.
SubmitMapping(u, p) ==
  /\ u \in Proposers /\ review[u] = None
  /\ EndsActive(Payload[p])
  /\ proposal[p] = None
  /\ proposal' = [proposal EXCEPT ![p] = [by |-> u, status |-> "submitted"]]
  /\ UNCHANGED <<registry, nodes, assertions, review>>

\* Mutant: the proposal is read without FOR UPDATE.
Mutant_Reviewable(u, p) ==
  /\ u \in Reviewers /\ review[u] = None
  /\ proposal[p] # None
  /\ proposal[p].by # u
  /\ proposal[p].status = "submitted"

\* The proposal's row is locked until the review ends.
Reviewable(u, p) ==
  /\ u \in Reviewers /\ review[u] = None
  /\ proposal[p] # None
  /\ \A w \in Users : review[w] # None => review[w].of # p
  /\ proposal[p].by # u
  /\ proposal[p].status = "submitted"

RejectMapping(u, p) ==
  /\ Reviewable(u, p)
  /\ proposal' = [proposal EXCEPT ![p].status = "rejected"]
  /\ UNCHANGED <<registry, nodes, assertions, review>>

-----------------------------------------------------------------------------
(* An approval.                                                             *)

Locked(e, must) == [entity |-> e, must |-> must]

\* Mutant: the target of a relationship is not locked again.
Mutant_LocksOf(payload, as, target) ==
  CASE as = "create" -> <<Locked(target, "absent")>>
    [] as = "reuse" -> <<Locked(payload.name, "exist"), Locked(target, "active")>>
    [] as = "merge" -> <<Locked(payload.name, "exist"), Locked(target, "active"),
                         Locked(payload.name, "active")>>
    [] as = "relate" -> <<Locked(payload.source, "active")>>

\* The rows in the order of their SELECT ... FOR UPDATE.
LocksOf(payload, as, target) ==
  CASE as = "create" -> <<Locked(target, "absent")>>
    [] as = "reuse" -> <<Locked(payload.name, "exist"), Locked(target, "active")>>
    [] as = "merge" -> <<Locked(payload.name, "exist"), Locked(target, "active"),
                         Locked(payload.name, "active")>>
    [] as = "relate" -> <<Locked(payload.source, "active"), Locked(payload.target, "active")>>

Resolvable(payload, as, target) ==
  /\ payload.kind = "relationship" <=> as = "relate"
  /\ as = "relate" => target = payload.target
  /\ as = "create" => target = payload.name

\* Validation comes before the first lock of an entity.
OpenApproval(u, p, as, target) ==
  LET payload == Payload[p] IN
  /\ Reviewable(u, p)
  /\ Resolvable(payload, as, target)
  /\ EndsActive(payload)
  /\ review' = [review EXCEPT ![u] =
       [of |-> p, as |-> as, target |-> target, read |-> {},
        held |-> {}, todo |-> LocksOf(payload, as, target)]]
  /\ UNCHANGED <<registry, proposal, nodes, assertions>>

Holds(w, e) == review[w] # None /\ e \in review[w].held

\* A committed row or a row being inserted is waited for; a row that another inserts is
\* no row yet to a SELECT.
Waits(u) ==
  /\ review[u] # None /\ review[u].todo # <<>>
  /\ LET next == Head(review[u].todo) IN
     /\ next.must = "absent" \/ registry[next.entity] # None
     /\ \E w \in Users \ {u} : Holds(w, next.entity)

\* Mutant: a merged entity is as good as an active one.
Mutant_Found(next) ==
  CASE next.must = "absent" -> registry[next.entity] = None
    [] next.must = "exist" -> TRUE
    [] next.must = "active" -> registry[next.entity] # None

\* What the statement finds once it has its lock.
Found(next) ==
  CASE next.must = "absent" -> registry[next.entity] = None
    [] next.must = "exist" -> TRUE
    [] next.must = "active" -> Active(next.entity)

Rows(next) == IF registry[next.entity] # None \/ next.must = "absent" THEN {next.entity} ELSE {}

\* Mutant: active entities are read without FOR UPDATE.
Mutant_LockedRows(next) == IF next.must = "active" THEN {} ELSE Rows(next)

LockedRows(next) == Rows(next)

LockNext(u) ==
  /\ review[u] # None /\ review[u].todo # <<>> /\ ~Waits(u)
  /\ LET r == review[u]
         next == Head(r.todo) IN
     /\ Found(next)
     /\ review' = [review EXCEPT ![u] =
          [r EXCEPT !.held = @ \cup LockedRows(next),
                    !.read = IF next.must = "active" /\ next.entity = r.target
                             THEN registry[r.target].aliases ELSE @,
                    !.todo = Tail(@)]]
  /\ UNCHANGED <<registry, proposal, nodes, assertions>>

Closed(u) ==
  /\ review' = [review EXCEPT ![u] = None]
  /\ UNCHANGED <<registry, proposal, nodes, assertions>>

MergesItself(r) == r.as = "merge" /\ Payload[r.of].name = r.target

\* Mutant: an entity that is not active is waited for.
Mutant_RefuseApproval(u) ==
  /\ review[u] # None /\ ~Waits(u)
  /\ LET r == review[u] IN
     IF r.todo # <<>> THEN Head(r.todo).must = "absent" /\ ~Found(Head(r.todo))
     ELSE MergesItself(r)
  /\ Closed(u)

\* A row is not as it must be: nothing of the transaction stays.
RefuseApproval(u) ==
  /\ review[u] # None /\ ~Waits(u)
  /\ LET r == review[u] IN
     IF r.todo # <<>> THEN ~Found(Head(r.todo)) ELSE MergesItself(r)
  /\ Closed(u)

\* Any other refusal, a failure, or the end of the process.
AbandonApproval(u) == review[u] # None /\ Closed(u)

\* The database ends one of the transactions that wait for each other.
WaitingFor(u) ==
  IF Waits(u) THEN {w \in Users \ {u} : Holds(w, Head(review[u].todo).entity)} ELSE {}

AbortDeadlocked(u) ==
  /\ \E S \in SUBSET Users : u \in S /\ \A w \in S : WaitingFor(w) \cap S # {}
  /\ Closed(u)

\* The target's aliases as read with the proposed name.
NewAliases(r) == (r.read \cup {Payload[r.of].name}) \ {r.target}

CanonicalEntity(aliases) == [status |-> "active", into |-> None, aliases |-> aliases]

\* Mutant: a merged entity keeps no trace of what it was merged into.
Mutant_ResolvedRegistry(r) ==
  CASE r.as = "create" -> [registry EXCEPT ![r.target] = CanonicalEntity({})]
    [] r.as = "reuse" -> [registry EXCEPT ![r.target].aliases = NewAliases(r)]
    [] r.as = "merge" ->
         [registry EXCEPT ![r.target].aliases = NewAliases(r),
                          ![Payload[r.of].name].status = "merged"]

ResolvedRegistry(r) ==
  CASE r.as = "create" -> [registry EXCEPT ![r.target] = CanonicalEntity({})]
    [] r.as = "reuse" -> [registry EXCEPT ![r.target].aliases = NewAliases(r)]
    [] r.as = "merge" ->
         [registry EXCEPT ![r.target].aliases = NewAliases(r),
                          ![Payload[r.of].name].status = "merged",
                          ![Payload[r.of].name].into = r.target]

Approved(p) == proposal' = [proposal EXCEPT ![p].status = "approved"]

\* Entity change, node version, decision and proposal are committed together.
CommitNode(u) ==
  LET r == review[u] IN
  /\ r # None
  /\ r.as # "relate" /\ r.todo = <<>>
  /\ ~MergesItself(r)
  /\ registry' = ResolvedRegistry(r)
  /\ nodes' = [nodes EXCEPT ![r.target] = Append(@, r.of)]
  /\ Approved(r.of)
  /\ review' = [review EXCEPT ![u] = None]
  /\ UNCHANGED assertions

CommitAssertion(u) ==
  LET r == review[u] IN
  /\ r # None
  /\ r.as = "relate" /\ r.todo = <<>>
  /\ LET pair == <<Payload[r.of].source, Payload[r.of].target>> IN
     assertions' = [assertions EXCEPT ![pair] = Append(@, r.of)]
  /\ Approved(r.of)
  /\ review' = [review EXCEPT ![u] = None]
  /\ UNCHANGED <<registry, nodes>>

-----------------------------------------------------------------------------
(* What a reader is given: the latest version of an approved proposal.      *)

IsApproved(p) == proposal[p] # None /\ proposal[p].status = "approved"
LastOf(s) == s[Len(s)]

CurrentNodes(e) == {i \in DOMAIN nodes[e] : IsApproved(nodes[e][i]) /\ nodes[e][i] = LastOf(nodes[e])}

CurrentAssertions(pair) ==
  {i \in DOMAIN assertions[pair] :
     IsApproved(assertions[pair][i]) /\ assertions[pair][i] = LastOf(assertions[pair])}

\* The registry as reviewers search it: active entities, each with its node.
ListedEntities == {e \in Entities : Active(e) /\ CurrentNodes(e) # {}}

ApprovalStep(u) == LockNext(u) \/ RefuseApproval(u) \/ CommitNode(u) \/ CommitAssertion(u)

MappingNext ==
  \/ \E u \in Users, p \in Proposals : SubmitMapping(u, p) \/ RejectMapping(u, p)
  \/ \E u \in Users, p \in Proposals, as \in Resolutions, target \in Entities :
       OpenApproval(u, p, as, target)
  \/ \E u \in Users : ApprovalStep(u) \/ AbandonApproval(u) \/ AbortDeadlocked(u)

\* A transaction runs on until it ends.  Row locks are granted in the order of their
\* requests, and deadlocks are detected: both are the database's.
MappingFairness ==
  \A u \in Reviewers : SF_mappingVars(ApprovalStep(u)) /\ WF_mappingVars(AbortDeadlocked(u))

MappingSpec == MappingInit /\ [][MappingNext]_mappingVars /\ MappingFairness

-----------------------------------------------------------------------------
(* Properties.                                                              *)

\* Merges, also of entities into each other at once, leave no cycle: following
\* merged_into_entity_id from any merged entity ends at an active one.
MergesEndActive ==
  /\ \A e \in Merged : registry[registry[e].into] # None
  /\ \A S \in SUBSET Merged : S # {} => \E e \in S : registry[e].into \notin S

StoredFor(p) ==
  LET In(s) == {i \in DOMAIN s : s[i] = p} IN
  (UNION {{e} \X In(nodes[e]) : e \in Entities})
  \cup (UNION {{pair} \X In(assertions[pair]) : pair \in Entities \X Entities})

\* However reviews of one proposal, or of one entity, meet: an approved proposal has one
\* artifact and any other has none, an active entity is listed with one current node,
\* and of a relationship's assertions one is current.
OneArtifactPerApproval ==
  /\ \A p \in Proposals : Cardinality(StoredFor(p)) = IF IsApproved(p) THEN 1 ELSE 0
  /\ \A e \in Entities : Active(e) => e \in ListedEntities /\ Cardinality(CurrentNodes(e)) = 1
  /\ \A pair \in Entities \X Entities :
       assertions[pair] # <<>> => Cardinality(CurrentAssertions(pair)) = 1

\* No node version or assertion is approved for an entity that another review has
\* merged away since it was validated.
ArtifactsNameActiveEntities ==
  [][/\ \A e \in Entities : nodes'[e] # nodes[e] => Active(e)'
     /\ \A pair \in Entities \X Entities :
          assertions'[pair] # assertions[pair] => Active(pair[1])' /\ Active(pair[2])']_mappingVars

\* The names found under an entity are never lost to a review that read it before
\* another one added its own.
AliasesKept ==
  [][\A e \in Entities : Active(e) =>
       registry[e].aliases \subseteq registry'[e].aliases]_mappingVars

\* Whoever reviews what, in whatever order the rows are locked, every review ends.
ApprovalsEnd == \A u \in Reviewers : review[u] # None ~> review[u] = None
=============================================================================
