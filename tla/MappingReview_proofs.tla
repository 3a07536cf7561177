------------------------ MODULE MappingReview_proofs ------------------------
(***************************************************************************)
(* Machine-checked facts about MappingReview, for any number of users,     *)
(* proposals and entities, and about ManifestGovernance, for any number of *)
(* storage requests beside them.                                           *)
(***************************************************************************)
EXTENDS ManifestGovernance, FiniteSetTheorems, TLAPS

-----------------------------------------------------------------------------
(* The inductive invariant.                                                 *)

Needed(r) == LocksOf(Payload[r.of], r.as, r.target)

\* What a lock that was granted secures until the review ends: the row is held and is
\* as it was found, with the aliases that were read of it.
Secured(r, next) ==
  CASE next.must = "exist" -> TRUE
    [] next.must = "absent" -> next.entity \in r.held /\ registry[next.entity] = None
    [] next.must = "active" ->
         /\ next.entity \in r.held /\ Active(next.entity)
         /\ next.entity = r.target => r.read = registry[r.target].aliases

\* What an open review needs is secured or still to be locked.
LocksHold(r) ==
  \A i \in DOMAIN Needed(r) :
    Secured(r, Needed(r)[i]) \/ \E j \in DOMAIN r.todo : r.todo[j] = Needed(r)[i]

\* An open review is the only one of its proposal, which is undecided, and shares no
\* locked row with another.
ReviewHolds(u) ==
  review[u] # None =>
    LET r == review[u] IN
    /\ proposal[r.of] # None /\ proposal[r.of].status = "submitted"
    /\ Resolvable(Payload[r.of], r.as, r.target)
    /\ LocksHold(r)
    /\ \A w \in Users \ {u} :
         review[w] # None => review[w].of # r.of /\ review[w].held \cap r.held = {}

\* No entity is an alias of its own; one that was created has a node version.
EntityHolds(e) ==
  registry[e] # None => e \notin registry[e].aliases /\ nodes[e] # <<>>

\* An approved proposal has one place among the artifacts, any other none.
PlaceHolds(p) ==
  IF IsApproved(p) THEN \E x : StoredFor(p) = {x} ELSE StoredFor(p) = {}

MappingSafe ==
  /\ MappingTypeOK
  /\ MergesEndActive
  /\ \A u \in Users : ReviewHolds(u)
  /\ \A e \in Entities : EntityHolds(e)
  /\ \A p \in Proposals : PlaceHolds(p)

-----------------------------------------------------------------------------
(* Types.                                                                   *)

LEMMA ReviewTypes ==
  ASSUME MappingTypeOK, NEW u \in Users, review[u] # None
  PROVE  /\ review[u] \in Approvals
         /\ review[u].of \in Proposals /\ review[u].as \in Resolutions
         /\ review[u].target \in Entities /\ review[u].read \in SUBSET Entities
         /\ review[u].held \in SUBSET Entities /\ review[u].todo \in Seq(LockRequests)
  BY DEF MappingTypeOK, Approvals

LEMMA EntityTypes ==
  ASSUME MappingTypeOK, NEW e \in Entities, registry[e] # None
  PROVE  /\ registry[e] \in KnowledgeEntities
         /\ registry[e].aliases \in SUBSET Entities
         /\ registry[e].status \in {"active", "merged"}
         /\ registry[e].status = "active" => registry[e].into = None
         /\ registry[e].status = "merged" => registry[e].into \in Entities
  <1>1. registry[e] \in KnowledgeEntities
    BY DEF MappingTypeOK
  <1>2. CASE registry[e] \in [status : {"active"}, into : {None}, aliases : SUBSET Entities]
    BY <1>1, <1>2
  <1>3. CASE registry[e] \in [status : {"merged"}, into : Entities, aliases : SUBSET Entities]
    BY <1>1, <1>3
  <1>4. QED
    BY <1>1, <1>2, <1>3 DEF KnowledgeEntities

LEMMA ProposalTypes ==
  ASSUME MappingTypeOK, NEW p \in Proposals, proposal[p] # None
  PROVE  /\ proposal[p] \in MappingProposals
         /\ proposal[p].by \in Users
         /\ proposal[p].status \in {"submitted", "approved", "rejected"}
  BY DEF MappingTypeOK, MappingProposals

LEMMA PayloadTypes ==
  ASSUME NEW p \in Proposals
  PROVE  \/ Payload[p].kind = "entity" /\ Payload[p].name \in Entities
         \/ /\ Payload[p].kind = "relationship"
            /\ Payload[p].source \in Entities /\ Payload[p].target \in Entities
  BY MappingConstants DEF EntityPayloads, RelationshipPayloads

\* The rows a resolution needs, one by one.
LEMMA NeededLocks ==
  ASSUME NEW p \in Proposals, NEW as \in Resolutions, NEW target \in Entities,
         Resolvable(Payload[p], as, target)
  PROVE  /\ as = "create" => /\ target = Payload[p].name
                             /\ LocksOf(Payload[p], as, target) = <<Locked(target, "absent")>>
         /\ as = "reuse" =>
              /\ Payload[p].name \in Entities
              /\ LocksOf(Payload[p], as, target) =
                   <<Locked(Payload[p].name, "exist"), Locked(target, "active")>>
         /\ as = "merge" =>
              /\ Payload[p].name \in Entities
              /\ LocksOf(Payload[p], as, target) =
                   <<Locked(Payload[p].name, "exist"), Locked(target, "active"),
                     Locked(Payload[p].name, "active")>>
         /\ as = "relate" =>
              /\ Payload[p].source \in Entities /\ target = Payload[p].target
              /\ LocksOf(Payload[p], as, target) =
                   <<Locked(Payload[p].source, "active"), Locked(target, "active")>>
  <1>1. as \in {"create", "reuse", "merge", "relate"}
    BY DEF Resolutions
  <1>2. CASE as = "create"
    BY <1>2 DEF LocksOf, Resolvable
  <1>3. CASE as = "reuse"
    BY <1>3, PayloadTypes DEF LocksOf, Resolvable
  <1>4. CASE as = "merge"
    BY <1>4, PayloadTypes DEF LocksOf, Resolvable
  <1>5. CASE as = "relate"
    BY <1>5, PayloadTypes DEF LocksOf, Resolvable
  <1>6. QED
    BY <1>1, <1>2, <1>3, <1>4, <1>5

LEMMA ShortSequences ==
  ASSUME NEW S, NEW a \in S, NEW b \in S, NEW c \in S
  PROVE  <<a>> \in Seq(S) /\ <<a, b>> \in Seq(S) /\ <<a, b, c>> \in Seq(S)
  OBVIOUS

LEMMA NeededTypes ==
  ASSUME NEW p \in Proposals, NEW as \in Resolutions, NEW target \in Entities,
         Resolvable(Payload[p], as, target)
  PROVE  LocksOf(Payload[p], as, target) \in Seq(LockRequests)
  <1>1. \A e \in Entities, must \in {"absent", "exist", "active"} :
          Locked(e, must) \in LockRequests
    BY DEF Locked, LockRequests
  <1>2. CASE as = "create"
    <2>1. /\ target \in Entities
          /\ LocksOf(Payload[p], as, target) =
               <<Locked(target, "absent")>>
      BY <1>2, NeededLocks
    <2>2. QED
      BY <1>1, <2>1, ShortSequences
  <1>3. CASE as = "reuse"
    <2>1. /\ Payload[p].name \in Entities
          /\ LocksOf(Payload[p], as, target) =
               <<Locked(Payload[p].name, "exist"), Locked(target, "active")>>
      BY <1>3, NeededLocks
    <2>2. QED
      BY <1>1, <2>1, ShortSequences
  <1>4. CASE as = "merge"
    <2>1. /\ Payload[p].name \in Entities
          /\ LocksOf(Payload[p], as, target) =
               <<Locked(Payload[p].name, "exist"), Locked(target, "active"),
                     Locked(Payload[p].name, "active")>>
      BY <1>4, NeededLocks
    <2>2. QED
      BY <1>1, <2>1, ShortSequences
  <1>5. CASE as = "relate"
    <2>1. /\ Payload[p].source \in Entities
          /\ LocksOf(Payload[p], as, target) =
               <<Locked(Payload[p].source, "active"), Locked(target, "active")>>
      BY <1>5, NeededLocks
    <2>2. QED
      BY <1>1, <2>1, ShortSequences
  <1>6. QED
    BY <1>2, <1>3, <1>4, <1>5 DEF Resolutions

-----------------------------------------------------------------------------
(* What a review that has all its locks may rely on.                        *)

LEMMA AllSecured ==
  ASSUME MappingTypeOK, NEW u \in Users, review[u] # None, review[u].todo = <<>>,
         ReviewHolds(u)
  PROVE  /\ Resolvable(Payload[review[u].of], review[u].as, review[u].target)
         /\ \A i \in DOMAIN Needed(review[u]) : Secured(review[u], Needed(review[u])[i])
  BY DEF ReviewHolds, LocksHold

LEMMA CommitRelies ==
  ASSUME MappingTypeOK, NEW u \in Users, review[u] # None, review[u].todo = <<>>,
         ReviewHolds(u), NEW r, r = review[u]
  PROVE  /\ r.as = "create" => r.target \in r.held /\ registry[r.target] = None
         /\ r.as \in {"reuse", "merge"} =>
              /\ r.target \in r.held /\ Active(r.target)
              /\ r.read = registry[r.target].aliases
              /\ Payload[r.of].name \in Entities
         /\ r.as = "merge" => Payload[r.of].name \in r.held /\ Active(Payload[r.of].name)
         /\ r.as = "relate" =>
              /\ Payload[r.of].target = r.target /\ Payload[r.of].source \in Entities
              /\ Active(Payload[r.of].source) /\ Active(r.target)
              /\ Payload[r.of].source \in r.held /\ r.target \in r.held
  <1>1. /\ Resolvable(Payload[r.of], r.as, r.target)
        /\ \A i \in DOMAIN Needed(r) : Secured(r, Needed(r)[i])
    BY AllSecured
  <1>2. r.of \in Proposals /\ r.as \in Resolutions /\ r.target \in Entities
    BY ReviewTypes
  <1>3. CASE r.as = "create"
    <2>1. Needed(r) = <<Locked(r.target, "absent")>>
      BY <1>1, <1>2, <1>3, NeededLocks DEF Needed
    <2>2. Secured(r, Locked(r.target, "absent"))
      BY <1>1, <2>1
    <2>3. QED
      BY <1>3, <2>2 DEF Secured, Locked
  <1>4. CASE r.as = "reuse"
    <2>1. /\ Payload[r.of].name \in Entities
          /\ Needed(r) = <<Locked(Payload[r.of].name, "exist"), Locked(r.target, "active")>>
      BY <1>1, <1>2, <1>4, NeededLocks DEF Needed
    <2>2. Secured(r, Locked(r.target, "active"))
      BY <1>1, <2>1
    <2>3. QED
      BY <1>4, <2>1, <2>2 DEF Secured, Locked
  <1>5. CASE r.as = "merge"
    <2>1. /\ Payload[r.of].name \in Entities
          /\ Needed(r) = <<Locked(Payload[r.of].name, "exist"), Locked(r.target, "active"),
                           Locked(Payload[r.of].name, "active")>>
      BY <1>1, <1>2, <1>5, NeededLocks DEF Needed
    <2>2. Secured(r, Locked(r.target, "active")) /\ Secured(r, Locked(Payload[r.of].name, "active"))
      BY <1>1, <2>1
    <2>3. QED
      BY <1>5, <2>1, <2>2 DEF Secured, Locked
  <1>6. CASE r.as = "relate"
    <2>1. /\ Payload[r.of].source \in Entities /\ Payload[r.of].target = r.target
          /\ Needed(r) = <<Locked(Payload[r.of].source, "active"), Locked(r.target, "active")>>
      BY <1>1, <1>2, <1>6, NeededLocks DEF Needed
    <2>2. Secured(r, Locked(Payload[r.of].source, "active")) /\ Secured(r, Locked(r.target, "active"))
      BY <1>1, <2>1
    <2>3. QED
      BY <1>6, <2>1, <2>2 DEF Secured, Locked
  <1>7. QED
    BY <1>2, <1>3, <1>4, <1>5, <1>6 DEF Resolutions

-----------------------------------------------------------------------------
(* What a resolution does to the registry.                                  *)

MergedEntity(into, aliases) == [status |-> "merged", into |-> into, aliases |-> aliases]

LEMMA ActiveEntity ==
  ASSUME MappingTypeOK, NEW e \in Entities, Active(e)
  PROVE  /\ registry[e] = CanonicalEntity(registry[e].aliases)
         /\ registry[e].aliases \in SUBSET Entities
         /\ \A aliases : [registry[e] EXCEPT !.aliases = aliases] = CanonicalEntity(aliases)
         /\ \A into : [[registry[e] EXCEPT !.status = "merged"] EXCEPT !.into = into]
                        = MergedEntity(into, registry[e].aliases)
  <1>1. registry[e] \in KnowledgeEntities /\ registry[e].status = "active"
    BY DEF Active, MappingTypeOK
  <1>2. registry[e] \in [status : {"active"}, into : {None}, aliases : SUBSET Entities]
    BY <1>1 DEF KnowledgeEntities
  <1>3. registry[e] = [status |-> "active", into |-> None, aliases |-> registry[e].aliases]
    BY <1>2
  <1>4. PICK aliases \in SUBSET Entities :
          registry[e] = [status |-> "active", into |-> None, aliases |-> aliases]
    BY <1>2
  <1>5. registry[e] = CanonicalEntity(aliases) /\ registry[e].aliases = aliases
    BY <1>4 DEF CanonicalEntity
  <1>6. ASSUME NEW names
        PROVE  [registry[e] EXCEPT !.aliases = names] = CanonicalEntity(names)
    BY <1>4 DEF CanonicalEntity
  <1>7. ASSUME NEW into
        PROVE  [[registry[e] EXCEPT !.status = "merged"] EXCEPT !.into = into]
                 = MergedEntity(into, aliases)
    <2>1. [registry[e] EXCEPT !.status = "merged"]
            = [status |-> "merged", into |-> None, aliases |-> aliases]
      BY <1>4
    <2>2. [[status |-> "merged", into |-> None, aliases |-> aliases] EXCEPT !.into = into]
            = [status |-> "merged", into |-> into, aliases |-> aliases]
      OBVIOUS
    <2>3. QED
      BY <2>1, <2>2 DEF MergedEntity
  <1>8. QED
    BY <1>5, <1>6, <1>7

LEMMA CreatedRows ==
  ASSUME MappingTypeOK, NEW r, r.as = "create", r.target \in Entities
  PROVE  ResolvedRegistry(r) = [registry EXCEPT ![r.target] = CanonicalEntity({})]
  BY DEF ResolvedRegistry

LEMMA ReusedRows ==
  ASSUME MappingTypeOK, NEW r, r.as = "reuse", r.target \in Entities, Active(r.target)
  PROVE  ResolvedRegistry(r) = [registry EXCEPT ![r.target] = CanonicalEntity(NewAliases(r))]
  <1>1. ResolvedRegistry(r) = [registry EXCEPT ![r.target].aliases = NewAliases(r)]
    BY DEF ResolvedRegistry
  <1>2. [registry[r.target] EXCEPT !.aliases = NewAliases(r)] = CanonicalEntity(NewAliases(r))
    BY ActiveEntity
  <1>3. QED
    BY <1>1, <1>2

LEMMA MergedRows ==
  ASSUME MappingTypeOK, NEW r, r.as = "merge", r.target \in Entities, Active(r.target),
         NEW name \in Entities, name = Payload[r.of].name, name # r.target, Active(name)
  PROVE  ResolvedRegistry(r) =
           [registry EXCEPT ![r.target] = CanonicalEntity(NewAliases(r)),
                            ![name] = MergedEntity(r.target, registry[name].aliases)]
  <1>1. ResolvedRegistry(r) = [registry EXCEPT ![r.target].aliases = NewAliases(r),
                                               ![name].status = "merged",
                                               ![name].into = r.target]
    BY DEF ResolvedRegistry
  <1>2. [registry[r.target] EXCEPT !.aliases = NewAliases(r)] = CanonicalEntity(NewAliases(r))
    BY ActiveEntity
  <1>3. [[registry[name] EXCEPT !.status = "merged"] EXCEPT !.into = r.target]
          = MergedEntity(r.target, registry[name].aliases)
    BY ActiveEntity
  <1>4. registry \in [Entities -> KnowledgeEntities \cup {None}]
    BY DEF MappingTypeOK
  <1>5. QED
    BY <1>1, <1>2, <1>3, <1>4

\* The registry after the commit of a node, row by row.
LEMMA CommittedRows ==
  ASSUME MappingTypeOK, NEW u \in Users, ReviewHolds(u), CommitNode(u),
         NEW r, r = review[u]
  PROVE  /\ r.target \in Entities /\ r.target \in r.held
         /\ registry'[r.target] = CanonicalEntity(registry'[r.target].aliases)
         /\ registry'[r.target].aliases \in SUBSET (Entities \ {r.target})
         /\ Active(r.target) => registry[r.target].aliases \ {r.target}
                                  \subseteq registry'[r.target].aliases
         /\ \/ /\ registry[r.target] = None \/ Active(r.target)
               /\ \A e \in Entities \ {r.target} : registry'[e] = registry[e]
            \/ /\ Active(r.target)
               /\ \E name \in Entities \ {r.target} :
                    /\ name \in r.held /\ Active(name)
                    /\ registry'[name] = MergedEntity(r.target, registry[name].aliases)
                    /\ \A e \in Entities \ {r.target, name} : registry'[e] = registry[e]
  <1> USE DEF CommitNode
  <1>1. /\ r \in Approvals /\ r.target \in Entities /\ r.as \in Resolutions
        /\ r.todo = <<>> /\ r # None /\ r.as # "relate" /\ ~MergesItself(r)
        /\ registry' = ResolvedRegistry(r)
    BY ReviewTypes
  <1>2. registry \in [Entities -> KnowledgeEntities \cup {None}]
    BY DEF MappingTypeOK
  <1>3. \A aliases : CanonicalEntity(aliases).aliases = aliases
    BY DEF CanonicalEntity
  <1>4. CASE r.as = "create"
    <2>1. r.target \in r.held /\ registry[r.target] = None
      BY <1>1, <1>4, CommitRelies
    <2>2. registry'[r.target] = CanonicalEntity({})
      BY <1>1, <1>2, <1>4, CreatedRows
    <2>3. \A e \in Entities \ {r.target} : registry'[e] = registry[e]
      BY <1>1, <1>2, <1>4, CreatedRows
    <2>4. ~Active(r.target)
      BY <2>1 DEF Active
    <2>5. QED
      BY <1>1, <1>3, <2>1, <2>2, <2>3, <2>4
  <1>5. ASSUME r.as \in {"reuse", "merge"}
        PROVE  /\ r.target \in r.held /\ Active(r.target) /\ Payload[r.of].name \in Entities
               /\ NewAliases(r) \in SUBSET (Entities \ {r.target})
               /\ registry[r.target].aliases \ {r.target} \subseteq NewAliases(r)
    <2>1. /\ r.target \in r.held /\ Active(r.target) /\ Payload[r.of].name \in Entities
          /\ r.read = registry[r.target].aliases
      BY <1>1, <1>5, CommitRelies
    <2>2. registry[r.target].aliases \in SUBSET Entities
      BY <1>1, <2>1, ActiveEntity
    <2>3. QED
      BY <2>1, <2>2 DEF NewAliases
  <1>6. CASE r.as = "reuse"
    <2>1. registry' = [registry EXCEPT ![r.target] = CanonicalEntity(NewAliases(r))]
      BY <1>1, <1>5, <1>6, ReusedRows
    <2>2. registry'[r.target] = CanonicalEntity(NewAliases(r))
      BY <1>1, <1>2, <2>1
    <2>3. \A e \in Entities \ {r.target} : registry'[e] = registry[e]
      BY <1>1, <1>2, <2>1
    <2>4. QED
      BY <1>1, <1>3, <1>5, <1>6, <2>2, <2>3
  <1>7. CASE r.as = "merge"
    <2>1. PICK name \in Entities : name = Payload[r.of].name
      BY <1>5, <1>7
    <2>2. name # r.target /\ name \in r.held /\ Active(name)
      BY <1>1, <1>7, <2>1, CommitRelies DEF MergesItself
    <2>3. registry' = [registry EXCEPT ![r.target] = CanonicalEntity(NewAliases(r)),
                                       ![name] = MergedEntity(r.target, registry[name].aliases)]
      BY <1>1, <1>5, <1>7, <2>1, <2>2, MergedRows
    <2>4. registry'[r.target] = CanonicalEntity(NewAliases(r))
      BY <1>1, <1>2, <2>2, <2>3
    <2>5. registry'[name] = MergedEntity(r.target, registry[name].aliases)
      BY <1>1, <1>2, <2>2, <2>3
    <2>6. \A e \in Entities \ {r.target, name} : registry'[e] = registry[e]
      BY <1>1, <1>2, <2>3
    <2>7. QED
      BY <1>1, <1>3, <1>5, <1>7, <2>2, <2>4, <2>5, <2>6
  <1>8. QED
    BY <1>1, <1>4, <1>6, <1>7 DEF Resolutions

LEMMA MergedRowsAre ==
  ASSUME MappingTypeOK, NEW e \in Entities
  PROVE  /\ e \in Merged <=> registry[e] # None /\ ~Active(e)
         /\ e \in Merged => registry[e].into \in Entities
  BY EntityTypes DEF Merged, Active

LEMMA CanonicalFields ==
  ASSUME NEW aliases \in SUBSET Entities
  PROVE  /\ CanonicalEntity(aliases) \in KnowledgeEntities
         /\ CanonicalEntity(aliases) # None
         /\ CanonicalEntity(aliases).status = "active"
         /\ CanonicalEntity(aliases).aliases = aliases
  <1>1. CanonicalEntity(aliases) \in [status : {"active"}, into : {None}, aliases : SUBSET Entities]
    BY DEF CanonicalEntity
  <1>2. CanonicalEntity(aliases) \in KnowledgeEntities
    BY <1>1 DEF KnowledgeEntities
  <1>3. QED
    BY <1>2, AbsentReview DEF CanonicalEntity

LEMMA MergedFields ==
  ASSUME NEW into \in Entities, NEW aliases \in SUBSET Entities
  PROVE  /\ MergedEntity(into, aliases) \in KnowledgeEntities
         /\ MergedEntity(into, aliases) # None
         /\ MergedEntity(into, aliases).status = "merged"
         /\ MergedEntity(into, aliases).into = into
         /\ MergedEntity(into, aliases).aliases = aliases
  <1>1. MergedEntity(into, aliases) \in [status : {"merged"}, into : Entities, aliases : SUBSET Entities]
    BY DEF MergedEntity
  <1>2. MergedEntity(into, aliases) \in KnowledgeEntities
    BY <1>1 DEF KnowledgeEntities
  <1>3. QED
    BY <1>2, AbsentReview DEF MergedEntity

LEMMA CommittedRegistry ==
  ASSUME MappingTypeOK, NEW u \in Users, ReviewHolds(u), CommitNode(u),
         NEW target, target = review[u].target
  PROVE  /\ registry' \in [Entities -> KnowledgeEntities \cup {None}]
         /\ \A e \in Entities : registry[e] # None => registry'[e] # None
         /\ registry'[target] # None /\ Active(target)'
         /\ Merged' \subseteq Entities
  <1>1. PICK r : r = review[u]
    OBVIOUS
  <1>2. PICK new : new = registry'[r.target].aliases
    OBVIOUS
  <1>3. /\ r.target \in Entities /\ registry'[r.target] = CanonicalEntity(new)
        /\ new \in SUBSET Entities
    BY <1>1, <1>2, CommittedRows
  <1>4. \A e \in Entities : registry[e] # None => registry[e].aliases \in SUBSET Entities
    BY EntityTypes
  <1>5. registry \in [Entities -> KnowledgeEntities \cup {None}]
    BY DEF MappingTypeOK
  <1>6. \A e \in Entities : /\ registry'[e] \in KnowledgeEntities \cup {None}
                            /\ registry[e] # None => registry'[e] # None
    <2>1. /\ registry'[r.target] \in KnowledgeEntities /\ registry'[r.target] # None
      BY <1>3, CanonicalFields
    <2>2. CASE \A e \in Entities \ {r.target} : registry'[e] = registry[e]
      BY <1>5, <2>1, <2>2
    <2>3. CASE \E name \in Entities \ {r.target} :
                 /\ Active(name)
                 /\ registry'[name] = MergedEntity(r.target, registry[name].aliases)
                 /\ \A e \in Entities \ {r.target, name} : registry'[e] = registry[e]
      <3>1. PICK name \in Entities \ {r.target} :
                 /\ Active(name)
                 /\ registry'[name] = MergedEntity(r.target, registry[name].aliases)
                 /\ \A e \in Entities \ {r.target, name} : registry'[e] = registry[e]
        BY <2>3
      <3>2. registry'[name] \in KnowledgeEntities /\ registry'[name] # None
        BY <1>3, <1>4, <3>1, MergedFields DEF Active
      <3>3. QED
        BY <1>5, <2>1, <3>1, <3>2
    <2>4. QED
      BY <1>1, <2>2, <2>3, CommittedRows
  <1>7. registry' = [e \in Entities |-> registry'[e]]
    BY <1>1, <1>5, ReviewTypes DEF CommitNode, ResolvedRegistry, Resolutions
  <1>8. Active(r.target)'
    BY <1>3, CanonicalFields DEF Active
  <1>9. registry'[r.target] # None
    BY <1>3, CanonicalFields
  <1>10. QED
    BY <1>1, <1>6, <1>7, <1>8, <1>9 DEF Merged

\* A merge adds an edge to an active entity, from one that was active.
LEMMA MergesStayAcyclic ==
  ASSUME MappingTypeOK, MergesEndActive, NEW u \in Users, ReviewHolds(u), CommitNode(u)
  PROVE  MergesEndActive'
  <1>1. PICK r : r = review[u]
    OBVIOUS
  <1>2. /\ r.target \in Entities /\ registry'[r.target] # None
        /\ Active(r.target)'
    <2>1. r.target \in Entities
      BY <1>1, CommittedRows
    <2>2. QED
      BY <1>1, <2>1, CommittedRegistry
  <1>3. \A e \in Entities : registry[e] # None => registry'[e] # None
    BY CommittedRegistry
  <1>4. /\ r.target \notin Merged /\ r.target \notin Merged'
    <2>1. r.target \notin Merged'
      BY <1>2 DEF Active, Merged
    <2>2. registry[r.target] = None \/ Active(r.target)
      BY <1>1, CommittedRows
    <2>3. QED
      BY <2>1, <2>2 DEF Active, Merged
  <1>5. CASE \A e \in Entities \ {r.target} : registry'[e] = registry[e]
    <2>1. Merged' = Merged /\ \A e \in Merged : registry'[e] = registry[e]
      BY <1>4, <1>5 DEF Merged
    <2>2. \A e \in Merged : registry[e].into \in Entities
      BY MergedRowsAre DEF Merged
    <2>3. QED
      BY <1>3, <2>1, <2>2 DEF MergesEndActive
  <1>6. CASE \E name \in Entities \ {r.target} :
               /\ Active(name)
               /\ registry'[name] = MergedEntity(r.target, registry[name].aliases)
               /\ \A e \in Entities \ {r.target, name} : registry'[e] = registry[e]
    <2>1. PICK name \in Entities \ {r.target} :
               /\ Active(name)
               /\ registry'[name] = MergedEntity(r.target, registry[name].aliases)
               /\ \A e \in Entities \ {r.target, name} : registry'[e] = registry[e]
      BY <1>6
    <2>2. registry[name].aliases \in SUBSET Entities
      BY <2>1, EntityTypes DEF Active
    <2>3. registry'[name].into = r.target
      BY <1>2, <2>1, <2>2, MergedFields
    <2>4. Merged' \subseteq Merged \cup {name} /\ \A e \in Merged : registry'[e] = registry[e]
      BY <1>4, <2>1 DEF Merged, Active
    <2>5. \A e \in Merged : registry[e].into \in Entities
      BY MergedRowsAre DEF Merged
    <2>6. \A e \in Merged' : registry'[registry'[e].into] # None
      BY <1>2, <1>3, <2>3, <2>4, <2>5 DEF MergesEndActive
    <2>7. ASSUME NEW S \in SUBSET Merged', S # {}
          PROVE  \E e \in S : registry'[e].into \notin S
      <3>1. CASE name \in S
        BY <1>4, <2>3, <2>7, <3>1
      <3>2. CASE name \notin S
        <4>1. S \in SUBSET Merged
          BY <2>4, <3>2
        <4>2. PICK e \in S : registry[e].into \notin S
          BY <2>7, <4>1 DEF MergesEndActive
        <4>3. QED
          BY <2>4, <4>1, <4>2
      <3>3. QED
        BY <3>1, <3>2
    <2>8. QED
      BY <2>6, <2>7 DEF MergesEndActive
  <1>7. QED
    BY <1>1, <1>5, <1>6, CommittedRows

-----------------------------------------------------------------------------
(* Where a proposal is stored.                                              *)

StoredAt(x, p) ==
  \/ \E e \in Entities : \E i \in DOMAIN nodes[e] : nodes[e][i] = p /\ x = <<e, i>>
  \/ \E pair \in Entities \X Entities :
       \E i \in DOMAIN assertions[pair] : assertions[pair][i] = p /\ x = <<pair, i>>

LEMMA Places == \A p, x : x \in StoredFor(p) <=> StoredAt(x, p)
  <1> TAKE p, x
  <1> DEFINE In(s) == {i \in DOMAIN s : s[i] = p}
             InNodes == UNION {{e} \X In(nodes[e]) : e \in Entities}
             InAssertions == UNION {{pair} \X In(assertions[pair]) : pair \in Entities \X Entities}
  <1>1. x \in InNodes <=>
          \E e \in Entities : x \in {e} \X In(nodes[e])
    OBVIOUS
  <1>2. x \in InAssertions <=>
          \E pair \in Entities \X Entities :
            x \in {pair} \X In(assertions[pair])
    OBVIOUS
  <1>3. StoredFor(p) = InNodes \cup InAssertions
    BY DEF StoredFor
  <1> HIDE DEF InNodes, InAssertions
  <1>4. \A a, S : x \in {a} \X S <=> \E i \in S : x = <<a, i>>
    OBVIOUS
  <1>5. x \in InNodes <=>
          \E e \in Entities : \E i \in DOMAIN nodes[e] : nodes[e][i] = p /\ x = <<e, i>>
    BY <1>1, <1>4
  <1>6. x \in InAssertions <=>
          \E pair \in Entities \X Entities :
            \E i \in DOMAIN assertions[pair] : assertions[pair][i] = p /\ x = <<pair, i>>
    BY <1>2, <1>4
  <1>7. QED
    BY <1>3, <1>5, <1>6 DEF StoredAt

LEMMA PlacesNext == (\A p, x : x \in StoredFor(p) <=> StoredAt(x, p))'
  BY Places, PTL

LEMMA Appended ==
  ASSUME NEW S, NEW s \in Seq(S), NEW p \in S
  PROVE  /\ Append(s, p) \in Seq(S) /\ Append(s, p) # <<>>
         /\ DOMAIN Append(s, p) = DOMAIN s \cup {Len(s) + 1}
         /\ Len(s) + 1 \notin DOMAIN s
         /\ \A i \in DOMAIN s : Append(s, p)[i] = s[i]
         /\ Append(s, p)[Len(s) + 1] = p
  OBVIOUS

LEMMA StoredNode ==
  ASSUME MappingTypeOK, NEW e \in Entities, NEW p \in Proposals,
         nodes' = [nodes EXCEPT ![e] = Append(@, p)], assertions' = assertions
  PROVE  /\ \A q : q # p => StoredFor(q)' = StoredFor(q)
         /\ StoredFor(p)' = StoredFor(p) \cup {<<e, Len(nodes[e]) + 1>>}
         /\ nodes' \in [Entities -> Seq(Proposals)]
  <1> DEFINE new == Len(nodes[e]) + 1
  <1>1. nodes \in [Entities -> Seq(Proposals)]
    BY DEF MappingTypeOK
  <1>2. /\ nodes'[e] \in Seq(Proposals)
        /\ DOMAIN nodes'[e] = DOMAIN nodes[e] \cup {new}
        /\ \A i \in DOMAIN nodes[e] : nodes'[e][i] = nodes[e][i]
        /\ nodes'[e][new] = p
    BY <1>1, Appended
  <1>3. \A f \in Entities \ {e} : nodes'[f] = nodes[f]
    BY <1>1
  <1>4. new \notin DOMAIN nodes[e]
    BY <1>1, Appended
  <1> HIDE DEF new
  <1>5. ASSUME NEW q, NEW x
        PROVE  StoredAt(x, q)' <=> StoredAt(x, q) \/ (q = p /\ x = <<e, new>>)
    <2>1. (\E f \in Entities : \E i \in DOMAIN nodes'[f] : nodes'[f][i] = q /\ x = <<f, i>>)
            <=> \/ \E f \in Entities : \E i \in DOMAIN nodes[f] : nodes[f][i] = q /\ x = <<f, i>>
                \/ q = p /\ x = <<e, new>>
      BY <1>2, <1>3, <1>4
    <2>2. QED
      BY <2>1 DEF StoredAt
  <1>6. \A q, x : x \in StoredFor(q) <=> StoredAt(x, q)
    BY Places
  <1>7. \A q, x : x \in StoredFor(q)' <=> StoredAt(x, q)'
    BY PlacesNext
  <1>8. nodes' \in [Entities -> Seq(Proposals)]
    BY <1>1, <1>2, <1>3
  <1>9. QED
    BY <1>5, <1>6, <1>7, <1>8 DEF new

LEMMA StoredAssertion ==
  ASSUME MappingTypeOK, NEW pair \in Entities \X Entities, NEW p \in Proposals,
         assertions' = [assertions EXCEPT ![pair] = Append(@, p)], nodes' = nodes
  PROVE  /\ \A q : q # p => StoredFor(q)' = StoredFor(q)
         /\ StoredFor(p)' = StoredFor(p) \cup {<<pair, Len(assertions[pair]) + 1>>}
         /\ assertions' \in [Entities \X Entities -> Seq(Proposals)]
  <1> DEFINE new == Len(assertions[pair]) + 1
             Pairs == Entities \X Entities
  <1>1. assertions \in [Pairs -> Seq(Proposals)]
    BY DEF MappingTypeOK
  <1>2. /\ assertions'[pair] \in Seq(Proposals)
        /\ DOMAIN assertions'[pair] = DOMAIN assertions[pair] \cup {new}
        /\ \A i \in DOMAIN assertions[pair] : assertions'[pair][i] = assertions[pair][i]
        /\ assertions'[pair][new] = p
    BY <1>1, Appended
  <1>3. \A f \in Pairs \ {pair} : assertions'[f] = assertions[f]
    BY <1>1
  <1>4. new \notin DOMAIN assertions[pair]
    BY <1>1, Appended
  <1>5. pair \in Pairs
    OBVIOUS
  <1>6. \A q, x : StoredAt(x, q)' <=>
          \/ \E e \in Entities : \E i \in DOMAIN nodes[e] : nodes[e][i] = q /\ x = <<e, i>>
          \/ \E f \in Pairs : \E i \in DOMAIN assertions'[f] :
               assertions'[f][i] = q /\ x = <<f, i>>
    BY DEF StoredAt
  <1>7. \A q, x : StoredAt(x, q) <=>
          \/ \E e \in Entities : \E i \in DOMAIN nodes[e] : nodes[e][i] = q /\ x = <<e, i>>
          \/ \E f \in Pairs : \E i \in DOMAIN assertions[f] :
               assertions[f][i] = q /\ x = <<f, i>>
    BY DEF StoredAt
  <1>8. assertions' \in [Pairs -> Seq(Proposals)]
    BY <1>1, <1>2, <1>3
  <1> HIDE DEF new, Pairs
  <1>9. ASSUME NEW q, NEW x
        PROVE  StoredAt(x, q)' <=> StoredAt(x, q) \/ (q = p /\ x = <<pair, new>>)
    <2>1. (\E f \in Pairs : \E i \in DOMAIN assertions'[f] : assertions'[f][i] = q /\ x = <<f, i>>)
            <=> \/ \E f \in Pairs : \E i \in DOMAIN assertions[f] :
                     assertions[f][i] = q /\ x = <<f, i>>
                \/ q = p /\ x = <<pair, new>>
      BY <1>2, <1>3, <1>4, <1>5
    <2>2. QED
      BY <1>6, <1>7, <2>1
  <1>10. \A q, x : x \in StoredFor(q) <=> StoredAt(x, q)
    BY Places
  <1>11. \A q, x : x \in StoredFor(q)' <=> StoredAt(x, q)'
    BY PlacesNext
  <1>12. QED
    BY <1>8, <1>9, <1>10, <1>11 DEF new, Pairs

\* A decision changes the status of its proposal and nothing else.
LEMMA ReviewedProposal ==
  ASSUME MappingTypeOK, NEW p \in Proposals, NEW status \in {"approved", "rejected"},
         proposal[p] # None, proposal' = [proposal EXCEPT ![p].status = status]
  PROVE  /\ proposal' \in [Proposals -> MappingProposals \cup {None}]
         /\ proposal'[p] # None /\ proposal'[p].status = status
         /\ \A q \in Proposals \ {p} : proposal'[q] = proposal[q]
  <1>1. PICK row : row = [proposal[p] EXCEPT !.status = status]
    OBVIOUS
  <1>2. proposal[p] \in MappingProposals
    BY ProposalTypes
  <1>3. row \in MappingProposals /\ row.status = status
    BY <1>1, <1>2 DEF MappingProposals
  <1>4. proposal' = [proposal EXCEPT ![p] = row]
    BY <1>1
  <1>5. QED
    BY <1>3, <1>4, AbsentReview DEF MappingTypeOK

\* An approval adds the one place of its proposal.
LEMMA PlacesAfterApproval ==
  ASSUME MappingTypeOK, NEW p \in Proposals, NEW x,
         proposal[p] # None, proposal[p].status = "submitted", Approved(p),
         \A q : q # p => StoredFor(q)' = StoredFor(q),
         StoredFor(p)' = StoredFor(p) \cup {x},
         \A q \in Proposals : PlaceHolds(q)
  PROVE  \A q \in Proposals : PlaceHolds(q)'
  <1>1. proposal'[p] # None /\ proposal'[p].status = "approved"
    BY ReviewedProposal DEF Approved
  <1>2. \A q \in Proposals \ {p} : proposal'[q] = proposal[q]
    BY ReviewedProposal DEF Approved
  <1>3. ~IsApproved(p) /\ IsApproved(p)'
    BY <1>1 DEF IsApproved
  <1>4. StoredFor(p)' = {x}
    BY <1>3 DEF PlaceHolds
  <1>5. ASSUME NEW q \in Proposals PROVE PlaceHolds(q)'
    <2>1. CASE q = p
      BY <1>3, <1>4, <2>1 DEF PlaceHolds
    <2>2. CASE q # p
      <3>1. IsApproved(q)' <=> IsApproved(q)
        BY <1>2, <2>2 DEF IsApproved
      <3>2. StoredFor(q)' = StoredFor(q)
        BY <2>2
      <3>3. QED
        BY <3>1, <3>2 DEF PlaceHolds
    <2>3. QED
      BY <2>1, <2>2
  <1>6. QED
    BY <1>5

-----------------------------------------------------------------------------
(* Open reviews beside a step.                                              *)

\* Other reviews of u's kind: of another proposal, with other rows.
Apart(r, q) == q # None => q.of # r.of /\ q.held \cap r.held = {}

LEMMA SecuredStays ==
  ASSUME NEW r, \A e \in r.held : registry'[e] = registry[e],
         NEW next \in LockRequests, Secured(r, next)
  PROVE  Secured(r, next)'
  <1>1. CASE next.must = "exist"
    BY <1>1 DEF Secured
  <1>2. CASE next.must = "absent"
    BY <1>2 DEF Secured
  <1>3. CASE next.must = "active"
    BY <1>3 DEF Secured, Active
  <1>4. QED
    BY <1>1, <1>2, <1>3 DEF LockRequests

LEMMA ReviewStays ==
  ASSUME MappingTypeOK, NEW w \in Users, ReviewHolds(w), review'[w] = review[w],
         review[w] # None =>
           /\ proposal'[review[w].of] = proposal[review[w].of]
           /\ \A e \in review[w].held : registry'[e] = registry[e]
           /\ \A x \in Users \ {w} : Apart(review[w], review'[x])
  PROVE  ReviewHolds(w)'
  <1> SUFFICES ASSUME review[w] # None PROVE ReviewHolds(w)'
    BY DEF ReviewHolds
  <1>1. PICK r : r = review[w] /\ r = review'[w]
    OBVIOUS
  <1>2. /\ r.of \in Proposals /\ r.as \in Resolutions /\ r.target \in Entities
        /\ Resolvable(Payload[r.of], r.as, r.target) /\ LocksHold(r)
        /\ proposal[r.of] # None /\ proposal[r.of].status = "submitted"
    BY <1>1, ReviewTypes DEF ReviewHolds
  <1>3. Needed(r) \in Seq(LockRequests)
    BY <1>2, NeededTypes DEF Needed
  <1>4. \A i \in DOMAIN Needed(r) : Needed(r)[i] \in LockRequests
    BY <1>3
  <1>5. \A i \in DOMAIN Needed(r) : Secured(r, Needed(r)[i]) => Secured(r, Needed(r)[i])'
    BY <1>1, <1>4, SecuredStays
  <1>6. LocksHold(r)'
    BY <1>2, <1>5 DEF LocksHold
  <1>7. \A x \in Users \ {w} :
          review'[x] # None => review'[x].of # r.of /\ review'[x].held \cap r.held = {}
    BY <1>1 DEF Apart
  <1>8. proposal'[r.of] # None /\ proposal'[r.of].status = "submitted"
    BY <1>1, <1>2
  <1>9. QED
    BY <1>1, <1>2, <1>6, <1>7, <1>8 DEF ReviewHolds

LEMMA OthersApart ==
  ASSUME NEW w \in Users, ReviewHolds(w), review[w] # None, NEW x \in Users \ {w}
  PROVE  Apart(review[w], review[x])
  BY DEF ReviewHolds, Apart

\* A review ends and what it locked changes: the others go on.
LEMMA ReviewEnds ==
  ASSUME MappingTypeOK, \A w \in Users : ReviewHolds(w), NEW u \in Users,
         review' = [review EXCEPT ![u] = None],
         \/ UNCHANGED <<registry, proposal>>
         \/ /\ review[u] # None
            /\ \A e \in Entities \ review[u].held : registry'[e] = registry[e]
            /\ \A q \in Proposals \ {review[u].of} : proposal'[q] = proposal[q]
  PROVE  /\ review' \in [Users -> Approvals \cup {None}]
         /\ \A w \in Users : ReviewHolds(w)'
  <1>1. review \in [Users -> Approvals \cup {None}]
    BY DEF MappingTypeOK
  <1>2. review'[u] = None /\ \A w \in Users \ {u} : review'[w] = review[w]
    BY <1>1
  <1>3. ReviewHolds(u)'
    BY <1>2 DEF ReviewHolds
  <1>4. ASSUME NEW w \in Users \ {u} PROVE ReviewHolds(w)'
    <2>1. CASE review[w] = None
      BY <1>2, <2>1 DEF ReviewHolds
    <2>2. CASE review[w] # None
      <3>1. \A x \in Users \ {w} : Apart(review[w], review'[x])
        <4>1. \A x \in Users \ {w} : Apart(review[w], review[x])
          BY <2>2, OthersApart
        <4>2. QED
          BY <1>2, <4>1 DEF Apart
      <3>2. review[w].of \in Proposals /\ review[w].held \in SUBSET Entities
        BY <2>2, ReviewTypes
      <3>3. /\ proposal'[review[w].of] = proposal[review[w].of]
            /\ \A e \in review[w].held : registry'[e] = registry[e]
        <4>1. CASE UNCHANGED <<registry, proposal>>
          BY <4>1
        <4>2. CASE /\ review[u] # None
                   /\ \A e \in Entities \ review[u].held : registry'[e] = registry[e]
                   /\ \A q \in Proposals \ {review[u].of} : proposal'[q] = proposal[q]
          <5>1. Apart(review[w], review[u])
            BY <2>2, OthersApart
          <5>2. QED
            BY <3>2, <4>2, <5>1 DEF Apart
        <4>3. QED
          BY <4>1, <4>2
      <3>4. QED
        BY <1>2, <3>1, <3>3, ReviewStays
    <2>3. QED
      BY <2>1, <2>2
  <1>5. QED
    BY <1>1, <1>2, <1>3, <1>4

-----------------------------------------------------------------------------
(* The steps.                                                               *)

LEMMA OpenHolds ==
  ASSUME MappingSafe, NEW u \in Users, NEW p \in Proposals, NEW as \in Resolutions,
         NEW target \in Entities, OpenApproval(u, p, as, target)
  PROVE  /\ review' \in [Users -> Approvals \cup {None}]
         /\ \A w \in Users : ReviewHolds(w)'
  <1> DEFINE new == [of |-> p, as |-> as, target |-> target, read |-> {},
                     held |-> {}, todo |-> LocksOf(Payload[p], as, target)]
  <1>1. /\ review \in [Users -> Approvals \cup {None}]
        /\ review[u] = None /\ Resolvable(Payload[p], as, target)
        /\ proposal[p] # None /\ proposal[p].status = "submitted"
        /\ \A w \in Users : review[w] # None => review[w].of # p
        /\ review' = [review EXCEPT ![u] = new]
        /\ UNCHANGED <<registry, proposal>>
    BY DEF OpenApproval, Reviewable, MappingSafe, MappingTypeOK
  <1>2. LocksOf(Payload[p], as, target) \in Seq(LockRequests)
    BY <1>1, NeededTypes
  <1>3. new \in Approvals
    BY <1>2 DEF Approvals
  <1>4. /\ new.of = p /\ new.as = as /\ new.target = target /\ new.held = {}
        /\ new.todo = LocksOf(Payload[p], as, target)
    OBVIOUS
  <1> HIDE DEF new
  <1>5. review'[u] = new /\ \A w \in Users \ {u} : review'[w] = review[w]
    BY <1>1
  <1>6. new # None
    BY <1>3, AbsentReview
  <1>7. ReviewHolds(u)'
    <2>1. PICK n : n = new /\ n = review'[u]
      BY <1>5
    <2>2. LocksHold(n)'
      BY <1>4, <2>1 DEF LocksHold, Needed
    <2>3. \A w \in Users \ {u} :
            review'[w] # None => review'[w].of # n.of /\ review'[w].held \cap n.held = {}
      BY <1>1, <1>4, <1>5, <2>1
    <2>4. proposal'[n.of] # None /\ proposal'[n.of].status = "submitted"
      BY <1>1, <1>4, <2>1
    <2>5. Resolvable(Payload[n.of], n.as, n.target)
      BY <1>1, <1>4, <2>1
    <2>6. QED
      BY <2>1, <2>2, <2>3, <2>4, <2>5 DEF ReviewHolds
  <1>8. ASSUME NEW w \in Users \ {u} PROVE ReviewHolds(w)'
    <2>1. ASSUME review[w] # None, NEW x \in Users \ {w} PROVE Apart(review[w], review'[x])
      <3>1. CASE x = u
        BY <1>1, <1>4, <1>5, <2>1, <3>1 DEF Apart
      <3>2. CASE x # u
        <4>1. Apart(review[w], review[x])
          BY <2>1, OthersApart DEF MappingSafe
        <4>2. QED
          BY <1>5, <3>2, <4>1
      <3>3. QED
        BY <3>1, <3>2
    <2>2. QED
      BY <1>1, <1>5, <2>1, ReviewStays DEF MappingSafe
  <1>9. QED
    BY <1>1, <1>3, <1>7, <1>8

\* What a granted lock finds is secured.
LEMMA GrantedLock ==
  ASSUME MappingTypeOK, NEW r \in Approvals, NEW next \in LockRequests, Found(next),
         NEW n \in Approvals, n.target = r.target, n.held = r.held \cup LockedRows(next),
         n.read = IF next.must = "active" /\ next.entity = r.target
                  THEN registry[r.target].aliases ELSE r.read
  PROVE  /\ Secured(n, next)
         /\ \A other \in LockRequests : Secured(r, other) => Secured(n, other)
  <1>1. Secured(n, next)
    <2>1. CASE next.must = "exist"
      BY <2>1 DEF Secured
    <2>2. CASE next.must = "absent"
      BY <2>2 DEF Secured, Found, LockedRows, Rows
    <2>3. CASE next.must = "active"
      BY <2>3 DEF Secured, Found, LockedRows, Rows, Active
    <2>4. QED
      BY <2>1, <2>2, <2>3 DEF LockRequests
  <1>2. ASSUME NEW other \in LockRequests, Secured(r, other) PROVE Secured(n, other)
    <2>1. CASE other.must = "exist"
      BY <2>1 DEF Secured
    <2>2. CASE other.must = "absent"
      BY <1>2, <2>2 DEF Secured
    <2>3. CASE other.must = "active"
      BY <1>2, <2>3 DEF Secured
    <2>4. QED
      BY <2>1, <2>2, <2>3 DEF LockRequests
  <1>3. QED
    BY <1>1, <1>2

LEMMA LockHolds ==
  ASSUME MappingSafe, NEW u \in Users, LockNext(u)
  PROVE  /\ review' \in [Users -> Approvals \cup {None}]
         /\ \A w \in Users : ReviewHolds(w)'
  <1>1. PICK r : r = review[u]
    OBVIOUS
  <1>2. PICK next : next = Head(r.todo)
    OBVIOUS
  <1> DEFINE new == [r EXCEPT !.held = @ \cup LockedRows(next),
                              !.read = IF next.must = "active" /\ next.entity = r.target
                                       THEN registry[r.target].aliases ELSE @,
                              !.todo = Tail(@)]
  <1>3. /\ r # None /\ r.todo # <<>> /\ ~Waits(u) /\ Found(next)
        /\ review' = [review EXCEPT ![u] = new]
        /\ UNCHANGED <<registry, proposal>>
    BY <1>1, <1>2 DEF LockNext
  <1>4. /\ review \in [Users -> Approvals \cup {None}] /\ MappingTypeOK
        /\ ReviewHolds(u)
    BY DEF MappingSafe, MappingTypeOK
  <1>5. /\ r \in Approvals /\ r.of \in Proposals /\ r.as \in Resolutions
        /\ r.target \in Entities /\ r.held \in SUBSET Entities /\ r.read \in SUBSET Entities
        /\ r.todo \in Seq(LockRequests)
    BY <1>1, <1>3, <1>4, ReviewTypes
  <1>6. /\ next \in LockRequests /\ next.entity \in Entities
        /\ Tail(r.todo) \in Seq(LockRequests)
        /\ \A j \in DOMAIN r.todo :
             r.todo[j] = next \/ \E i \in DOMAIN Tail(r.todo) : Tail(r.todo)[i] = r.todo[j]
    <2>1. next = r.todo[1] /\ next \in LockRequests /\ Tail(r.todo) \in Seq(LockRequests)
      BY <1>2, <1>3, <1>5
    <2>2. ASSUME NEW j \in DOMAIN r.todo, j # 1
          PROVE  j - 1 \in DOMAIN Tail(r.todo) /\ Tail(r.todo)[j - 1] = r.todo[j]
      BY <1>3, <1>5, <2>2
    <2>3. QED
      BY <2>1, <2>2 DEF LockRequests
  <1>7. LockedRows(next) \in SUBSET Entities
    BY <1>6 DEF LockedRows, Rows
  <1>8. next.must = "active" => registry[next.entity].aliases \in SUBSET Entities
    BY <1>3, <1>4, <1>6, EntityTypes DEF Found, Active
  <1>9. /\ new \in Approvals /\ new.of = r.of /\ new.as = r.as /\ new.target = r.target
        /\ new.held = r.held \cup LockedRows(next) /\ new.todo = Tail(r.todo)
        /\ new.read = IF next.must = "active" /\ next.entity = r.target
                      THEN registry[r.target].aliases ELSE r.read
    BY <1>5, <1>6, <1>7, <1>8 DEF Approvals
  <1> HIDE DEF new
  <1>10. review'[u] = new /\ \A w \in Users \ {u} : review'[w] = review[w]
    BY <1>3, <1>4
  <1>11. new # None
    BY <1>9, AbsentReview
  <1>12. \A w \in Users \ {u} :
           review[w] # None => review[w].of # r.of /\ review[w].held \cap new.held = {}
    <2>1. ASSUME NEW w \in Users \ {u}, review[w] # None PROVE LockedRows(next) \cap review[w].held = {}
      <3>1. next.must = "absent" \/ registry[next.entity] # None => ~Holds(w, next.entity)
        BY <1>1, <1>2, <1>3 DEF Waits
      <3>2. QED
        BY <2>1, <3>1 DEF Holds, LockedRows, Rows
    <2>2. QED
      BY <1>1, <1>3, <1>4, <1>9, <2>1 DEF ReviewHolds
  <1>13. /\ Resolvable(Payload[r.of], r.as, r.target) /\ LocksHold(r)
         /\ proposal[r.of] # None /\ proposal[r.of].status = "submitted"
    BY <1>1, <1>3, <1>4 DEF ReviewHolds
  <1>14. LocksHold(new)
    <2>1. Needed(new) = Needed(r) /\ Needed(r) \in Seq(LockRequests)
      BY <1>5, <1>9, <1>13, NeededTypes DEF Needed
    <2>2. \A i \in DOMAIN Needed(r) : Needed(r)[i] \in LockRequests
      BY <2>1
    <2>3. /\ Secured(new, next)
          /\ \A other \in LockRequests : Secured(r, other) => Secured(new, other)
      BY <1>3, <1>4, <1>5, <1>6, <1>9, GrantedLock
    <2>4. ASSUME NEW i \in DOMAIN Needed(r)
          PROVE  \/ Secured(new, Needed(r)[i])
                 \/ \E j \in DOMAIN new.todo : new.todo[j] = Needed(r)[i]
      BY <1>6, <1>9, <1>13, <2>2, <2>3 DEF LocksHold
    <2>5. QED
      BY <2>1, <2>4 DEF LocksHold
  <1>15. ReviewHolds(u)'
    <2>1. PICK n : n = new
      OBVIOUS
    <2>2. LocksHold(n)' <=> LocksHold(n)
      BY <1>3 DEF LocksHold, Needed, Secured, Active
    <2>3. \A w \in Users \ {u} :
            review'[w] # None => review'[w].of # n.of /\ review'[w].held \cap n.held = {}
      BY <1>9, <1>10, <1>12, <2>1
    <2>4. n = review'[u] /\ Resolvable(Payload[n.of], n.as, n.target)
      BY <1>9, <1>10, <1>13, <2>1
    <2>5. proposal'[n.of] # None /\ proposal'[n.of].status = "submitted"
      BY <1>3, <1>9, <1>13, <2>1
    <2>6. QED
      BY <1>14, <2>1, <2>2, <2>3, <2>4, <2>5 DEF ReviewHolds
  <1>16. ASSUME NEW w \in Users \ {u} PROVE ReviewHolds(w)'
    <2>1. ASSUME review[w] # None, NEW x \in Users \ {w} PROVE Apart(review[w], review'[x])
      <3>1. CASE x = u
        BY <1>9, <1>10, <1>12, <2>1, <3>1 DEF Apart
      <3>2. CASE x # u
        <4>1. Apart(review[w], review[x])
          BY <2>1, OthersApart DEF MappingSafe
        <4>2. QED
          BY <1>10, <3>2, <4>1
      <3>3. QED
        BY <3>1, <3>2
    <2>2. QED
      BY <1>3, <1>10, <2>1, ReviewStays DEF MappingSafe
  <1>17. QED
    BY <1>3, <1>4, <1>9, <1>15, <1>16

LEMMA EntitiesStay ==
  ASSUME UNCHANGED registry,
         \A e \in Entities : nodes[e] # <<>> => nodes'[e] # <<>>,
         \A e \in Entities : EntityHolds(e)
  PROVE  \A e \in Entities : EntityHolds(e)'
  BY DEF EntityHolds

LEMMA PlacesStay ==
  ASSUME UNCHANGED <<nodes, assertions>>,
         \A p \in Proposals : IsApproved(p)' <=> IsApproved(p),
         \A p \in Proposals : PlaceHolds(p)
  PROVE  \A p \in Proposals : PlaceHolds(p)'
  <1>1. \A p : StoredFor(p)' = StoredFor(p)
    BY DEF StoredFor
  <1>2. QED
    BY <1>1 DEF PlaceHolds

LEMMA CommitNodeHolds ==
  ASSUME MappingSafe, NEW u \in Users, CommitNode(u)
  PROVE  MappingSafe'
  <1>1. PICK r : r = review[u]
    OBVIOUS
  <1>2. MappingTypeOK /\ ReviewHolds(u) /\ r # None
    BY <1>1 DEF MappingSafe, CommitNode
  <1>3. r \in Approvals /\ r.of \in Proposals /\ r.target \in Entities
    BY <1>1, <1>2, ReviewTypes
  <1>4. proposal[r.of] # None /\ proposal[r.of].status = "submitted"
    BY <1>1, <1>2 DEF ReviewHolds
  <1>5. /\ Approved(r.of) /\ review' = [review EXCEPT ![u] = None]
        /\ nodes' = [nodes EXCEPT ![r.target] = Append(@, r.of)] /\ assertions' = assertions
    BY <1>1 DEF CommitNode
  <1>6. /\ proposal' \in [Proposals -> MappingProposals \cup {None}]
        /\ \A q \in Proposals \ {r.of} : proposal'[q] = proposal[q]
    BY <1>2, <1>3, <1>4, <1>5, ReviewedProposal DEF Approved
  <1>7. \A e \in Entities \ r.held : registry'[e] = registry[e]
    BY <1>1, <1>2, CommittedRows
  <1>8. /\ review' \in [Users -> Approvals \cup {None}]
        /\ \A w \in Users : ReviewHolds(w)'
    BY <1>1, <1>2, <1>5, <1>6, <1>7, ReviewEnds DEF MappingSafe
  <1>9. registry' \in [Entities -> KnowledgeEntities \cup {None}] /\ MergesEndActive'
    BY <1>1, <1>2, CommittedRegistry, MergesStayAcyclic DEF MappingSafe
  <1>10. /\ nodes' \in [Entities -> Seq(Proposals)]
         /\ \A q : q # r.of => StoredFor(q)' = StoredFor(q)
         /\ StoredFor(r.of)' = StoredFor(r.of) \cup {<<r.target, Len(nodes[r.target]) + 1>>}
    BY <1>2, <1>3, <1>5, StoredNode
  <1>11. \A p \in Proposals : PlaceHolds(p)'
    <2>1. PICK x : x = <<r.target, Len(nodes[r.target]) + 1>>
      OBVIOUS
    <2>2. QED
      BY <1>2, <1>3, <1>4, <1>5, <1>10, <2>1, PlacesAfterApproval DEF MappingSafe
  <1>12. nodes \in [Entities -> Seq(Proposals)]
    BY <1>2 DEF MappingTypeOK
  <1>13. /\ nodes'[r.target] # <<>>
         /\ \A e \in Entities \ {r.target} : nodes'[e] = nodes[e]
    BY <1>3, <1>5, <1>12, Appended
  <1>14. ASSUME NEW e \in Entities PROVE EntityHolds(e)'
    <2>1. CASE e = r.target
      <3>1. registry'[r.target].aliases \in SUBSET (Entities \ {r.target})
        BY <1>1, <1>2, CommittedRows
      <3>2. QED
        BY <1>13, <2>1, <3>1 DEF EntityHolds
    <2>2. CASE e # r.target /\ registry'[e] = registry[e]
      BY <1>13, <2>2 DEF EntityHolds, MappingSafe
    <2>3. CASE e # r.target /\ Active(e) /\ registry'[e] = MergedEntity(r.target, registry[e].aliases)
      <3>1. registry[e].aliases \in SUBSET Entities /\ registry[e] # None
        BY <1>2, <2>3, EntityTypes DEF Active
      <3>2. registry'[e].aliases = registry[e].aliases
        BY <1>3, <2>3, <3>1, MergedFields
      <3>3. QED
        BY <1>13, <2>3, <3>1, <3>2 DEF EntityHolds, MappingSafe
    <2>4. QED
      BY <1>1, <1>2, <2>1, <2>2, <2>3, CommittedRows
  <1>15. MappingTypeOK'
    BY <1>2, <1>5, <1>6, <1>8, <1>9, <1>10 DEF MappingTypeOK
  <1>16. QED
    BY <1>8, <1>9, <1>11, <1>14, <1>15 DEF MappingSafe

LEMMA CommitAssertionHolds ==
  ASSUME MappingSafe, NEW u \in Users, CommitAssertion(u)
  PROVE  MappingSafe'
  <1>1. PICK r : r = review[u]
    OBVIOUS
  <1>2. MappingTypeOK /\ ReviewHolds(u) /\ r # None /\ r.todo = <<>> /\ r.as = "relate"
    BY <1>1 DEF MappingSafe, CommitAssertion
  <1>3. r \in Approvals /\ r.of \in Proposals /\ r.target \in Entities
    BY <1>1, <1>2, ReviewTypes
  <1>4. proposal[r.of] # None /\ proposal[r.of].status = "submitted"
    BY <1>1, <1>2 DEF ReviewHolds
  <1>5. PICK pair : pair = <<Payload[r.of].source, Payload[r.of].target>>
    OBVIOUS
  <1>6. pair \in Entities \X Entities
    BY <1>1, <1>2, <1>3, <1>5, CommitRelies
  <1>7. /\ Approved(r.of) /\ review' = [review EXCEPT ![u] = None]
        /\ assertions' = [assertions EXCEPT ![pair] = Append(@, r.of)]
        /\ UNCHANGED <<registry, nodes>>
    BY <1>1, <1>5 DEF CommitAssertion
  <1>8. /\ proposal' \in [Proposals -> MappingProposals \cup {None}]
        /\ \A q \in Proposals \ {r.of} : proposal'[q] = proposal[q]
    BY <1>2, <1>3, <1>4, <1>7, ReviewedProposal DEF Approved
  <1>9. /\ review' \in [Users -> Approvals \cup {None}]
        /\ \A w \in Users : ReviewHolds(w)'
    BY <1>1, <1>2, <1>7, <1>8, ReviewEnds DEF MappingSafe
  <1>10. /\ assertions' \in [Entities \X Entities -> Seq(Proposals)]
         /\ \A q : q # r.of => StoredFor(q)' = StoredFor(q)
         /\ StoredFor(r.of)' = StoredFor(r.of) \cup {<<pair, Len(assertions[pair]) + 1>>}
    BY <1>2, <1>3, <1>6, <1>7, StoredAssertion
  <1>11. \A p \in Proposals : PlaceHolds(p)'
    <2>1. PICK x : x = <<pair, Len(assertions[pair]) + 1>>
      OBVIOUS
    <2>2. QED
      BY <1>2, <1>3, <1>4, <1>7, <1>10, <2>1, PlacesAfterApproval DEF MappingSafe
  <1>12. \A e \in Entities : EntityHolds(e)'
    BY <1>7, EntitiesStay DEF MappingSafe
  <1>13. MergesEndActive'
    BY <1>7 DEF MappingSafe, MergesEndActive, Merged
  <1>14. MappingTypeOK'
    BY <1>2, <1>7, <1>8, <1>9, <1>10 DEF MappingTypeOK
  <1>15. QED
    BY <1>9, <1>11, <1>12, <1>13, <1>14 DEF MappingSafe

\* A step that changes neither registry nor artifacts, and approves nothing.
LEMMA QuietStep ==
  ASSUME MappingSafe, UNCHANGED <<registry, nodes, assertions>>,
         proposal' \in [Proposals -> MappingProposals \cup {None}],
         \A p \in Proposals : IsApproved(p)' <=> IsApproved(p),
         review' \in [Users -> Approvals \cup {None}],
         \A w \in Users : ReviewHolds(w)'
  PROVE  MappingSafe'
  <1>1. MappingTypeOK'
    BY DEF MappingSafe, MappingTypeOK
  <1>2. MergesEndActive'
    BY DEF MappingSafe, MergesEndActive, Merged
  <1>3. \A e \in Entities : EntityHolds(e)'
    BY EntitiesStay DEF MappingSafe
  <1>4. \A p \in Proposals : PlaceHolds(p)'
    BY PlacesStay DEF MappingSafe
  <1>5. QED
    BY <1>1, <1>2, <1>3, <1>4 DEF MappingSafe

\* A proposal without open review comes or changes its status.
LEMMA ProposalStep ==
  ASSUME MappingSafe, NEW p \in Proposals,
         \A w \in Users : review[w] # None => review[w].of # p,
         \A q \in Proposals \ {p} : proposal'[q] = proposal[q],
         UNCHANGED <<registry, review>>
  PROVE  \A w \in Users : ReviewHolds(w)'
  <1> SUFFICES ASSUME NEW w \in Users PROVE ReviewHolds(w)'
    OBVIOUS
  <1>1. review[w] # None => /\ review[w].of \in Proposals \ {p}
                            /\ \A x \in Users \ {w} : Apart(review[w], review[x])
    BY ReviewTypes, OthersApart DEF MappingSafe
  <1>2. QED
    BY <1>1, ReviewStays DEF MappingSafe

LEMMA SubmitHolds ==
  ASSUME MappingSafe, NEW u \in Users, NEW p \in Proposals, SubmitMapping(u, p)
  PROVE  MappingSafe'
  <1> DEFINE row == [by |-> u, status |-> "submitted"]
  <1>1. /\ proposal[p] = None /\ proposal' = [proposal EXCEPT ![p] = row]
        /\ UNCHANGED <<registry, nodes, assertions, review>>
    BY DEF SubmitMapping
  <1>2. row \in MappingProposals /\ row.status = "submitted"
    BY DEF MappingProposals
  <1> HIDE DEF row
  <1>3. proposal \in [Proposals -> MappingProposals \cup {None}] /\ MappingTypeOK
    BY DEF MappingSafe, MappingTypeOK
  <1>4. /\ proposal' \in [Proposals -> MappingProposals \cup {None}]
        /\ proposal'[p] = row /\ \A q \in Proposals \ {p} : proposal'[q] = proposal[q]
    BY <1>1, <1>2, <1>3
  <1>5. \A q \in Proposals : IsApproved(q)' <=> IsApproved(q)
    BY <1>1, <1>2, <1>4 DEF IsApproved
  <1>6. \A w \in Users : review[w] # None => review[w].of # p
    BY <1>1 DEF MappingSafe, ReviewHolds
  <1>7. \A w \in Users : ReviewHolds(w)'
    BY <1>1, <1>4, <1>6, ProposalStep
  <1>8. QED
    BY <1>1, <1>3, <1>4, <1>5, <1>7, QuietStep DEF MappingTypeOK

LEMMA RejectHolds ==
  ASSUME MappingSafe, NEW u \in Users, NEW p \in Proposals, RejectMapping(u, p)
  PROVE  MappingSafe'
  <1>1. /\ proposal[p] # None /\ proposal[p].status = "submitted"
        /\ proposal' = [proposal EXCEPT ![p].status = "rejected"]
        /\ \A w \in Users : review[w] # None => review[w].of # p
        /\ UNCHANGED <<registry, nodes, assertions, review>>
    BY DEF RejectMapping, Reviewable
  <1>2. MappingTypeOK
    BY DEF MappingSafe
  <1>3. /\ proposal' \in [Proposals -> MappingProposals \cup {None}]
        /\ proposal'[p] # None /\ proposal'[p].status = "rejected"
        /\ \A q \in Proposals \ {p} : proposal'[q] = proposal[q]
    BY <1>1, <1>2, ReviewedProposal
  <1>4. \A q \in Proposals : IsApproved(q)' <=> IsApproved(q)
    BY <1>1, <1>3 DEF IsApproved
  <1>5. \A w \in Users : ReviewHolds(w)'
    BY <1>1, <1>3, ProposalStep
  <1>6. QED
    BY <1>1, <1>2, <1>3, <1>4, <1>5, QuietStep DEF MappingTypeOK

-----------------------------------------------------------------------------
(* The invariant is inductive.                                              *)

LEMMA InitHolds == MappingInit => MappingSafe
  <1> SUFFICES ASSUME MappingInit PROVE MappingSafe
    OBVIOUS
  <1> USE DEF MappingInit
  <1>1. MappingTypeOK
    <2>1. <<>> \in Seq(Proposals)
      OBVIOUS
    <2>2. QED
      BY <2>1 DEF MappingTypeOK
  <1>2. MergesEndActive
    BY DEF MergesEndActive, Merged
  <1>3. \A u \in Users : ReviewHolds(u)
    BY DEF ReviewHolds
  <1>4. \A e \in Entities : EntityHolds(e)
    BY DEF EntityHolds
  <1>5. ASSUME NEW p \in Proposals PROVE PlaceHolds(p)
    <2>1. \A e \in Entities : DOMAIN nodes[e] = {}
      OBVIOUS
    <2>2. \A pair \in Entities \X Entities : DOMAIN assertions[pair] = {}
      OBVIOUS
    <2>3. \A x : ~StoredAt(x, p)
      BY <2>1, <2>2 DEF StoredAt
    <2>4. StoredFor(p) = {}
      BY <2>3, Places
    <2>5. QED
      BY <2>4 DEF PlaceHolds, IsApproved
  <1>6. QED
    BY <1>1, <1>2, <1>3, <1>4, <1>5 DEF MappingSafe

LEMMA ClosedHolds ==
  ASSUME MappingSafe, NEW u \in Users, Closed(u)
  PROVE  MappingSafe'
  <1>1. MappingTypeOK /\ \A w \in Users : ReviewHolds(w)
    BY DEF MappingSafe
  <1>2. /\ review' \in [Users -> Approvals \cup {None}]
        /\ \A w \in Users : ReviewHolds(w)'
    BY <1>1, ReviewEnds DEF Closed
  <1>3. QED
    BY <1>1, <1>2, QuietStep DEF Closed, MappingTypeOK, IsApproved

LEMMA NextHolds == MappingSafe /\ [MappingNext]_mappingVars => MappingSafe'
  <1> SUFFICES ASSUME MappingSafe, [MappingNext]_mappingVars PROVE MappingSafe'
    OBVIOUS
  <1>1. ASSUME NEW u \in Users, NEW p \in Proposals, SubmitMapping(u, p) PROVE MappingSafe'
    BY <1>1, SubmitHolds
  <1>2. ASSUME NEW u \in Users, NEW p \in Proposals, RejectMapping(u, p) PROVE MappingSafe'
    BY <1>2, RejectHolds
  <1>3. ASSUME NEW u \in Users, NEW p \in Proposals, NEW as \in Resolutions,
               NEW target \in Entities, OpenApproval(u, p, as, target)
        PROVE  MappingSafe'
    BY <1>3, OpenHolds, QuietStep
       DEF OpenApproval, IsApproved, MappingSafe, MappingTypeOK
  <1>4. ASSUME NEW u \in Users, LockNext(u) PROVE MappingSafe'
    BY <1>4, LockHolds, QuietStep DEF LockNext, IsApproved, MappingSafe, MappingTypeOK
  <1>5. ASSUME NEW u \in Users, RefuseApproval(u) \/ AbandonApproval(u) \/ AbortDeadlocked(u)
        PROVE  MappingSafe'
    <2>1. Closed(u)
      BY <1>5 DEF RefuseApproval, AbandonApproval, AbortDeadlocked
    <2>2. QED
      BY <2>1, ClosedHolds
  <1>6. ASSUME NEW u \in Users, CommitNode(u) PROVE MappingSafe'
    BY <1>6, CommitNodeHolds
  <1>7. ASSUME NEW u \in Users, CommitAssertion(u) PROVE MappingSafe'
    BY <1>7, CommitAssertionHolds
  <1>8. CASE UNCHANGED mappingVars
    <2>1. ASSUME NEW w \in Users PROVE ReviewHolds(w)'
      <3>1. review[w] # None => \A x \in Users \ {w} : Apart(review[w], review[x])
        BY OthersApart DEF MappingSafe
      <3>2. QED
        BY <1>8, <3>1, ReviewStays DEF mappingVars, MappingSafe
    <2>2. QED
      BY <1>8, <2>1, QuietStep DEF mappingVars, IsApproved, MappingSafe, MappingTypeOK
  <1>9. QED
    BY <1>1, <1>2, <1>3, <1>4, <1>5, <1>6, <1>7, <1>8 DEF MappingNext, ApprovalStep

LEMMA Safety == MappingSpec => []MappingSafe
  BY InitHolds, NextHolds, PTL DEF MappingSpec

-----------------------------------------------------------------------------
(* The theorems.                                                            *)

\* Every reachable state has the types the module declares.
THEOREM TypeCorrect == MappingSpec => []MappingTypeOK
  <1>1. MappingSafe => MappingTypeOK
    BY DEF MappingSafe
  <1>2. QED
    BY <1>1, Safety, PTL

\* However merges meet, following merged_into_entity_id from any merged entity ends at
\* an active one (_resolve_entity of ProductionMappingService).
THEOREM MergesAreSound == MappingSpec => []MergesEndActive
  <1>1. MappingSafe => MergesEndActive
    BY DEF MappingSafe
  <1>2. QED
    BY <1>1, Safety, PTL

\* Every artifact is approved, and stored nowhere else.
LEMMA StoredOnce ==
  ASSUME MappingSafe
  PROVE  /\ \A e \in Entities : \A i, j \in DOMAIN nodes[e] :
              IsApproved(nodes[e][i]) /\ (nodes[e][i] = nodes[e][j] => i = j)
         /\ \A pair \in Entities \X Entities : \A i, j \in DOMAIN assertions[pair] :
              /\ IsApproved(assertions[pair][i])
              /\ assertions[pair][i] = assertions[pair][j] => i = j
  <1>1. \A p, x : StoredAt(x, p) => x \in StoredFor(p)
    BY Places
  <1>2. ASSUME NEW p \in Proposals, NEW x, NEW y, StoredAt(x, p), StoredAt(y, p)
        PROVE  IsApproved(p) /\ x = y
    <2>1. x \in StoredFor(p) /\ y \in StoredFor(p) /\ PlaceHolds(p)
      BY <1>1, <1>2 DEF MappingSafe
    <2>2. QED
      BY <2>1 DEF PlaceHolds
  <1>3. ASSUME NEW e \in Entities, NEW i \in DOMAIN nodes[e], NEW j \in DOMAIN nodes[e]
        PROVE  IsApproved(nodes[e][i]) /\ (nodes[e][i] = nodes[e][j] => i = j)
    <2>1. PICK p : p = nodes[e][i]
      OBVIOUS
    <2>2. nodes[e] \in Seq(Proposals)
      BY DEF MappingSafe, MappingTypeOK
    <2>3. p \in Proposals
      BY <2>1, <2>2
    <2>4. StoredAt(<<e, i>>, p)
      BY <2>1 DEF StoredAt
    <2>5. nodes[e][j] = p => StoredAt(<<e, j>>, p)
      BY DEF StoredAt
    <2>6. IsApproved(p) /\ (nodes[e][j] = p => <<e, i>> = <<e, j>>)
      BY <1>2, <2>3, <2>4, <2>5
    <2>7. QED
      BY <2>1, <2>6
  <1>4. ASSUME NEW pair \in Entities \X Entities, NEW i \in DOMAIN assertions[pair],
               NEW j \in DOMAIN assertions[pair]
        PROVE  /\ IsApproved(assertions[pair][i])
               /\ assertions[pair][i] = assertions[pair][j] => i = j
    <2>1. PICK p : p = assertions[pair][i]
      OBVIOUS
    <2>2. assertions[pair] \in Seq(Proposals)
      BY DEF MappingSafe, MappingTypeOK
    <2>3. p \in Proposals
      BY <2>1, <2>2
    <2>4. StoredAt(<<pair, i>>, p)
      BY <2>1 DEF StoredAt
    <2>5. assertions[pair][j] = p => StoredAt(<<pair, j>>, p)
      BY DEF StoredAt
    <2>6. IsApproved(p) /\ (assertions[pair][j] = p => <<pair, i>> = <<pair, j>>)
      BY <1>2, <2>3, <2>4, <2>5
    <2>7. QED
      BY <2>1, <2>6
  <1>5. QED
    BY <1>3, <1>4

LEMMA SafeIsCurrent == MappingSafe => OneArtifactPerApproval
  <1> SUFFICES ASSUME MappingSafe PROVE OneArtifactPerApproval
    OBVIOUS
  <1>1. ASSUME NEW p \in Proposals
        PROVE  Cardinality(StoredFor(p)) = IF IsApproved(p) THEN 1 ELSE 0
    <2>1. PlaceHolds(p)
      BY DEF MappingSafe
    <2>2. QED
      BY <2>1, FS_Singleton, FS_EmptySet DEF PlaceHolds
  <1>2. ASSUME NEW e \in Entities, Active(e)
        PROVE  e \in ListedEntities /\ Cardinality(CurrentNodes(e)) = 1
    <2>1. nodes[e] \in Seq(Proposals) /\ nodes[e] # <<>>
      BY <1>2 DEF MappingSafe, MappingTypeOK, EntityHolds, Active
    <2>2. PICK last : last = Len(nodes[e])
      OBVIOUS
    <2>3. last \in DOMAIN nodes[e] /\ LastOf(nodes[e]) = nodes[e][last]
      BY <2>1, <2>2 DEF LastOf
    <2>4. CurrentNodes(e) = {last}
      BY <2>3, StoredOnce DEF CurrentNodes
    <2>5. Cardinality(CurrentNodes(e)) = 1
      BY <2>4, FS_Singleton
    <2>6. QED
      BY <1>2, <2>4, <2>5 DEF ListedEntities
  <1>3. ASSUME NEW pair \in Entities \X Entities, assertions[pair] # <<>>
        PROVE  Cardinality(CurrentAssertions(pair)) = 1
    <2>1. assertions[pair] \in Seq(Proposals)
      BY DEF MappingSafe, MappingTypeOK
    <2>2. PICK last : last = Len(assertions[pair])
      OBVIOUS
    <2>3. last \in DOMAIN assertions[pair] /\ LastOf(assertions[pair]) = assertions[pair][last]
      BY <1>3, <2>1, <2>2 DEF LastOf
    <2>4. CurrentAssertions(pair) = {last}
      BY <2>3, StoredOnce DEF CurrentAssertions
    <2>5. QED
      BY <2>4, FS_Singleton
  <1>4. QED
    BY <1>1, <1>2, <1>3 DEF OneArtifactPerApproval

\* However reviews meet, an approved proposal has one artifact and any other none, and
\* an active entity and a relationship have one current version each.
THEOREM ApprovalsHaveOneArtifact == MappingSpec => []OneArtifactPerApproval
  BY Safety, SafeIsCurrent, PTL

NamesActive ==
  /\ \A e \in Entities : nodes'[e] # nodes[e] => Active(e)'
  /\ \A pair \in Entities \X Entities :
       assertions'[pair] # assertions[pair] => Active(pair[1])' /\ Active(pair[2])'

LEMMA StepNamesActive == MappingSafe /\ [MappingNext]_mappingVars => [NamesActive]_mappingVars
  <1> SUFFICES ASSUME MappingSafe, MappingNext PROVE NamesActive \/ UNCHANGED <<nodes, assertions>>
    BY DEF mappingVars, NamesActive
  <1>1. ASSUME NEW u \in Users, CommitNode(u) PROVE NamesActive
    <2>1. PICK target : target = review[u].target
      OBVIOUS
    <2>2. MappingTypeOK /\ ReviewHolds(u) /\ target \in Entities
      BY <1>1, <2>1, ReviewTypes DEF MappingSafe, CommitNode
    <2>3. Active(target)'
      BY <1>1, <2>1, <2>2, CommittedRegistry
    <2>4. \A e \in Entities \ {target} : nodes'[e] = nodes[e]
      BY <1>1, <2>1, <2>2 DEF CommitNode, MappingTypeOK
    <2>5. QED
      BY <1>1, <2>2, <2>3, <2>4 DEF NamesActive, CommitNode
  <1>2. ASSUME NEW u \in Users, CommitAssertion(u) PROVE NamesActive
    <2>1. PICK r : r = review[u]
      OBVIOUS
    <2>2. MappingTypeOK /\ ReviewHolds(u) /\ r # None /\ r.todo = <<>> /\ r.as = "relate"
      BY <1>2, <2>1 DEF MappingSafe, CommitAssertion
    <2>3. PICK source, target : source = Payload[r.of].source /\ target = Payload[r.of].target
      OBVIOUS
    <2>4. Active(source) /\ Active(target)
      BY <2>1, <2>2, <2>3, CommitRelies
    <2>5. Active(source)' /\ Active(target)'
      BY <1>2, <2>4 DEF CommitAssertion, Active
    <2>6. \A pair \in Entities \X Entities : pair # <<source, target>> => assertions'[pair] = assertions[pair]
      BY <1>2, <2>1, <2>2, <2>3 DEF CommitAssertion, MappingTypeOK
    <2>7. QED
      BY <1>2, <2>5, <2>6 DEF NamesActive, CommitAssertion
  <1>3. QED
    BY <1>1, <1>2 DEF MappingNext, ApprovalStep, SubmitMapping, RejectMapping, OpenApproval,
       LockNext, RefuseApproval, AbandonApproval, AbortDeadlocked, Closed

\* No node version or assertion is approved for an entity that another review has
\* merged away since it was validated.
THEOREM ArtifactsFollowTheRegistry == MappingSpec => ArtifactsNameActiveEntities
  BY Safety, StepNamesActive, PTL DEF MappingSpec, ArtifactsNameActiveEntities, NamesActive

KeepsAliases == \A e \in Entities : Active(e) => registry[e].aliases \subseteq registry'[e].aliases

LEMMA StepKeepsAliases == MappingSafe /\ [MappingNext]_mappingVars => [KeepsAliases]_mappingVars
  <1> SUFFICES ASSUME MappingSafe, MappingNext PROVE KeepsAliases \/ UNCHANGED registry
    BY DEF mappingVars, KeepsAliases
  <1>1. ASSUME NEW u \in Users, CommitNode(u) PROVE KeepsAliases
    <2>1. PICK r : r = review[u]
      OBVIOUS
    <2>2. MappingTypeOK /\ ReviewHolds(u)
      BY DEF MappingSafe
    <2>3. ASSUME NEW e \in Entities, Active(e) PROVE registry[e].aliases \subseteq registry'[e].aliases
      <3>1. registry[e].aliases \in SUBSET Entities /\ e \notin registry[e].aliases
        BY <2>2, <2>3, EntityTypes DEF MappingSafe, EntityHolds, Active
      <3>2. CASE e = r.target
        <4>1. registry[e].aliases \ {e} \subseteq registry'[e].aliases
          BY <1>1, <2>1, <2>2, <2>3, <3>2, CommittedRows
        <4>2. QED
          BY <3>1, <4>1
      <3>3. CASE registry'[e] = registry[e]
        BY <3>3
      <3>4. CASE registry'[e] = MergedEntity(r.target, registry[e].aliases)
        <4>1. r.target \in Entities
          BY <1>1, <2>1, <2>2, CommittedRows
        <4>2. QED
          BY <3>1, <3>4, <4>1, MergedFields
      <3>5. QED
        BY <1>1, <2>1, <2>2, <3>2, <3>3, <3>4, CommittedRows
    <2>4. QED
      BY <2>3 DEF KeepsAliases
  <1>2. QED
    BY <1>1 DEF MappingNext, ApprovalStep, SubmitMapping, RejectMapping, OpenApproval,
       LockNext, RefuseApproval, AbandonApproval, AbortDeadlocked, Closed, CommitAssertion

\* The names found under an entity are never lost to a review that read it before
\* another one added its own.
THEOREM AliasesAreKept == MappingSpec => AliasesKept
  BY Safety, StepKeepsAliases, PTL DEF MappingSpec, AliasesKept, KeepsAliases

-----------------------------------------------------------------------------
(* Storage manifests beside the reviews.                                    *)

\* No open review has locked the row.
Unheld(e) == \A u \in Users : ~Holds(u, e)

\* What a review commits changes only rows that it holds: the entity, its node versions
\* and the assertions at either end of it stay as they are.
LEMMA RowsStay ==
  ASSUME MappingSafe, MappingNext, NEW e \in Entities, Unheld(e)
  PROVE  /\ registry'[e] = registry[e] /\ nodes'[e] = nodes[e]
         /\ \A f \in Entities : assertions'[<<e, f>>] = assertions[<<e, f>>]
  <1>1. ASSUME NEW u \in Users, CommitNode(u)
        PROVE  registry'[e] = registry[e] /\ nodes'[e] = nodes[e] /\ UNCHANGED assertions
    <2>1. PICK r : r = review[u]
      OBVIOUS
    <2>2. MappingTypeOK /\ ReviewHolds(u) /\ r # None
      BY <1>1, <2>1 DEF MappingSafe, CommitNode
    <2>3. e \notin r.held
      BY <2>1, <2>2 DEF Unheld, Holds
    <2>4. r.target \in Entities /\ r.target \in r.held
      BY <1>1, <2>1, <2>2, CommittedRows
    <2>5. registry'[e] = registry[e]
      BY <1>1, <2>1, <2>2, <2>3, <2>4, CommittedRows
    <2>6. nodes'[e] = nodes[e]
      BY <1>1, <2>1, <2>2, <2>3, <2>4 DEF CommitNode, MappingTypeOK
    <2>7. QED
      BY <1>1, <2>5, <2>6 DEF CommitNode
  <1>2. ASSUME NEW u \in Users, CommitAssertion(u)
        PROVE  /\ UNCHANGED <<registry, nodes>>
               /\ \A f \in Entities : assertions'[<<e, f>>] = assertions[<<e, f>>]
    <2>1. PICK r : r = review[u]
      OBVIOUS
    <2>2. MappingTypeOK /\ ReviewHolds(u) /\ r # None /\ r.todo = <<>> /\ r.as = "relate"
      BY <1>2, <2>1 DEF MappingSafe, CommitAssertion
    <2>3. e \notin r.held
      BY <2>1, <2>2 DEF Unheld, Holds
    <2>4. PICK source, target : source = Payload[r.of].source /\ target = Payload[r.of].target
      OBVIOUS
    <2>5. source \in r.held
      BY <2>1, <2>2, <2>4, CommitRelies
    <2>6. \A pair \in Entities \X Entities : pair # <<source, target>> => assertions'[pair] = assertions[pair]
      BY <1>2, <2>1, <2>2, <2>4 DEF CommitAssertion, MappingTypeOK
    <2>7. ASSUME NEW f \in Entities PROVE assertions'[<<e, f>>] = assertions[<<e, f>>]
      <3>1. <<e, f>> # <<source, target>>
        BY <2>3, <2>5
      <3>2. <<e, f>> \in Entities \X Entities
        OBVIOUS
      <3>3. QED
        BY <2>6, <3>1, <3>2
    <2>8. QED
      BY <1>2, <2>7 DEF CommitAssertion
  <1>3. QED
    BY <1>1, <1>2 DEF MappingNext, ApprovalStep, SubmitMapping, RejectMapping, OpenApproval,
       LockNext, RefuseApproval, AbandonApproval, AbortDeadlocked, Closed

LEMMA ApprovedStays ==
  ASSUME MappingSafe, MappingNext, NEW p \in Proposals, IsApproved(p)
  PROVE  IsApproved(p)'
  <1>1. proposal \in [Proposals -> MappingProposals \cup {None}]
    BY DEF MappingSafe, MappingTypeOK
  <1>2. ASSUME NEW u \in Users, CommitNode(u) \/ CommitAssertion(u)
        PROVE  IsApproved(p)'
    <2>1. PICK q : q = review[u].of
      OBVIOUS
    <2>2. q \in Proposals /\ Approved(q) /\ proposal[q] # None /\ proposal[q].status = "submitted"
      <3>1. review[u] # None /\ MappingTypeOK /\ ReviewHolds(u)
        BY <1>2 DEF CommitNode, CommitAssertion, MappingSafe
      <3>2. QED
        BY <1>2, <2>1, <3>1, ReviewTypes DEF CommitNode, CommitAssertion, ReviewHolds
    <2>3. proposal'[p] = proposal[p]
      BY <1>1, <2>2 DEF Approved, IsApproved
    <2>4. QED
      BY <2>3 DEF IsApproved
  <1>3. ASSUME NEW u \in Users, NEW q \in Proposals, SubmitMapping(u, q) \/ RejectMapping(u, q)
        PROVE  IsApproved(p)'
    <2>1. q # p /\ proposal'[p] = proposal[p]
      BY <1>1, <1>3 DEF SubmitMapping, RejectMapping, Reviewable, IsApproved
    <2>2. QED
      BY <2>1 DEF IsApproved
  <1>4. CASE UNCHANGED proposal
    BY <1>4 DEF IsApproved
  <1>5. QED
    BY <1>2, <1>3, <1>4 DEF MappingNext, ApprovalStep, OpenApproval,
       LockNext, RefuseApproval, AbandonApproval, AbortDeadlocked, Closed

LEMMA ItemTypes ==
  ASSUME NEW item \in ManifestItems
  PROVE  \/ /\ item.kind = "node"
            /\ \E e \in Entities : item.of[1] = e /\ EntitiesOf(item) = {e}
         \/ /\ item.kind = "assertion"
            /\ \E e, f \in Entities : item.of = <<e, f>> /\ EntitiesOf(item) = {e, f}
  <1>1. CASE \E e \in Entities, i \in 1..Cardinality(Proposals) : item = NodeItem(e, i)
    <2>1. PICK e \in Entities, i \in 1..Cardinality(Proposals) : item = NodeItem(e, i)
      BY <1>1
    <2>2. item.kind = "node" /\ item.of = <<e>>
      BY <2>1 DEF NodeItem
    <2>3. EntitiesOf(item) = {e}
      BY <2>2 DEF EntitiesOf
    <2>4. item.of[1] = e
      BY <2>2
    <2>5. QED
      BY <2>2, <2>3, <2>4
  <1>2. CASE \E e, f \in Entities, i \in 1..Cardinality(Proposals) : item = AssertionItem(e, f, i)
    <2>1. PICK e \in Entities, f \in Entities, i \in 1..Cardinality(Proposals) :
            item = AssertionItem(e, f, i)
      BY <1>2
    <2>2. item.kind = "assertion" /\ item.of = <<e, f>>
      BY <2>1 DEF AssertionItem
    <2>3. EntitiesOf(item) = {e, f}
      BY <2>2 DEF EntitiesOf
    <2>4. QED
      BY <2>2, <2>3
  <1>3. QED
    BY <1>1, <1>2 DEF ManifestItems

\* An item whose entities no review has locked goes on to resolve.
LEMMA ResolvesStays ==
  ASSUME MappingSafe, MappingNext, NEW item \in ManifestItems, Resolves(item),
         \A e \in EntitiesOf(item) : Unheld(e)
  PROVE  Resolves(item)'
  <1>1. EntitiesOf(item) \subseteq Entities
    BY ItemTypes
  <1>2. \A e \in EntitiesOf(item) : registry'[e] = registry[e]
    BY <1>1, RowsStay
  <1>3. \A e \in EntitiesOf(item) : Active(e)'
    BY <1>2 DEF Resolves, Active
  <1>4. CASE item.kind = "node"
    <2>1. PICK e \in Entities : item.of[1] = e /\ EntitiesOf(item) = {e}
      BY <1>4, ItemTypes
    <2>2. PICK s : s = nodes[e]
      OBVIOUS
    <2>3. nodes'[e] = s
      BY <2>1, <2>2, RowsStay
    <2>4. item.version \in CurrentNodes(e)
      BY <1>4, <2>1 DEF Resolves
    <2>5. item.version \in DOMAIN s /\ IsApproved(s[item.version]) /\ s[item.version] = LastOf(s)
      BY <2>2, <2>4 DEF CurrentNodes
    <2>6. s \in Seq(Proposals)
      BY <2>2 DEF MappingSafe, MappingTypeOK
    <2>7. IsApproved(s[item.version])'
      BY <2>5, <2>6, ApprovedStays
    <2>8. item.version \in CurrentNodes(e)'
      BY <2>3, <2>5, <2>7 DEF CurrentNodes, IsApproved, LastOf
    <2>9. QED
      BY <1>3, <1>4, <2>1, <2>8 DEF Resolves, EntitiesOf
  <1>5. CASE item.kind = "assertion"
    <2>1. PICK e \in Entities, f \in Entities : item.of = <<e, f>> /\ EntitiesOf(item) = {e, f}
      BY <1>5, ItemTypes
    <2>2. PICK s : s = assertions[item.of]
      OBVIOUS
    <2>3. assertions'[item.of] = s
      BY <2>1, <2>2, RowsStay
    <2>4. item.version \in CurrentAssertions(item.of)
      BY <1>5, <2>1 DEF Resolves
    <2>5. item.version \in DOMAIN s /\ IsApproved(s[item.version]) /\ s[item.version] = LastOf(s)
      BY <2>2, <2>4 DEF CurrentAssertions
    <2>6. s \in Seq(Proposals)
      BY <2>1, <2>2 DEF MappingSafe, MappingTypeOK
    <2>7. IsApproved(s[item.version])'
      BY <2>5, <2>6, ApprovedStays
    <2>8. item.version \in CurrentAssertions(item.of)'
      BY <2>3, <2>5, <2>7 DEF CurrentAssertions, IsApproved, LastOf
    <2>9. QED
      BY <1>3, <1>5, <2>8 DEF Resolves, EntitiesOf
  <1>6. QED
    BY <1>4, <1>5, ItemTypes

\* Of the transaction that ends an ingestion: the rows its manifest names are locked or
\* still to be locked, nothing is resolved before all of them are, and what was resolved
\* still resolves.
FinalizationHolds(t) ==
  storing[t] # None /\ storing[t].op = "finalize" =>
    LET r == storing[t] IN
    /\ Envelopes(r.of) \subseteq r.held \cup r.locks
    /\ r.locks # {} => r.todo = ItemsOf[r.of]
    /\ \A item \in ItemsOf[r.of] \ r.todo : Resolves(item)

\* A row that a storage request has locked is locked by no review.
RowsApart(t) == storing[t] # None => \A e \in storing[t].held : Unheld(e)

ManifestSafe ==
  /\ MappingSafe
  /\ ManifestTypeOK
  /\ \A t \in Threads : FinalizationHolds(t) /\ RowsApart(t)

LEMMA StorageTypes ==
  ASSUME ManifestTypeOK, NEW t \in Threads, storing[t] # None
  PROVE  /\ storing[t] \in StorageRequests
         /\ storing[t].op \in StorageOperations /\ storing[t].of \in Manifests
         /\ storing[t].locks \in SUBSET Entities /\ storing[t].held \in SUBSET Entities
         /\ storing[t].todo \in SUBSET ManifestItems
         /\ stage[storing[t].of] \in Stages
         /\ ItemsOf[storing[t].of] \in SUBSET ManifestItems
  <1>1. storing[t] \in StorageRequests
    BY DEF ManifestTypeOK
  <1>2. storing[t].of \in Manifests
    BY <1>1 DEF StorageRequests
  <1>3. QED
    BY <1>1, <1>2, ManifestConstants DEF StorageRequests, ManifestTypeOK

LEMMA OpensTypes ==
  ASSUME NEW op \in StorageOperations, NEW m \in Manifests, NEW locks \in SUBSET Entities
  PROVE  Opens(op, m, locks) \in StorageRequests
  BY ManifestConstants DEF Opens, StorageRequests

LEMMA EnvelopesAreEntities ==
  ASSUME NEW m \in Manifests
  PROVE  /\ Envelopes(m) \in SUBSET Entities
         /\ \A item \in ItemsOf[m] : EntitiesOf(item) \subseteq Envelopes(m)
  <1>1. ItemsOf[m] \in SUBSET ManifestItems
    BY ManifestConstants
  <1>2. \A item \in ItemsOf[m] : EntitiesOf(item) \subseteq Entities
    BY <1>1, ItemTypes
  <1>3. QED
    BY <1>2 DEF Envelopes

\* The step of a storage request that leaves the reviews alone.
LEMMA RequestStep ==
  ASSUME ManifestSafe, NEW t \in Threads, UNCHANGED mappingVars,
         stage' \in [Manifests -> Stages], NEW request \in StorageRequests \cup {None},
         storing' = [storing EXCEPT ![t] = request],
         request # None => \A e \in request.held : Unheld(e),
         request # None /\ request.op = "finalize" =>
           /\ Envelopes(request.of) \subseteq request.held \cup request.locks
           /\ request.locks # {} => request.todo = ItemsOf[request.of]
           /\ \A item \in ItemsOf[request.of] \ request.todo : Resolves(item)
  PROVE  ManifestSafe'
  <1>1. MappingSafe'
    <2>1. [MappingNext]_mappingVars
      OBVIOUS
    <2>2. QED
      BY <2>1, NextHolds DEF ManifestSafe
  <1>2. ManifestTypeOK'
    BY DEF ManifestSafe, ManifestTypeOK
  <1>3. storing'[t] = request /\ \A w \in Threads \ {t} : storing'[w] = storing[w]
    BY DEF ManifestSafe, ManifestTypeOK
  <1>4. \A item : Resolves(item)' <=> Resolves(item)
    BY DEF mappingVars, Resolves, Active, CurrentNodes, CurrentAssertions, IsApproved, EntitiesOf
  <1>5. \A e : Unheld(e)' <=> Unheld(e)
    BY DEF mappingVars, Unheld, Holds
  <1>6. ASSUME NEW w \in Threads
        PROVE  FinalizationHolds(w)' /\ RowsApart(w)'
    <2>1. CASE w = t
      BY <1>3, <1>4, <1>5, <2>1 DEF FinalizationHolds, RowsApart, Envelopes, EntitiesOf
    <2>2. CASE w # t
      <3>1. storing'[w] = storing[w] /\ FinalizationHolds(w) /\ RowsApart(w)
        BY <1>3, <1>6, <2>2 DEF ManifestSafe
      <3>2. QED
        BY <1>4, <1>5, <3>1 DEF FinalizationHolds, RowsApart, Envelopes, EntitiesOf
    <2>3. QED
      BY <2>1, <2>2
  <1>7. QED
    BY <1>1, <1>2, <1>6 DEF ManifestSafe

LEMMA ReviewBeside ==
  ASSUME ManifestSafe, Beside(MappingNext)
  PROVE  ManifestSafe'
  <1>1. MappingNext /\ UNCHANGED <<stage, storing>>
    BY DEF Beside, manifestVars
  <1>2. MappingSafe'
    BY <1>1, NextHolds DEF ManifestSafe
  <1>3. ManifestTypeOK'
    BY <1>1 DEF ManifestSafe, ManifestTypeOK
  <1>4. ASSUME NEW t \in Threads
        PROVE  RowsApart(t)'
    <2>1. SUFFICES ASSUME storing[t] # None, NEW e \in storing[t].held,
                          NEW u \in Users, review'[u] # None, e \in review'[u].held
                   PROVE  FALSE
      BY <1>1 DEF RowsApart, Unheld, Holds
    <2>2. StorageHolds(e)
      BY <2>1 DEF StorageHolds
    <2>3. Holds(u, e)
      BY <2>1, <2>2 DEF Beside
    <2>4. RowsApart(t)
      BY DEF ManifestSafe
    <2>5. QED
      BY <2>1, <2>3, <2>4 DEF RowsApart, Unheld
  <1>5. ASSUME NEW t \in Threads
        PROVE  FinalizationHolds(t)'
    <2>1. SUFFICES ASSUME storing[t] # None, storing[t].op = "finalize"
                   PROVE  FinalizationHolds(t)'
      BY <1>1 DEF FinalizationHolds
    <2>2. PICK r : r = storing[t]
      OBVIOUS
    <2>3. /\ Envelopes(r.of) \subseteq r.held \cup r.locks
          /\ r.locks # {} => r.todo = ItemsOf[r.of]
          /\ \A item \in ItemsOf[r.of] \ r.todo : Resolves(item)
      BY <2>1, <2>2 DEF ManifestSafe, FinalizationHolds
    <2>4. r.of \in Manifests /\ ItemsOf[r.of] \in SUBSET ManifestItems
      BY <2>1, <2>2, StorageTypes DEF ManifestSafe
    <2>5. ASSUME NEW item \in ItemsOf[r.of] \ r.todo
          PROVE  Resolves(item)'
      <3>1. r.locks = {}
        BY <2>3, <2>5
      <3>2. EntitiesOf(item) \subseteq r.held
        BY <2>3, <2>4, <2>5, <3>1, EnvelopesAreEntities
      <3>3. \A e \in EntitiesOf(item) : Unheld(e)
        BY <2>1, <2>2, <3>2 DEF ManifestSafe, RowsApart
      <3>4. item \in ManifestItems /\ Resolves(item)
        BY <2>3, <2>4, <2>5
      <3>5. QED
        BY <1>1, <3>3, <3>4, ResolvesStays DEF ManifestSafe
    <2>6. storing'[t] = r
      BY <1>1, <2>2
    <2>7. QED
      BY <2>3, <2>5, <2>6 DEF FinalizationHolds, Envelopes, EntitiesOf
  <1>6. QED
    BY <1>2, <1>3, <1>4, <1>5 DEF ManifestSafe

LEMMA StorageStarts ==
  ASSUME ManifestSafe, NEW t \in Threads, NEW m \in Manifests,
         NEW op \in {"build", "authorize", "start"}, BeginStorage(t, op, m)
  PROVE  ManifestSafe'
  <1>1. op \in StorageOperations /\ op # "finalize"
    BY DEF StorageOperations
  <1>2. PICK request : request = Opens(op, m, {})
    OBVIOUS
  <1>3. request \in StorageRequests
    BY <1>1, <1>2, OpensTypes
  <1>4. request.held = {} /\ request.op = op
    BY <1>2 DEF Opens
  <1>5. stage' \in [Manifests -> Stages]
    BY DEF BeginStorage, Continues, ManifestSafe, ManifestTypeOK
  <1>6. storing' = [storing EXCEPT ![t] = request] /\ UNCHANGED mappingVars
    BY <1>2 DEF BeginStorage, Continues
  <1>7. QED
    BY <1>1, <1>3, <1>4, <1>5, <1>6, RequestStep

LEMMA FinalizationBegins ==
  ASSUME ManifestSafe, NEW t \in Threads, BeginFinalization(t)
  PROVE  ManifestSafe'
  <1>1. PICK m : m = storing[t].of
    OBVIOUS
  <1>2. m \in Manifests
    BY <1>1, StorageTypes DEF ManifestSafe, BeginFinalization
  <1>3. PICK request : request = Opens("finalize", m, Envelopes(m))
    OBVIOUS
  <1>4. "finalize" \in StorageOperations
    BY DEF StorageOperations
  <1>5. request \in StorageRequests
    BY <1>2, <1>3, <1>4, EnvelopesAreEntities, OpensTypes
  <1>6. /\ request.held = {} /\ request.of = m /\ request.locks = Envelopes(m)
        /\ request.todo = ItemsOf[m]
    BY <1>3 DEF Opens
  <1>7. stage' \in [Manifests -> Stages]
    BY DEF BeginFinalization, Continues, ManifestSafe, ManifestTypeOK
  <1>8. storing' = [storing EXCEPT ![t] = request] /\ UNCHANGED mappingVars
    BY <1>1, <1>3 DEF BeginFinalization, Continues
  <1>9. QED
    BY <1>5, <1>6, <1>7, <1>8, RequestStep

LEMMA EnvelopeLocked ==
  ASSUME ManifestSafe, NEW t \in Threads, LockEnvelope(t)
  PROVE  ManifestSafe'
  <1>1. PICK e \in Entities :
          /\ FirstInOrder(e, storing[t].locks)
          /\ \A u \in Users : ~Holds(u, e)
          /\ Continues(t, [storing[t] EXCEPT !.held = @ \cup {e}, !.locks = @ \ {e}])
    BY DEF LockEnvelope
  <1>2. PICK r : r = storing[t]
    OBVIOUS
  <1>3. r # None /\ r \in StorageRequests /\ e \in r.locks
    BY <1>1, <1>2, StorageTypes DEF ManifestSafe, LockEnvelope, FirstInOrder
  <1>4. PICK request : request = [r EXCEPT !.held = @ \cup {e}, !.locks = @ \ {e}]
    OBVIOUS
  <1>5. /\ request \in StorageRequests /\ request.op = r.op /\ request.of = r.of
        /\ request.held = r.held \cup {e} /\ request.locks = r.locks \ {e}
        /\ request.todo = r.todo
    BY <1>3, <1>4 DEF StorageRequests
  <1>6. \A f \in request.held : Unheld(f)
    BY <1>1, <1>2, <1>3, <1>5 DEF ManifestSafe, RowsApart, Unheld
  <1>7. r.op = "finalize" =>
          /\ Envelopes(r.of) \subseteq r.held \cup r.locks
          /\ r.todo = ItemsOf[r.of]
    BY <1>2, <1>3 DEF ManifestSafe, FinalizationHolds
  <1>8. stage' \in [Manifests -> Stages]
    BY <1>1 DEF Continues, ManifestSafe, ManifestTypeOK
  <1>9. storing' = [storing EXCEPT ![t] = request] /\ UNCHANGED mappingVars
    BY <1>1, <1>2, <1>4 DEF Continues
  <1>10. QED
    BY <1>5, <1>6, <1>7, <1>8, <1>9, RequestStep

LEMMA ItemResolved ==
  ASSUME ManifestSafe, NEW t \in Threads, NEW item \in ManifestItems, ResolveItem(t, item)
  PROVE  ManifestSafe'
  <1>1. PICK r : r = storing[t]
    OBVIOUS
  <1>2. r # None /\ r \in StorageRequests /\ r.locks = {} /\ Resolves(item)
    BY <1>1, StorageTypes DEF ManifestSafe, ResolveItem
  <1>3. PICK request : request = [r EXCEPT !.todo = @ \ {item}]
    OBVIOUS
  <1>4. /\ request \in StorageRequests /\ request.op = r.op /\ request.of = r.of
        /\ request.held = r.held /\ request.locks = r.locks /\ request.todo = r.todo \ {item}
    BY <1>2, <1>3 DEF StorageRequests
  <1>5. \A f \in request.held : Unheld(f)
    BY <1>1, <1>2, <1>4 DEF ManifestSafe, RowsApart
  <1>6. r.op = "finalize" =>
          /\ Envelopes(r.of) \subseteq r.held \cup r.locks
          /\ \A i \in ItemsOf[r.of] \ r.todo : Resolves(i)
    BY <1>1, <1>2 DEF ManifestSafe, FinalizationHolds
  <1>7. stage' \in [Manifests -> Stages]
    BY DEF ResolveItem, Continues, ManifestSafe, ManifestTypeOK
  <1>8. storing' = [storing EXCEPT ![t] = request] /\ UNCHANGED mappingVars
    BY <1>1, <1>3 DEF ResolveItem, Continues
  <1>9. QED
    BY <1>2, <1>4, <1>5, <1>6, <1>7, <1>8, RequestStep

\* The end of a transaction: what is left of the request has locked no row and
\* finalizes nothing.
LEMMA RequestEnds ==
  ASSUME ManifestSafe, NEW t \in Threads, storing[t] # None, NEW status \in Stages,
         NEW request \in StorageRequests \cup {None},
         request # None => request.held = {} /\ request.op # "finalize",
         Recorded(t, status, request)
  PROVE  ManifestSafe'
  <1>1. stage' \in [Manifests -> Stages]
    BY DEF Recorded, ManifestSafe, ManifestTypeOK
  <1>2. QED
    BY <1>1, RequestStep DEF Recorded

LEMMA StorageStepHolds ==
  ASSUME ManifestSafe, NEW t \in Threads, StorageStep(t)
  PROVE  ManifestSafe'
  <1>1. CASE BuildManifest(t)
    <2>1. PICK status : status = IF stage[storing[t].of] = "none" THEN "pending" ELSE stage[storing[t].of]
      OBVIOUS
    <2>2. storing[t] # None /\ status \in Stages
      BY <1>1, <2>1, StorageTypes DEF BuildManifest, Rebuilt, ManifestSafe, Stages
    <2>3. QED
      BY <1>1, <2>1, <2>2, RequestEnds DEF BuildManifest
  <1>2. CASE AuthorizeManifest(t)
    <2>1. "authorized" \in Stages
      BY DEF Stages
    <2>2. QED
      BY <1>2, <2>1, RequestEnds DEF AuthorizeManifest, Rebuilt
  <1>3. CASE StartIngestion(t)
    <2>1. PICK request : request = [Opens("write", storing[t].of, {}) EXCEPT !.todo = {}]
      OBVIOUS
    <2>2. storing[t] # None /\ storing[t].of \in Manifests
      BY <1>3, StorageTypes DEF StartIngestion, Rebuilt, ManifestSafe
    <2>3. "write" \in StorageOperations /\ "writing" \in Stages
      BY DEF StorageOperations, Stages
    <2>4. Opens("write", storing[t].of, {}) \in StorageRequests
      BY <2>2, <2>3, OpensTypes
    <2>5. request \in StorageRequests /\ request.held = {} /\ request.op = "write"
      BY <2>1, <2>4 DEF StorageRequests, Opens
    <2>6. QED
      BY <1>3, <2>1, <2>2, <2>3, <2>5, RequestEnds DEF StartIngestion
  <1>4. CASE FinishIngestion(t)
    <2>1. "ingested" \in Stages
      BY DEF Stages
    <2>2. QED
      BY <1>4, <2>1, RequestEnds DEF FinishIngestion, Rebuilt
  <1>5. CASE AbandonStorage(t)
    <2>1. storing[t] # None
      BY <1>5 DEF AbandonStorage
    <2>2. PICK status : /\ status \in {"authorized", "writing", stage[storing[t].of]}
                        /\ Recorded(t, status, None)
      BY <1>5 DEF AbandonStorage
    <2>3. status \in Stages
      BY <2>1, <2>2, StorageTypes DEF ManifestSafe, Stages
    <2>4. QED
      BY <2>1, <2>2, <2>3, RequestEnds
  <1>6. QED
    BY <1>1, <1>2, <1>3, <1>4, <1>5, FinalizationBegins, EnvelopeLocked, ItemResolved
       DEF StorageStep

LEMMA ManifestNextHolds == ManifestSafe /\ [ManifestNext]_storageVars => ManifestSafe'
  <1> SUFFICES ASSUME ManifestSafe, [ManifestNext]_storageVars PROVE ManifestSafe'
    OBVIOUS
  <1>1. CASE ManifestNext
    BY <1>1, ReviewBeside, StorageStarts, StorageStepHolds DEF ManifestNext
  <1>2. CASE UNCHANGED storageVars
    <2>1. UNCHANGED mappingVars /\ UNCHANGED <<stage, storing>>
      BY <1>2 DEF storageVars, manifestVars
    <2>2. MappingSafe'
      BY <2>1, NextHolds DEF ManifestSafe
    <2>3. \A item : Resolves(item)' <=> Resolves(item)
      BY <2>1 DEF mappingVars, Resolves, Active, CurrentNodes, CurrentAssertions, IsApproved, EntitiesOf
    <2>4. \A e : Unheld(e)' <=> Unheld(e)
      BY <2>1 DEF mappingVars, Unheld, Holds
    <2>5. ManifestTypeOK'
      BY <2>1 DEF ManifestSafe, ManifestTypeOK
    <2>6. \A t \in Threads : FinalizationHolds(t)' /\ RowsApart(t)'
      BY <2>1, <2>3, <2>4 DEF ManifestSafe, FinalizationHolds, RowsApart, Envelopes, EntitiesOf
    <2>7. QED
      BY <2>2, <2>5, <2>6 DEF ManifestSafe
  <1>3. QED
    BY <1>1, <1>2

LEMMA ManifestInitHolds == MappingInit /\ ManifestInit => ManifestSafe
  <1> SUFFICES ASSUME MappingInit, ManifestInit PROVE ManifestSafe
    OBVIOUS
  <1>1. MappingSafe
    BY InitHolds
  <1>2. "none" \in Stages
    BY DEF Stages
  <1>3. QED
    BY <1>1, <1>2 DEF ManifestSafe, ManifestInit, ManifestTypeOK, FinalizationHolds, RowsApart

LEMMA ManifestSafety == ManifestSpec => []ManifestSafe
  BY ManifestInitHolds, ManifestNextHolds, PTL DEF ManifestSpec

\* Every reachable state of manifests, storage requests and the reviews beside them has
\* the declared types.
THEOREM ManifestsAreTyped == ManifestSpec => [](MappingTypeOK /\ ManifestTypeOK)
  <1>1. ManifestSafe => MappingTypeOK /\ ManifestTypeOK
    BY DEF ManifestSafe, MappingSafe
  <1>2. QED
    BY <1>1, ManifestSafety, PTL

StartsCurrent ==
  \A m \in Manifests : stage[m] # "ingested" /\ stage'[m] = "ingested" =>
    ItemsOf[m] \subseteq EligibleArtifacts'

LEMMA OnlyFinishIngests ==
  ASSUME ManifestSafe, ManifestNext, NEW m \in Manifests,
         stage[m] # "ingested", stage'[m] = "ingested"
  PROVE  \E t \in Threads : storing[t] # None /\ storing[t].of = m /\ FinishIngestion(t)
  <1>1. stage \in [Manifests -> Stages] /\ stage' # stage
    BY DEF ManifestSafe, ManifestTypeOK
  <1>2. PICK t \in Threads : StorageStep(t)
    BY <1>1 DEF ManifestNext, Beside, manifestVars, BeginStorage, Continues
  <1>3. storing[t] # None /\ storing[t].of \in Manifests
    BY <1>2, StorageTypes DEF StorageStep, BeginFinalization, LockEnvelope, BuildManifest, AuthorizeManifest,
       StartIngestion, FinishIngestion, AbandonStorage, ResolveItem, Rebuilt, ManifestSafe
  <1>4. PICK status, request : /\ Recorded(t, status, request)
                               /\ \/ FinishIngestion(t)
                                  \/ status \in {"pending", "authorized", "writing", stage[storing[t].of]}
    BY <1>1, <1>2 DEF StorageStep, BeginFinalization, LockEnvelope, BuildManifest, AuthorizeManifest,
       StartIngestion, FinishIngestion, AbandonStorage, ResolveItem, Continues
  <1>5. storing[t].of = m /\ status = "ingested"
    BY <1>1, <1>3, <1>4 DEF Recorded
  <1>6. QED
    BY <1>3, <1>4, <1>5

LEMMA StepStartsCurrent == ManifestSafe /\ [ManifestNext]_storageVars => [StartsCurrent]_storageVars
  <1> SUFFICES ASSUME ManifestSafe, ManifestNext, NEW m \in Manifests,
                      stage[m] # "ingested", stage'[m] = "ingested"
               PROVE  ItemsOf[m] \subseteq EligibleArtifacts'
    BY DEF StartsCurrent
  <1>1. PICK t \in Threads : storing[t] # None /\ storing[t].of = m /\ FinishIngestion(t)
    BY OnlyFinishIngests
  <1>2. UNCHANGED mappingVars /\ storing[t].todo = {} /\ storing[t].op = "finalize"
    BY <1>1 DEF FinishIngestion, Rebuilt, Recorded
  <1>3. \A item \in ItemsOf[m] : Resolves(item)
    BY <1>1, <1>2 DEF ManifestSafe, FinalizationHolds
  <1>4. \A item : Resolves(item)' <=> Resolves(item)
    BY <1>2 DEF mappingVars, Resolves, Active, CurrentNodes, CurrentAssertions, IsApproved, EntitiesOf
  <1>5. ItemsOf[m] \subseteq ManifestItems
    BY ManifestConstants
  <1>6. QED
    BY <1>3, <1>4, <1>5 DEF EligibleArtifacts, ManifestItems, NodeItem, AssertionItem

\* Whatever reviewers approve or merge while any number of manifests are built,
\* authorized and written: at the commit that makes one a corpus each of its items
\* could still be chosen, although each was read by a statement of its own.
THEOREM CorporaAreCurrent == ManifestSpec => CorporaStartCurrent
  BY ManifestSafety, StepStartsCurrent, PTL DEF ManifestSpec, CorporaStartCurrent, StartsCurrent
=============================================================================
