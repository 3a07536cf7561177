------------------------- MODULE ManifestGovernance -------------------------
(***************************************************************************)
(* Storage manifests beside the mapping reviews that supersede what they   *)
(* name: build_manifest, authorize_manifest, the checks at the start and   *)
(* at the end of ingest_manifest (research/review/                         *)
(* storage_workflow_service.py), and the projections of                    *)
(* knowledge/projections.py.                                               *)
(*                                                                         *)
(* A manifest is named by its contents.  Its items are resolved again one  *)
(* by one, each by statements that see what is committed when they run;    *)
(* only the end of an ingestion locks what a review would have to lock.    *)
(* Items here are node versions and assertions; the Evidence they rest on  *)
(* is locked and checked with them, and reviewed in SourceClaimReview.     *)
(* How an ingestion writes and cleans up is the subject of StorageSaga.    *)
(***************************************************************************)
EXTENDS MappingReview

CONSTANTS
  Threads,    \* storage requests that the server handles at once
  Manifests,  \* manifest ids
  ItemsOf,    \* the exact versions each of them names
  IdOrder     \* the entities in the order of their ids

\* The projection of a node version, and of a relationship assertion: its point is
\* named by the artifact and its version.
NodeItem(e, i) == [kind |-> "node", of |-> <<e>>, version |-> i]
AssertionItem(source, target, i) ==
  [kind |-> "assertion", of |-> <<source, target>>, version |-> i]

ManifestItems ==
  {NodeItem(e, i) : e \in Entities, i \in 1..Cardinality(Proposals)}
    \cup {AssertionItem(e, f, i) : e \in Entities, f \in Entities, i \in 1..Cardinality(Proposals)}

ASSUME ManifestConstants ==
  /\ ItemsOf \in [Manifests -> SUBSET ManifestItems]
  /\ IdOrder \in Seq(Entities)
  /\ \A e \in Entities : \E i \in DOMAIN IdOrder : IdOrder[i] = e

VARIABLES
  stage,   \* of each manifest: storage_manifests.status, and whether it is written
  storing  \* the request each thread handles, or None

manifestVars == <<stage, storing>>
storageVars == <<mappingVars, manifestVars>>

Stages == {"none", "pending", "authorized", "writing", "ingested"}
StorageOperations == {"build", "authorize", "start", "write", "finalize"}

\* The entity rows still to be locked, those locked, and the items still to be resolved.
StorageRequests ==
  [op : StorageOperations, of : Manifests, locks : SUBSET Entities, held : SUBSET Entities,
   todo : SUBSET ManifestItems]

ASSUME AbsentRequest == None \notin StorageRequests

ManifestTypeOK ==
  /\ stage \in [Manifests -> Stages]
  /\ storing \in [Threads -> StorageRequests \cup {None}]

ManifestInit ==
  /\ stage = [m \in Manifests |-> "none"]
  /\ storing = [t \in Threads |-> None]

-----------------------------------------------------------------------------
EntitiesOf(item) == {item.of[k] : k \in DOMAIN item.of}

\* The latest version, of an approved proposal, of active entities.
Resolves(item) ==
  /\ \A e \in EntitiesOf(item) : Active(e)
  /\ item.version \in IF item.kind = "node" THEN CurrentNodes(item.of[1])
                      ELSE CurrentAssertions(item.of)

\* What list_eligible_artifacts shows.
EligibleArtifacts == {item \in ManifestItems : Resolves(item)}

\* Mutant: the ends of relationships are left out.
Mutant_Envelopes(m) ==
  UNION {EntitiesOf(item) : item \in {i \in ItemsOf[m] : i.kind = "node"}}

\* Of _lock_manifest_governance_envelopes, the rows that reviews change.
Envelopes(m) == UNION {EntitiesOf(item) : item \in ItemsOf[m]}

\* Rows are locked in the order of their ids: of S, e comes first.
FirstInOrder(e, S) ==
  e \in S /\ \A i, j \in DOMAIN IdOrder : IdOrder[i] \in S /\ IdOrder[j] = e => i >= j

StorageHolds(e) == \E t \in Threads : storing[t] # None /\ e \in storing[t].held

\* The manifest's row is locked until the transaction ends.
ManifestLocked(m) ==
  \E t \in Threads : storing[t] # None /\ storing[t].of = m
                       /\ storing[t].op \in {"authorize", "start", "finalize"}

\* The status that the operation requires; a build is answered with what is there.
Admits(op, m) ==
  CASE op = "build" -> TRUE
    [] op = "authorize" -> stage[m] = "pending"
    [] op = "start" -> stage[m] = "authorized"

Opens(op, m, locks) ==
  [op |-> op, of |-> m, locks |-> locks, held |-> {}, todo |-> ItemsOf[m]]

\* The statements of one transaction: its thread goes on, or its request ends.
Continues(t, request) ==
  storing' = [storing EXCEPT ![t] = request] /\ UNCHANGED <<mappingVars, stage>>

BeginStorage(t, op, m) ==
  /\ storing[t] = None
  /\ op # "build" => ~ManifestLocked(m)
  /\ Admits(op, m)
  /\ Continues(t, Opens(op, m, {}))

\* The vectors are written, and the last transaction locks the manifest.
BeginFinalization(t) ==
  /\ storing[t] # None /\ storing[t].op = "write"
  /\ ~ManifestLocked(storing[t].of)
  /\ Continues(t, Opens("finalize", storing[t].of, Envelopes(storing[t].of)))

LockEnvelope(t) ==
  /\ storing[t] # None
  /\ \E e \in Entities :
       /\ FirstInOrder(e, storing[t].locks)
       /\ \A u \in Users : ~Holds(u, e)
       /\ ~StorageHolds(e)
       /\ Continues(t, [storing[t] EXCEPT !.held = @ \cup {e}, !.locks = @ \ {e}])

ResolveItem(t, item) ==
  /\ storing[t] # None /\ storing[t].op # "write" /\ storing[t].locks = {}
  /\ item \in storing[t].todo /\ Resolves(item)
  /\ Continues(t, [storing[t] EXCEPT !.todo = @ \ {item}])

Rebuilt(t, op) ==
  storing[t] # None /\ storing[t].op = op /\ storing[t].locks = {} /\ storing[t].todo = {}

Recorded(t, status, request) ==
  /\ stage' = [stage EXCEPT ![storing[t].of] = status]
  /\ storing' = [storing EXCEPT ![t] = request]
  /\ UNCHANGED mappingVars

\* What another request has inserted meanwhile is kept.
BuildManifest(t) ==
  /\ Rebuilt(t, "build")
  /\ Recorded(t, IF stage[storing[t].of] = "none" THEN "pending" ELSE stage[storing[t].of], None)

AuthorizeManifest(t) == Rebuilt(t, "authorize") /\ Recorded(t, "authorized", None)

StartIngestion(t) ==
  /\ Rebuilt(t, "start")
  /\ Recorded(t, "writing", [Opens("write", storing[t].of, {}) EXCEPT !.todo = {}])

FinishIngestion(t) == Rebuilt(t, "finalize") /\ Recorded(t, "ingested", None)

\* An item does not resolve, the transaction is a deadlock's victim, the store fails or
\* the process dies.  What a write has begun is cleaned up, or stays to be reconciled.
AbandonStorage(t) ==
  /\ storing[t] # None
  /\ LET m == storing[t].of
         begun == storing[t].op \in {"write", "finalize"} IN
     \E status \in IF begun THEN {"authorized", "writing"} ELSE {stage[m]} :
       Recorded(t, status, None)

\* A review waits for the rows that an ingestion has locked.
Beside(Step) ==
  /\ Step
  /\ \A u \in Users : review'[u] # None =>
       \A e \in review'[u].held : StorageHolds(e) => Holds(u, e)
  /\ UNCHANGED manifestVars

StorageStep(t) ==
  \/ BeginFinalization(t) \/ LockEnvelope(t)
  \/ BuildManifest(t) \/ AuthorizeManifest(t) \/ StartIngestion(t) \/ FinishIngestion(t)
  \/ AbandonStorage(t)
  \/ \E item \in ManifestItems : ResolveItem(t, item)

ManifestNext ==
  \/ Beside(MappingNext)
  \/ \E t \in Threads, m \in Manifests, op \in {"build", "authorize", "start"} :
       BeginStorage(t, op, m)
  \/ \E t \in Threads : StorageStep(t)

\* Whatever a storage request waits for, it or the database ends it.
ManifestFairness ==
  /\ \A u \in Reviewers :
       SF_storageVars(Beside(ApprovalStep(u))) /\ WF_storageVars(Beside(AbortDeadlocked(u)))
  /\ \A t \in Threads : WF_storageVars(StorageStep(t))

ManifestSpec == MappingInit /\ ManifestInit /\ [][ManifestNext]_storageVars /\ ManifestFairness

-----------------------------------------------------------------------------
(* Properties.                                                              *)

\* Whatever reviewers approve or merge while a manifest is built, authorized and
\* written: at the commit that makes it a corpus each of its items could still be
\* chosen, although every one of them was read by a statement of its own.
CorporaStartCurrent ==
  [][\A m \in Manifests : stage[m] # "ingested" /\ stage'[m] = "ingested" =>
       ItemsOf[m] \subseteq EligibleArtifacts']_storageVars
=============================================================================
