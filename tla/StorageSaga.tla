----------------------------- MODULE StorageSaga -----------------------------
(***************************************************************************)
(* Ingestion of an authorized StorageManifest: the saga between the SQL    *)
(* tables (research/review/storage_workflow_service.py, ingest_manifest)   *)
(* and the Qdrant collection (retrieval/qdrant_service.py, write_manifest  *)
(* and cleanup_manifest_points), which share no transaction.               *)
(*                                                                         *)
(* A SQL transaction that can wait for a row lock while it holds another   *)
(* is two actions, the first of which takes the held lock; any other       *)
(* transaction is one.  Every Qdrant request is an action of its own: it   *)
(* may fail, and may have been applied in part or in full when it fails.   *)
(* A request that changes no row once its locks are released (a replay, a  *)
(* refusal) ends by going idle.                                            *)
(***************************************************************************)
EXTENDS Naturals, FiniteSets

CONSTANTS
  Workers,       \* request threads, across all server processes
  Operators,     \* users that may ingest
  Keys,          \* idempotency keys they choose
  Manifests,     \* storage manifests, built and pending
  Collections,   \* Qdrant collections
  Points,        \* point identities (one per artifact version)
  Corpora,       \* corpus identities
  CollectionOf,  \* the collection a manifest names
  PointsOf,      \* the points it projects
  CorpusOf,      \* the corpus it is to become
  Rolling,       \* whether a deployment for the next manifest overlaps the last one
  MaxFaults,     \* bound: crashes, database errors and lost commit replies
  None

ASSUME ConstantsAssumption ==
  /\ CollectionOf \in [Manifests -> Collections]
  /\ PointsOf \in [Manifests -> (SUBSET Points) \ {{}}]
  /\ CorpusOf \in [Manifests -> Corpora]
  /\ Rolling \in BOOLEAN
  /\ MaxFaults \in Nat

\* Unique (actor_user_id, idempotency_key).
Operations == [by : Operators, key : Keys]

\* A point in a collection; retrieval sees the ingested ones only.
Placed == [owner : Manifests, status : {"approved", "ingested"}]

ASSUME NoneAssumption == None \notin Manifests \cup Operations \cup Placed

VARIABLES
  manifest,   \* storage_manifests.status
  current,    \* manifests the current approvals and clearances still support
  operation,  \* ingestion_operations, per actor and key
  receipt,    \* ingestion_receipts: the operation of a manifest's receipt
  armed,      \* per collection, the manifest the deployed write capability names
  store,      \* the points of each collection, with owner and review_status
  req,        \* the request each worker is executing
  faults      \* faults so far

vars == <<manifest, current, operation, receipt, armed, store, req, faults>>

States == {"none", "running", "succeeded", "failed_cleaned", "reconciliation_required"}
Active == {"running", "reconciliation_required"}

\* Phases in which a request is outside SQL, in the vector store.
WritePhases == {"check", "upsert", "verify", "promote", "confirm"}
CleanPhases == {"clean", "delete"}

\* "decide" holds the actor's and the manifest's row lock, "finalize" the actor's
\* and the operation's, "own" the operation's.
Phases == {"decide", "receipt", "finalize", "preflight", "own", "fail"}
            \cup WritePhases \cup CleanPhases

Idle == [pc |-> "idle"]

Busy == [pc : Phases, op : Operations, manifest : Manifests, owned : SUBSET Points,
         cleanup : {"cleaned", "reconciliation_required"}]

PointStates == {None} \cup Placed

TypeOK ==
  /\ manifest \in [Manifests -> {"pending", "authorized", "ingested"}]
  /\ current \subseteq Manifests
  /\ operation \in [Operations -> [state : States, manifest : Manifests \cup {None}]]
  /\ receipt \in [Manifests -> Operations \cup {None}]
  /\ armed \in [Collections -> Manifests]
  /\ store \in [Collections -> [Points -> PointStates]]
  /\ req \in [Workers -> {Idle} \cup Busy]
  /\ faults \in 0..MaxFaults

Init ==
  /\ manifest = [m \in Manifests |-> "pending"]
  /\ current = Manifests
  /\ operation = [id \in Operations |-> [state |-> "none", manifest |-> None]]
  /\ receipt = [m \in Manifests |-> None]
  /\ armed \in [Collections -> Manifests]
  /\ store = [c \in Collections |-> [p \in Points |-> None]]
  /\ req = [w \in Workers |-> Idle]
  /\ faults = 0

-----------------------------------------------------------------------------
(* Locks and requests.                                                      *)

Doing(w, phases) == req[w].pc \in phases
Mine(w) == req[w].manifest

ManifestFree(m) == \A x \in Workers : Doing(x, {"decide"}) => Mine(x) # m
OperationFree(id) == \A x \in Workers : Doing(x, {"finalize", "own"}) => req[x].op # id
ActorFree(o) == \A x \in Workers : Doing(x, {"decide", "finalize"}) => req[x].op.by # o

Goto(w, to) == req' = [req EXCEPT ![w].pc = to]
Leave(w) == req' = [req EXCEPT ![w] = Idle]

\* A transaction commits; its reply arrives, or is lost and raises in the thread.
Commits(arrived, lost) ==
  \/ arrived /\ UNCHANGED faults
  \/ lost /\ faults < MaxFaults /\ faults' = faults + 1

ActiveOn(m) == {id \in Operations : operation[id].manifest = m /\ operation[id].state \in Active}

-----------------------------------------------------------------------------
(* Authorization, and the approvals behind a manifest.                      *)

\* authorize_manifest: one transaction under the manifest's lock, which rebuilds
\* the manifest from its approved artifacts.
AuthorizeManifest(m) ==
  /\ manifest[m] = "pending"
  /\ m \in current
  /\ ManifestFree(m)
  /\ manifest' = [manifest EXCEPT ![m] = "authorized"]
  /\ UNCHANGED <<current, operation, receipt, armed, store, req, faults>>

\* An approval is revoked or superseded, a role or clearance withdrawn, a session
\* ended; or what can be restored of these is.
ApprovalsChange(m) ==
  /\ current' = IF m \in current THEN current \ {m} ELSE current \cup {m}
  /\ UNCHANGED <<manifest, operation, receipt, armed, store, req, faults>>

\* A deployment names another manifest in its write capability.
Deploy(m) ==
  /\ Rolling \/ \A w \in Workers : req[w] = Idle
  /\ armed' = [armed EXCEPT ![CollectionOf[m]] = m]
  /\ UNCHANGED <<manifest, current, operation, receipt, store, req, faults>>

-----------------------------------------------------------------------------
(* _start_ingestion.                                                        *)

\* The actor's and the manifest's rows are locked and the approvals reconciled.
StartLock(w, id, m) ==
  /\ req[w] = Idle
  /\ manifest[m] # "pending"
  /\ m \in current
  /\ ActorFree(id.by)
  /\ ManifestFree(m)
  /\ req' = [req EXCEPT ![w] = [pc |-> "decide", op |-> id, manifest |-> m,
                                owned |-> {}, cleanup |-> "reconciliation_required"]]
  /\ UNCHANGED <<manifest, current, operation, receipt, armed, store, faults>>

\* Mutant: the manifest's status is not looked at.
Mutant_Fresh(w) ==
  /\ operation[req[w].op].state = "none"
  /\ armed[CollectionOf[Mine(w)]] = Mine(w)

\* The requested operation does not exist and this process may write the manifest.
Fresh(w) ==
  /\ operation[req[w].op].state = "none"
  /\ manifest[Mine(w)] = "authorized"
  /\ armed[CollectionOf[Mine(w)]] = Mine(w)

\* The operation rows it reads FOR UPDATE: the one of this key, else the active one.
Awaited(w) ==
  IF operation[req[w].op].state # "none" THEN {req[w].op}
  ELSE IF Fresh(w) THEN ActiveOn(Mine(w)) ELSE {}

\* Mutant: an active operation of another key is not looked for.
Mutant_Startable(w) == Fresh(w)

Startable(w) == Fresh(w) /\ ActiveOn(Mine(w)) = {}

StartDecide(w) ==
  /\ Doing(w, {"decide"})
  /\ \A id \in Awaited(w) : OperationFree(id)
  /\ IF Startable(w)
       THEN /\ operation' = [operation EXCEPT ![req[w].op] =
                               [state |-> "running", manifest |-> Mine(w)]]
            /\ Commits(Goto(w, "check"), Leave(w))
       ELSE Leave(w) /\ UNCHANGED <<operation, faults>>
  /\ UNCHANGED <<manifest, current, receipt, armed, store>>

-----------------------------------------------------------------------------
(* write_manifest.                                                          *)

Collection(w) == store[CollectionOf[Mine(w)]]

\* _verify_written_points: the collection holds the manifest's points, with this
\* status, and nothing else.
Exactly(m, status) ==
  store[CollectionOf[m]] =
    [p \in Points |-> IF p \in PointsOf[m] THEN [owner |-> m, status |-> status] ELSE None]

\* Mutant: the collection is not checked to be bound to this manifest.
Mutant_Bound(m) == TRUE

\* A collection that holds anything but this manifest's visible points is refused.
Bound(m) ==
  Exactly(m, "ingested") \/ \A p \in Points : store[CollectionOf[m]][p] = None

\* A fully ingested manifest is not written again, unless the read that tells so
\* fails: that error counts as "not ingested".
CheckCollection(w) ==
  /\ Doing(w, {"check"})
  /\ \/ Exactly(Mine(w), "ingested") /\ Goto(w, "receipt")
     \/ Goto(w, IF Bound(Mine(w)) THEN "upsert" ELSE "preflight")
  /\ UNCHANGED <<manifest, current, operation, receipt, armed, store, faults>>

\* In the collection of w's manifest the points S become what f makes of them.
Put(w, S, f) ==
  store' = [store EXCEPT ![CollectionOf[Mine(w)]] =
              [p \in Points |-> IF p \in S THEN f[@[p]] ELSE @[p]]]

Staged(m) == [p \in PointStates |-> [owner |-> m, status |-> "approved"]]
Visible == [p \in PointStates |-> IF p = None THEN None ELSE [p EXCEPT !.status = "ingested"]]
Gone == [p \in PointStates |-> None]

\* A request for all points of w's manifest: applied to S, it returns or it fails.
Applied(w, S, next) ==
  \/ S = PointsOf[Mine(w)] /\ Goto(w, next)
  \/ Goto(w, "preflight")

\* upsert replaces whatever has the point's identity, unseen by retrieval.
Upsert(w) ==
  /\ Doing(w, {"upsert"})
  /\ \E S \in SUBSET PointsOf[Mine(w)] :
       /\ Put(w, S, Staged(Mine(w)))
       /\ Applied(w, S, "verify")
  /\ UNCHANGED <<manifest, current, operation, receipt, armed, faults>>

\* set_payload makes the points visible to retrieval, whoever's they are.
Promote(w) ==
  /\ Doing(w, {"promote"})
  /\ \E S \in SUBSET PointsOf[Mine(w)] :
       /\ Put(w, S, Visible)
       /\ Applied(w, S, "confirm")
  /\ UNCHANGED <<manifest, current, operation, receipt, armed, faults>>

VerifyPoints(w, at, status, next) ==
  /\ Doing(w, {at})
  /\ Goto(w, IF Exactly(Mine(w), status) THEN next ELSE "preflight")
  /\ UNCHANGED <<manifest, current, operation, receipt, armed, store, faults>>

\* Embedding, or a read of the collection, fails.
ReadFails(w) ==
  /\ Doing(w, {"check", "upsert", "verify", "confirm"})
  /\ Goto(w, "preflight")
  /\ UNCHANGED <<manifest, current, operation, receipt, armed, store, faults>>

-----------------------------------------------------------------------------
(* _finish_successful_ingestion.                                            *)

\* The actor is checked again and the operation's row locked.
FinishLock(w) ==
  /\ Doing(w, {"receipt"})
  /\ ActorFree(req[w].op.by)
  /\ OperationFree(req[w].op)
  /\ Goto(w, "finalize")
  /\ UNCHANGED <<manifest, current, operation, receipt, armed, store, faults>>

\* Approvals are reconciled again under locks, and the corpus identity is new.
Finalizable(w) ==
  /\ operation[req[w].op].state = "running"
  /\ manifest[Mine(w)] = "authorized"
  /\ Mine(w) \in current
  /\ \A n \in Manifests : CorpusOf[n] = CorpusOf[Mine(w)] => manifest[n] # "ingested"

FinishCommit(w) ==
  LET m == Mine(w) IN
  /\ Doing(w, {"finalize"})
  /\ ManifestFree(m)
  /\ IF Finalizable(w)
       THEN /\ manifest' = [manifest EXCEPT ![m] = "ingested"]
            /\ receipt' = [receipt EXCEPT ![m] = req[w].op]
            /\ operation' = [operation EXCEPT ![req[w].op].state = "succeeded"]
            /\ Commits(Leave(w), Goto(w, "preflight"))
       ELSE /\ Goto(w, "preflight")
            /\ UNCHANGED <<manifest, receipt, operation, faults>>
  /\ UNCHANGED <<current, armed, store>>

-----------------------------------------------------------------------------
(* _cleanup_after_failed_operation and _finish_failed_ingestion.            *)

CleanupLock(w) ==
  /\ Doing(w, {"preflight"})
  /\ OperationFree(req[w].op)
  /\ Goto(w, "own")
  /\ UNCHANGED <<manifest, current, operation, receipt, armed, store, faults>>

\* The operation is running, nothing of the manifest was committed and no other
\* operation on it is running, unresolved or done.
SoleOwner(w) ==
  /\ operation[req[w].op].state = "running"
  /\ manifest[Mine(w)] = "authorized"
  /\ receipt[Mine(w)] = None
  /\ \A id \in Operations \ {req[w].op} :
       operation[id].manifest = Mine(w) => operation[id].state \notin Active \cup {"succeeded"}

\* Mutant: the preflight waits until it is safe.
Mutant_CleanupDecide(w) ==
  /\ Doing(w, {"own"})
  /\ ManifestFree(Mine(w))
  /\ SoleOwner(w)
  /\ Goto(w, "clean")
  /\ UNCHANGED <<manifest, current, operation, receipt, armed, store, faults>>

CleanupDecide(w) ==
  /\ Doing(w, {"own"})
  /\ ManifestFree(Mine(w))
  /\ Goto(w, IF SoleOwner(w) THEN "clean" ELSE "fail")
  /\ UNCHANGED <<manifest, current, operation, receipt, armed, store, faults>>

\* Mutant: whoever's they are.
Mutant_ReadOwned(w) ==
  LET found == {p \in PointsOf[Mine(w)] : Collection(w)[p] # None} IN
  /\ Doing(w, {"clean"})
  /\ \/ req' = [req EXCEPT ![w].pc = "delete", ![w].owned = found]
     \/ Goto(w, "fail")
  /\ UNCHANGED <<manifest, current, operation, receipt, armed, store, faults>>

\* Points with one of the manifest's identities must all be its own.
ReadOwned(w) ==
  LET found == {p \in PointsOf[Mine(w)] : Collection(w)[p] # None} IN
  /\ Doing(w, {"clean"})
  /\ \/ /\ \A p \in found : Collection(w)[p].owner = Mine(w)
        /\ req' = [req EXCEPT ![w].pc = "delete", ![w].owned = found]
     \/ Goto(w, "fail")
  /\ UNCHANGED <<manifest, current, operation, receipt, armed, store, faults>>

\* Mutant: a failed delete counts as done.
Mutant_Cleaned(w) == TRUE

\* None of the manifest's points remains.
Cleaned(w) == \A p \in PointsOf[Mine(w)] : store'[CollectionOf[Mine(w)]][p] = None

\* They are deleted by identity and looked for once more.
DeleteOwned(w) ==
  /\ Doing(w, {"delete"})
  /\ \E S \in SUBSET req[w].owned : Put(w, S, Gone)
  /\ \/ /\ Cleaned(w)
        /\ req' = [req EXCEPT ![w].pc = "fail", ![w].cleanup = "cleaned"]
     \/ Goto(w, "fail")
  /\ UNCHANGED <<manifest, current, operation, receipt, armed, faults>>

\* Only a running operation is closed; a refusal ends the request unrecorded.
FinishFailed(w) ==
  LET id == req[w].op IN
  /\ Doing(w, {"fail"})
  /\ OperationFree(id)
  /\ operation' = [operation EXCEPT ![id].state =
       IF @ # "running" THEN @
       ELSE IF req[w].cleanup = "cleaned" THEN "failed_cleaned" ELSE "reconciliation_required"]
  /\ Leave(w)
  /\ UNCHANGED <<manifest, current, receipt, armed, store, faults>>

-----------------------------------------------------------------------------
(* Faults.                                                                  *)

\* Where an exception takes a transaction's thread: out of finalization to the
\* cleanup; out of start, of the cleanup's preflight and of _finish_failed, out.
Raise(w) == IF Doing(w, {"receipt", "finalize"}) THEN Goto(w, "preflight") ELSE Leave(w)

\* A start holds the manifest and waits for an operation that x holds, while x
\* waits for the manifest: the database aborts one of the two.
Deadlock(w, x) ==
  /\ Doing(w, {"decide"})
  /\ Doing(x, {"finalize", "own"})
  /\ req[x].op \in Awaited(w)
  /\ Mine(x) = Mine(w)
  /\ Raise(w) \/ Raise(x)
  /\ UNCHANGED <<manifest, current, operation, receipt, armed, store, faults>>

\* A statement or commit of a transaction fails and is rolled back.
DatabaseError(w) ==
  /\ faults < MaxFaults
  /\ Doing(w, {"decide", "receipt", "finalize", "preflight", "own", "fail"})
  /\ Raise(w)
  /\ faults' = faults + 1
  /\ UNCHANGED <<manifest, current, operation, receipt, armed, store>>

\* The process dies; its locks are released.
Crash(w) ==
  /\ faults < MaxFaults
  /\ req[w] # Idle
  /\ Leave(w)
  /\ faults' = faults + 1
  /\ UNCHANGED <<manifest, current, operation, receipt, armed, store>>

-----------------------------------------------------------------------------
Step(w) ==
  \/ StartDecide(w)
  \/ CheckCollection(w) \/ Upsert(w) \/ VerifyPoints(w, "verify", "approved", "promote")
  \/ Promote(w) \/ VerifyPoints(w, "confirm", "ingested", "receipt") \/ ReadFails(w)
  \/ FinishLock(w) \/ FinishCommit(w)
  \/ CleanupLock(w) \/ CleanupDecide(w) \/ ReadOwned(w) \/ DeleteOwned(w) \/ FinishFailed(w)

Next ==
  \/ \E m \in Manifests : AuthorizeManifest(m) \/ ApprovalsChange(m) \/ Deploy(m)
  \/ \E w \in Workers, id \in Operations, m \in Manifests : StartLock(w, id, m)
  \/ \E w \in Workers : Step(w) \/ DatabaseError(w) \/ Crash(w)
  \/ \E w, x \in Workers : Deadlock(w, x)

Spec == Init /\ [][Next]_vars

\* Row locks are granted in the order they are asked for, the vector store's
\* client times out, and the database detects deadlocks.
FairSpec ==
  /\ Spec
  /\ \A w \in Workers : SF_vars(Step(w))
  /\ \A w, x \in Workers : WF_vars(Deadlock(w, x))

-----------------------------------------------------------------------------
(* Safety.                                                                  *)

Writing(w) == Doing(w, Phases \ {"decide"})

\* Whatever keys and operators retry, one thread at a time writes, finalizes or
\* cleans a manifest, and no operation on it is active beside that thread's.
OneWriter ==
  \A w \in Workers : Writing(w) =>
    /\ \A x \in Workers \ {w} : Writing(x) => Mine(x) # Mine(w)
    /\ ActiveOn(Mine(w)) \subseteq {req[w].op}

\* A manifest is ingested by exactly one operation, the one of its receipt, and
\* after that none is running or unresolved on it (activation relies on this);
\* a corpus identity is used once.
IngestedOnce ==
  /\ \A id \in Operations :
       operation[id].state = "succeeded" =>
         manifest[operation[id].manifest] = "ingested" /\ receipt[operation[id].manifest] = id
  /\ \A m \in Manifests : manifest[m] = "ingested" =>
       /\ receipt[m] # None
       /\ operation[receipt[m]] = [state |-> "succeeded", manifest |-> m]
       /\ ActiveOn(m) = {}
       /\ \A n \in Manifests \ {m} : CorpusOf[n] = CorpusOf[m] => manifest[n] # "ingested"

\* An ingested manifest's collection holds its points, all of them visible, and
\* nothing else: neither a lost commit reply, nor another manifest's ingestion
\* or cleanup in the same collection, takes them away.
CommittedPointsStay == \A m \in Manifests : manifest[m] = "ingested" => Exactly(m, "ingested")

\* Points of a manifest that was not ingested exist only under an operation that
\* is running or asks for reconciliation: a failure recorded as cleaned is clean.
NoStrayPoints ==
  \A c \in Collections, p \in Points :
    store[c][p] # None /\ manifest[store[c][p].owner] # "ingested" =>
      ActiveOn(store[c][p].owner) # {}

\* A point is removed or replaced only while its owner's operation runs, and not
\* once that manifest is ingested.
PointsChangeUnderOperation ==
  [][\A c \in Collections, p \in Points :
       store'[c][p] # store[c][p] /\ store[c][p] # None =>
         /\ manifest[store[c][p].owner] = "authorized"
         /\ \E id \in ActiveOn(store[c][p].owner) : operation[id].state = "running"]_vars

\* A request ends, although starts lock manifest then operation, and finalization
\* and cleanup operation then manifest: a deadlock costs a request, not a hang.
RequestsEnd == \A w \in Workers : req[w] # Idle ~> req[w] = Idle

-----------------------------------------------------------------------------
(* What the code's own words say beyond that.                               *)

\* "otherwise retain an explicit reconciliation marker" (ingest_manifest): an
\* operation that is still running has a thread that will close it.
RunningHasThread ==
  \A id \in Operations : operation[id].state = "running" =>
    \E w \in Workers : Writing(w) /\ req[w].op = id
=============================================================================
