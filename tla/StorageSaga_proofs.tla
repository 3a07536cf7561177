------------------------- MODULE StorageSaga_proofs -------------------------
(***************************************************************************)
(* Machine-checked facts about StorageSaga, for any number of workers,     *)
(* operators, keys, manifests, collections, points, corpora and faults.    *)
(***************************************************************************)
EXTENDS StorageSaga, TLAPS

Request == {Idle} \cup Busy

\* Phases in which the request's operation is certainly running.
RunningPhases == WritePhases \cup CleanPhases \cup {"receipt", "finalize"}

LEMMA PhaseSets ==
  /\ Phases = {"decide", "receipt", "finalize", "preflight", "own", "fail", "check",
               "upsert", "verify", "promote", "confirm", "clean", "delete"}
  /\ RunningPhases = Phases \ {"decide", "preflight", "own", "fail"}
  BY DEF Phases, RunningPhases, WritePhases, CleanPhases

LEMMA BusyRequest ==
  ASSUME TypeOK, NEW w \in Workers, req[w].pc # "idle"
  PROVE  req[w] \in Busy
  BY DEF TypeOK, Idle

\* Worker w's request becomes r: it ends, or goes on with the same operation.
Moves(w, r) ==
  /\ req' = [req EXCEPT ![w] = r]
  /\ \/ r = Idle
     \/ /\ req[w] \in Busy
        /\ r \in Busy
        /\ r.op = req[w].op /\ r.manifest = req[w].manifest
        /\ req[w].pc \notin {"decide", "fail"} /\ r.pc # "decide"
        /\ r.cleanup = req[w].cleanup \/ r.pc = "fail"
        /\ r.pc \in RunningPhases =>
             req[w].pc \in RunningPhases \/ operation[r.op].state = "running"

\* ... and nothing new is known of a cleanup.
Settled(w, r) == r = Idle \/ r.cleanup = req[w].cleanup

LEMMA LeaveMoves ==
  ASSUME NEW w \in Workers, Leave(w)
  PROVE  \E r \in Request : Moves(w, r) /\ Settled(w, r)
  BY DEF Leave, Moves, Request, Settled

LEMMA GotoMoves ==
  ASSUME TypeOK, NEW w \in Workers, NEW to \in Phases \ {"decide"}, Goto(w, to),
         req[w].pc \notin {"idle", "decide", "fail"},
         to \in RunningPhases =>
           req[w].pc \in RunningPhases \/ operation[req[w].op].state = "running"
  PROVE  \E r \in Request :
           /\ Moves(w, r)
           /\ r.pc = to /\ r.manifest = req[w].manifest /\ r.cleanup = req[w].cleanup
           /\ r.owned = req[w].owned
  <1>1. req[w] \in Busy
    BY BusyRequest
  <1> DEFINE r == [req[w] EXCEPT !.pc = to]
  <1>2. /\ r \in Busy /\ r.pc = to /\ r.op = req[w].op /\ r.manifest = req[w].manifest
        /\ r.cleanup = req[w].cleanup /\ r.owned = req[w].owned
    BY <1>1 DEF Busy
  <1>3. req' = [req EXCEPT ![w] = r]
    BY DEF Goto
  <1> HIDE DEF r
  <1>4. Moves(w, r)
    BY <1>1, <1>2, <1>3 DEF Moves
  <1>5. QED
    BY <1>2, <1>4 DEF Request

LEMMA RaiseMoves ==
  ASSUME TypeOK, NEW w \in Workers, Raise(w)
  PROVE  \E r \in Request : Moves(w, r) /\ Settled(w, r)
  <1>1. CASE Doing(w, {"receipt", "finalize"})
    <2>1. \E r \in Request : Moves(w, r) /\ r.cleanup = req[w].cleanup
      BY <1>1, GotoMoves, PhaseSets DEF Raise, Doing
    <2>2. QED
      BY <2>1 DEF Settled
  <1>2. CASE ~Doing(w, {"receipt", "finalize"})
    BY <1>2, LeaveMoves DEF Raise
  <1>3. QED
    BY <1>1, <1>2

LEMMA MovesOK ==
  ASSUME TypeOK, NEW w \in Workers, NEW r \in Request, Moves(w, r)
  PROVE  req' \in [Workers -> Request]
  BY DEF TypeOK, Moves, Request

-----------------------------------------------------------------------------
(* Types.                                                                   *)

LEMMA CommitsOK ==
  ASSUME faults \in 0..MaxFaults, NEW A, NEW B, Commits(A, B)
  PROVE  faults' \in 0..MaxFaults /\ (A \/ B)
  BY ConstantsAssumption DEF Commits

LEMMA RequestOnly ==
  ASSUME TypeOK, UNCHANGED <<manifest, current, operation, receipt, armed, store>>,
         faults' \in 0..MaxFaults, req' \in [Workers -> Request]
  PROVE  TypeOK'
  BY DEF TypeOK, Request

\* Moving the points of one collection between their states.
LEMMA PutOK ==
  ASSUME TypeOK, NEW w \in Workers, req[w].pc # "idle", NEW S \in SUBSET Points,
         NEW F \in [PointStates -> PointStates], Put(w, S, F)
  PROVE  store' \in [Collections -> [Points -> PointStates]]
  <1>1. PICK m \in Manifests : Mine(w) = m
    BY BusyRequest DEF Busy, Mine
  <1>2. store' = [store EXCEPT ![CollectionOf[m]] =
                    [p \in Points |-> IF p \in S THEN F[@[p]] ELSE @[p]]]
    BY <1>1 DEF Put
  <1>3. QED
    BY <1>2, ConstantsAssumption DEF TypeOK

LEMMA PointMaps ==
  ASSUME NEW m \in Manifests
  PROVE  /\ Staged(m) \in [PointStates -> PointStates]
         /\ Visible \in [PointStates -> PointStates]
         /\ Gone \in [PointStates -> PointStates]
  <1>1. [owner |-> m, status |-> "approved"] \in PointStates /\ None \in PointStates
    BY DEF PointStates, Placed
  <1>2. ASSUME NEW p \in PointStates \ {None}
        PROVE  [p EXCEPT !.status = "ingested"] \in PointStates
    BY <1>2 DEF PointStates, Placed
  <1>3. QED
    BY <1>1, <1>2 DEF Staged, Visible, Gone

-----------------------------------------------------------------------------
(* The SQL side: who writes, and what was ingested.                         *)

OperationsNamed ==
  \A id \in Operations : operation[id].state # "none" => operation[id].manifest \in Manifests

\* A writing thread's operation is on the thread's manifest; it is running, or
\* was committed under the thread, which then is on its way out.
WriterOwns ==
  \A w \in Workers : Writing(w) =>
    /\ operation[req[w].op].manifest = Mine(w)
    /\ operation[req[w].op].state \in {"running", "succeeded"}
    /\ req[w].pc \in RunningPhases => operation[req[w].op].state = "running"

Sql == OneWriter /\ IngestedOnce /\ OperationsNamed /\ WriterOwns

\* No thread begins to write.
Continues ==
  \A x \in Workers : Writing(x)' =>
    /\ Writing(x)
    /\ req'[x].op = req[x].op /\ req'[x].manifest = req[x].manifest
    /\ req'[x].pc \in RunningPhases =>
         req[x].pc \in RunningPhases \/ operation[req[x].op].state = "running"

LEMMA MovesContinues ==
  ASSUME TypeOK, NEW w \in Workers, NEW r \in Request, Moves(w, r)
  PROVE  Continues
  <1> SUFFICES ASSUME NEW x \in Workers, Writing(x)'
               PROVE  /\ Writing(x)
                      /\ req'[x].op = req[x].op /\ req'[x].manifest = req[x].manifest
                      /\ req'[x].pc \in RunningPhases =>
                           req[x].pc \in RunningPhases \/ operation[req[x].op].state = "running"
    BY DEF Continues
  <1>1. req'[x] = IF x = w THEN r ELSE req[x]
    BY DEF Moves, TypeOK
  <1>2. req'[x].pc \in Phases \ {"decide"}
    BY DEF Writing, Doing
  <1>3. CASE x # w
    BY <1>1, <1>2, <1>3 DEF Writing, Doing
  <1>4. CASE x = w
    <2>1. r # Idle
      BY <1>1, <1>2, <1>4, PhaseSets DEF Idle
    <2>2. req[w].pc \in Phases \ {"decide"}
      BY <2>1 DEF Moves, Busy
    <2>3. QED
      BY <1>1, <1>4, <2>1, <2>2 DEF Moves, Writing, Doing
  <1>5. QED
    BY <1>3, <1>4

LEMMA ContinuesKeepsSql ==
  ASSUME TypeOK, Sql, Continues, UNCHANGED <<manifest, operation, receipt>>
  PROVE  Sql'
  <1>1. \A m \in Manifests : ActiveOn(m)' = ActiveOn(m)
    BY DEF ActiveOn
  <1>2. OneWriter'
    <2> SUFFICES ASSUME NEW w \in Workers, Writing(w)'
                 PROVE  /\ \A x \in Workers \ {w} : Writing(x)' => Mine(x)' # Mine(w)'
                        /\ ActiveOn(Mine(w))' \subseteq {req[w].op}'
      BY DEF OneWriter
    <2>1. Writing(w) /\ req'[w].op = req[w].op /\ req'[w].manifest = req[w].manifest
      BY DEF Continues
    <2>2. ActiveOn(Mine(w))' = ActiveOn(Mine(w))
      BY <2>1 DEF ActiveOn, Mine
    <2>3. QED
      BY <2>1, <2>2 DEF Sql, OneWriter, Continues, Mine
  <1>3. IngestedOnce'
    BY <1>1 DEF Sql, IngestedOnce
  <1>4. OperationsNamed'
    BY DEF Sql, OperationsNamed
  <1>5. WriterOwns'
    BY DEF Sql, WriterOwns, Continues, Mine
  <1>6. QED
    BY <1>2, <1>3, <1>4, <1>5 DEF Sql

LEMMA IngestedFacts ==
  ASSUME TypeOK, IngestedOnce, NEW n \in Manifests, manifest[n] = "ingested"
  PROVE  \E i \in Operations :
           /\ receipt[n] = i
           /\ operation[i].state = "succeeded" /\ operation[i].manifest = n
           /\ ActiveOn(n) = {}
  <1>1. /\ receipt[n] # None /\ ActiveOn(n) = {}
        /\ operation[receipt[n]] = [state |-> "succeeded", manifest |-> n]
    BY DEF IngestedOnce
  <1>2. receipt[n] \in Operations
    BY <1>1 DEF TypeOK
  <1>3. operation[receipt[n]].state = "succeeded" /\ operation[receipt[n]].manifest = n
    BY <1>1
  <1>4. QED
    BY <1>1, <1>2, <1>3

LEMMA WritingBusy ==
  ASSUME TypeOK, NEW w \in Workers, Writing(w)
  PROVE  req[w] \in Busy /\ Mine(w) \in Manifests /\ req[w].op \in Operations
  <1>1. req[w] \in Busy
    BY BusyRequest, PhaseSets DEF Writing, Doing
  <1>2. QED
    BY <1>1 DEF Busy, Mine

\* A new operation is alone on its manifest.
LEMMA StartKeepsSql ==
  ASSUME TypeOK, Sql, NEW w \in Workers, NEW m \in Manifests, NEW id \in Operations,
         req[w] \in Busy, req[w].manifest = m, req[w].op = id,
         operation[id].state = "none", manifest[m] = "authorized", ActiveOn(m) = {},
         operation' = [operation EXCEPT ![id] = [state |-> "running", manifest |-> m]],
         UNCHANGED <<manifest, receipt>>,
         NEW r \in Request, req' = [req EXCEPT ![w] = r],
         r = Idle \/ (r.op = id /\ r.manifest = m)
  PROVE  Sql'
  <1>1. \A x \in Workers : req'[x] = IF x = w THEN r ELSE req[x]
    BY DEF TypeOK
  <1>2. \A i \in Operations :
          operation'[i] = IF i = id THEN [state |-> "running", manifest |-> m] ELSE operation[i]
    BY DEF TypeOK
  <1>3. \A x \in Workers \ {w} : Writing(x) => req[x].op # id /\ req[x].manifest # m
    <2> SUFFICES ASSUME NEW x \in Workers \ {w}, Writing(x)
                 PROVE  req[x].op # id /\ req[x].manifest # m
      OBVIOUS
    <2>1. PICK i \in Operations : req[x].op = i
      BY WritingBusy
    <2>2. operation[i].manifest = req[x].manifest /\ operation[i].state \in {"running", "succeeded"}
      BY <2>1 DEF Sql, WriterOwns, Mine
    <2>3. operation[i].state = "running" => operation[i].manifest # m
      BY DEF ActiveOn, Active
    <2>4. operation[i].state = "succeeded" => operation[i].manifest # m
      BY DEF Sql, IngestedOnce
    <2>5. QED
      BY <2>1, <2>2, <2>3, <2>4
  <1>4. ActiveOn(m)' = {id} /\ \A n \in Manifests \ {m} : ActiveOn(n)' = ActiveOn(n)
    BY <1>2 DEF ActiveOn, Active
  <1>5. OneWriter'
    <2> SUFFICES ASSUME NEW x \in Workers, Writing(x)'
                 PROVE  /\ \A y \in Workers \ {x} : Writing(y)' => Mine(y)' # Mine(x)'
                        /\ ActiveOn(Mine(x))' \subseteq {req[x].op}'
      BY DEF OneWriter
    <2>1. CASE x = w
      <3>1. req'[w].op = id /\ req'[w].manifest = m
        BY <1>1, <2>1, PhaseSets DEF Writing, Doing, Idle
      <3>2. ActiveOn(Mine(x))' = ActiveOn(m)'
        BY <2>1, <3>1 DEF ActiveOn, Mine
      <3>3. QED
        BY <1>1, <1>3, <1>4, <2>1, <3>1, <3>2 DEF Writing, Doing, Mine
    <2>2. CASE x # w
      <3>1. PICK n \in Manifests : n = req[x].manifest /\ n = req'[x].manifest
        BY <1>1, <2>2, WritingBusy DEF Writing, Doing, Mine
      <3>2. Writing(x) /\ n # m
        BY <1>1, <1>3, <2>2, <3>1 DEF Writing, Doing
      <3>3. ActiveOn(Mine(x))' = ActiveOn(n)' /\ ActiveOn(Mine(x)) = ActiveOn(n)
        BY <3>1 DEF ActiveOn, Mine
      <3>4. ActiveOn(Mine(x))' \subseteq {req[x].op}'
        BY <1>1, <1>4, <2>2, <3>2, <3>3 DEF Sql, OneWriter
      <3>5. \A y \in Workers \ {x} : Writing(y)' => Mine(y)' # Mine(x)'
        <4> SUFFICES ASSUME NEW y \in Workers \ {x}, Writing(y)'
                     PROVE  req'[y].manifest # n
          BY <3>1 DEF Mine
        <4>1. CASE y = w
          BY <1>1, <3>2, <4>1, PhaseSets DEF Writing, Doing, Idle
        <4>2. CASE y # w
          <5>1. Writing(y) /\ req'[y] = req[y]
            BY <1>1, <4>2 DEF Writing, Doing
          <5>2. Mine(y) # Mine(x)
            BY <3>2, <5>1 DEF Sql, OneWriter
          <5>3. QED
            BY <3>1, <5>1, <5>2 DEF Mine
        <4>3. QED
          BY <4>1, <4>2
      <3>6. QED
        BY <3>4, <3>5
    <2>3. QED
      BY <2>1, <2>2
  <1>6. IngestedOnce'
    BY <1>2, <1>4 DEF Sql, IngestedOnce, OperationsNamed
  <1>7. OperationsNamed'
    BY <1>2 DEF Sql, OperationsNamed
  <1>8. WriterOwns'
    <2> SUFFICES ASSUME NEW x \in Workers, Writing(x)'
                 PROVE  /\ operation'[req'[x].op].manifest = req'[x].manifest
                        /\ operation'[req'[x].op].state \in {"running", "succeeded"}
                        /\ req'[x].pc \in RunningPhases => operation'[req'[x].op].state = "running"
      BY DEF WriterOwns, Mine
    <2>1. CASE x = w
      BY <1>1, <1>2, <2>1, PhaseSets DEF Writing, Doing, Idle
    <2>2. CASE x # w
      <3>1. PICK i \in Operations : req[x].op = i /\ req'[x].op = i
        BY <1>1, <2>2, WritingBusy DEF Writing, Doing
      <3>2. Writing(x) /\ i # id /\ req'[x] = req[x]
        BY <1>1, <1>3, <2>2, <3>1 DEF Writing, Doing
      <3>3. QED
        BY <1>2, <3>1, <3>2 DEF Sql, WriterOwns, Mine
    <2>3. QED
      BY <2>1, <2>2
  <1>9. QED
    BY <1>5, <1>6, <1>7, <1>8 DEF Sql

\* The first commit of an ingested manifest closes its only active operation.
LEMMA FinishKeepsSql ==
  ASSUME TypeOK, Sql, NEW w \in Workers, NEW m \in Manifests, NEW id \in Operations,
         Writing(w), req[w].manifest = m, req[w].op = id,
         operation[id].state = "running", manifest[m] = "authorized",
         \A n \in Manifests : CorpusOf[n] = CorpusOf[m] => manifest[n] # "ingested",
         manifest' = [manifest EXCEPT ![m] = "ingested"],
         receipt' = [receipt EXCEPT ![m] = id],
         operation' = [operation EXCEPT ![id].state = "succeeded"],
         NEW r \in Request, req' = [req EXCEPT ![w] = r],
         r = Idle \/ (r.op = id /\ r.manifest = m /\ r.pc \notin RunningPhases)
  PROVE  Sql'
  <1>1. \A x \in Workers : req'[x] = IF x = w THEN r ELSE req[x]
    BY DEF TypeOK
  <1>2. operation[id].manifest = m
    BY DEF Sql, WriterOwns, Mine
  <1>3. \A i \in Operations :
          operation'[i] = IF i = id THEN [state |-> "succeeded", manifest |-> m] ELSE operation[i]
    BY <1>2 DEF TypeOK
  <1>4. \A x \in Workers \ {w} : Writing(x) => req[x].op # id /\ req[x].manifest # m
    BY <1>2 DEF Sql, OneWriter, WriterOwns, Mine
  <1>5. ActiveOn(m) \subseteq {id}
    BY DEF Sql, OneWriter, Mine
  <1>6. ActiveOn(m)' = {} /\ \A n \in Manifests \ {m} : ActiveOn(n)' = ActiveOn(n)
    BY <1>2, <1>3, <1>5 DEF ActiveOn, Active
  <1>7. \A x \in Workers : Writing(x)' =>
          Writing(x) /\ req'[x].op = req[x].op /\ req'[x].manifest = req[x].manifest
    BY <1>1, PhaseSets DEF Writing, Doing, Idle
  <1>8. OneWriter'
    <2> SUFFICES ASSUME NEW x \in Workers, Writing(x)'
                 PROVE  /\ \A y \in Workers \ {x} : Writing(y)' => Mine(y)' # Mine(x)'
                        /\ ActiveOn(Mine(x))' \subseteq {req[x].op}'
      BY DEF OneWriter
    <2>1. Writing(x) /\ req'[x].op = req[x].op /\ req'[x].manifest = req[x].manifest
      BY <1>7
    <2>2. PICK n \in Manifests : n = req[x].manifest /\ n = req'[x].manifest
      BY <2>1, WritingBusy DEF Mine
    <2>3. ActiveOn(Mine(x))' = ActiveOn(n)' /\ ActiveOn(Mine(x)) = ActiveOn(n)
      BY <2>2 DEF ActiveOn, Mine
    <2>4. ActiveOn(n) \subseteq {req[x].op} /\ \A y \in Workers \ {x} : Writing(y) => Mine(y) # Mine(x)
      BY <2>1, <2>3 DEF Sql, OneWriter
    <2>5. ActiveOn(n)' \subseteq {req'[x].op}
      BY <1>6, <2>1, <2>4
    <2>6. \A y \in Workers \ {x} : Writing(y)' => Mine(y)' # Mine(x)'
      BY <1>7, <2>1, <2>4 DEF Mine
    <2>7. QED
      BY <2>3, <2>5, <2>6
  <1>9. IngestedOnce'
    <2>1. \A i \in Operations : operation'[i].state = "succeeded" =>
            manifest'[operation'[i].manifest] = "ingested" /\ receipt'[operation'[i].manifest] = i
      <3> SUFFICES ASSUME NEW i \in Operations, operation'[i].state = "succeeded"
                   PROVE  /\ manifest'[operation'[i].manifest] = "ingested"
                          /\ receipt'[operation'[i].manifest] = i
        OBVIOUS
      <3>1. CASE i = id
        BY <1>3, <3>1 DEF TypeOK
      <3>2. CASE i # id
        <4>1. PICK n \in Manifests : operation[i].manifest = n
          BY <1>3, <3>2 DEF Sql, OperationsNamed
        <4>2. manifest[n] = "ingested" /\ receipt[n] = i
          BY <1>3, <3>2, <4>1 DEF Sql, IngestedOnce
        <4>3. QED
          BY <1>3, <3>2, <4>1, <4>2 DEF TypeOK
      <3>3. QED
        BY <3>1, <3>2
    <2>2. \A n \in Manifests : manifest'[n] = "ingested" =>
            /\ receipt'[n] # None
            /\ operation'[receipt'[n]] = [state |-> "succeeded", manifest |-> n]
            /\ ActiveOn(n)' = {}
            /\ \A l \in Manifests \ {n} : CorpusOf[l] = CorpusOf[n] => manifest'[l] # "ingested"
      <3> SUFFICES ASSUME NEW n \in Manifests, manifest'[n] = "ingested"
                   PROVE  /\ receipt'[n] # None
                          /\ operation'[receipt'[n]] = [state |-> "succeeded", manifest |-> n]
                          /\ ActiveOn(n)' = {}
                          /\ \A l \in Manifests \ {n} :
                               CorpusOf[l] = CorpusOf[n] => manifest'[l] # "ingested"
        OBVIOUS
      <3>1. CASE n = m
        BY <1>3, <1>6, <3>1, NoneAssumption DEF TypeOK
      <3>2. CASE n # m
        <4>1. /\ manifest[n] = "ingested" /\ receipt[n] # None /\ receipt'[n] = receipt[n]
              /\ operation[receipt[n]] = [state |-> "succeeded", manifest |-> n]
              /\ ActiveOn(n) = {}
              /\ \A l \in Manifests \ {n} : CorpusOf[l] = CorpusOf[n] => manifest[l] # "ingested"
          BY <3>2 DEF TypeOK, Sql, IngestedOnce
        <4>2. PICK i \in Operations : receipt[n] = i
          BY <4>1 DEF TypeOK
        <4>3. operation'[i] = operation[i]
          BY <1>3, <4>1, <4>2
        <4>4. \A l \in Manifests \ {n} : CorpusOf[l] = CorpusOf[n] => manifest'[l] # "ingested"
          BY <3>2, <4>1 DEF TypeOK
        <4>5. QED
          BY <1>6, <3>2, <4>1, <4>2, <4>3, <4>4
      <3>3. QED
        BY <3>1, <3>2
    <2>3. QED
      BY <2>1, <2>2 DEF IngestedOnce
  <1>10. OperationsNamed'
    BY <1>3 DEF Sql, OperationsNamed
  <1>11. WriterOwns'
    <2> SUFFICES ASSUME NEW x \in Workers, Writing(x)'
                 PROVE  /\ operation'[req'[x].op].manifest = req'[x].manifest
                        /\ operation'[req'[x].op].state \in {"running", "succeeded"}
                        /\ req'[x].pc \in RunningPhases => operation'[req'[x].op].state = "running"
      BY DEF WriterOwns, Mine
    <2>1. CASE x = w
      BY <1>1, <1>3, <2>1, PhaseSets DEF Writing, Doing, Idle
    <2>2. CASE x # w
      <3>1. PICK i \in Operations : req[x].op = i /\ req'[x].op = i
        BY <1>7, WritingBusy
      <3>2. Writing(x) /\ i # id /\ req'[x] = req[x]
        BY <1>1, <1>4, <1>7, <2>2, <3>1
      <3>3. QED
        BY <1>3, <3>1, <3>2 DEF Sql, WriterOwns, Mine
    <2>3. QED
      BY <2>1, <2>2
  <1>12. QED
    BY <1>8, <1>9, <1>10, <1>11 DEF Sql

\* Closing an operation leaves the manifest to others.
LEMMA FailKeepsSql ==
  ASSUME TypeOK, Sql, NEW w \in Workers, NEW id \in Operations, Writing(w), req[w].op = id,
         NEW s \in {"failed_cleaned", "reconciliation_required"},
         operation' = [operation EXCEPT ![id].state = IF @ # "running" THEN @ ELSE s],
         UNCHANGED <<manifest, receipt>>,
         req' = [req EXCEPT ![w] = Idle]
  PROVE  Sql'
  <1>1. \A x \in Workers : req'[x] = IF x = w THEN Idle ELSE req[x]
    BY DEF TypeOK
  <1>2. PICK m \in Manifests : req[w].manifest = m
    BY WritingBusy DEF Mine
  <1>3. operation[id].manifest = m
    BY <1>2 DEF Sql, WriterOwns, Mine
  <1>4. /\ \A i \in Operations \ {id} : operation'[i] = operation[i]
        /\ operation'[id].manifest = m
        /\ operation'[id].state = IF operation[id].state = "running" THEN s ELSE operation[id].state
        /\ operation[id].state # "running" => operation'[id] = operation[id]
    BY <1>3 DEF TypeOK
  <1>5. \A x \in Workers : Writing(x)' =>
          x # w /\ Writing(x) /\ req'[x] = req[x] /\ req[x].op # id
    <2>1. \A x \in Workers \ {w} : Writing(x) => req[x].op # id
      BY <1>2, <1>3 DEF Sql, OneWriter, WriterOwns, Mine
    <2>2. QED
      BY <1>1, <2>1, PhaseSets DEF Writing, Doing, Idle
  <1>6. \A n \in Manifests : ActiveOn(n)' \subseteq ActiveOn(n)
    BY <1>3, <1>4 DEF ActiveOn, Active
  <1>7. OneWriter'
    <2> SUFFICES ASSUME NEW x \in Workers, Writing(x)'
                 PROVE  /\ \A y \in Workers \ {x} : Writing(y)' => Mine(y)' # Mine(x)'
                        /\ ActiveOn(Mine(x))' \subseteq {req[x].op}'
      BY DEF OneWriter
    <2>1. Writing(x) /\ req'[x] = req[x]
      BY <1>5
    <2>2. PICK n \in Manifests : n = req[x].manifest
      BY <2>1, WritingBusy DEF Mine
    <2>3. ActiveOn(Mine(x))' = ActiveOn(n)' /\ ActiveOn(Mine(x)) = ActiveOn(n)
      BY <2>1, <2>2 DEF ActiveOn, Mine
    <2>4. ActiveOn(n) \subseteq {req[x].op} /\ \A y \in Workers \ {x} : Writing(y) => Mine(y) # Mine(x)
      BY <2>1, <2>3 DEF Sql, OneWriter
    <2>5. \A y \in Workers \ {x} : Writing(y)' => Mine(y)' # Mine(x)'
      BY <1>5, <2>1, <2>4 DEF Mine
    <2>6. QED
      BY <1>6, <2>1, <2>3, <2>4, <2>5
  <1>8. IngestedOnce'
    <2>1. \A i \in Operations : operation'[i].state = "succeeded" => operation'[i] = operation[i]
      BY <1>4
    <2>2. \A i \in Operations : operation[i].state = "succeeded" => operation'[i] = operation[i]
      BY <1>4
    <2>3. \A n \in Manifests : manifest[n] = "ingested" =>
            operation'[receipt[n]] = operation[receipt[n]] /\ ActiveOn(n)' = {}
      <3> SUFFICES ASSUME NEW n \in Manifests, manifest[n] = "ingested"
                   PROVE  operation'[receipt[n]] = operation[receipt[n]] /\ ActiveOn(n)' = {}
        OBVIOUS
      <3>1. IngestedOnce
        BY DEF Sql
      <3>2. PICK i \in Operations :
              receipt[n] = i /\ operation[i].state = "succeeded" /\ ActiveOn(n) = {}
        BY <3>1, IngestedFacts
      <3>3. QED
        BY <1>6, <2>2, <3>2
    <2>4. \A i \in Operations : operation'[i].state = "succeeded" =>
            manifest[operation'[i].manifest] = "ingested" /\ receipt[operation'[i].manifest] = i
      BY <2>1 DEF Sql, IngestedOnce
    <2>5. QED
      BY <2>3, <2>4 DEF Sql, IngestedOnce
  <1>9. OperationsNamed'
    BY <1>4 DEF Sql, OperationsNamed
  <1>10. WriterOwns'
    <2> SUFFICES ASSUME NEW x \in Workers, Writing(x)'
                 PROVE  /\ operation'[req'[x].op].manifest = req'[x].manifest
                        /\ operation'[req'[x].op].state \in {"running", "succeeded"}
                        /\ req'[x].pc \in RunningPhases => operation'[req'[x].op].state = "running"
      BY DEF WriterOwns, Mine
    <2>1. Writing(x) /\ req'[x] = req[x] /\ req[x].op # id
      BY <1>5
    <2>2. PICK i \in Operations : req[x].op = i
      BY <2>1, WritingBusy
    <2>3. QED
      BY <1>4, <2>1, <2>2 DEF Sql, WriterOwns, Mine
  <1>11. QED
    BY <1>7, <1>8, <1>9, <1>10 DEF Sql

LEMMA AuthorizeKeepsSql ==
  ASSUME TypeOK, Sql, NEW m \in Manifests, AuthorizeManifest(m)
  PROVE  Sql'
  <1>1. UNCHANGED <<operation, receipt, req>> /\ manifest[m] = "pending"
    BY DEF AuthorizeManifest
  <1>2. \A n \in Manifests : manifest'[n] = IF n = m THEN "authorized" ELSE manifest[n]
    BY DEF AuthorizeManifest, TypeOK
  <1>3. \A n \in Manifests : ActiveOn(n)' = ActiveOn(n)
    BY <1>1 DEF ActiveOn
  <1>4. OneWriter'
    <2> SUFFICES ASSUME NEW x \in Workers, Writing(x)'
                 PROVE  /\ \A y \in Workers \ {x} : Writing(y)' => Mine(y)' # Mine(x)'
                        /\ ActiveOn(Mine(x))' \subseteq {req[x].op}'
      BY DEF OneWriter
    <2>1. ActiveOn(Mine(x))' = ActiveOn(Mine(x))
      BY <1>1 DEF ActiveOn, Mine
    <2>2. QED
      BY <1>1, <2>1 DEF Sql, OneWriter, Writing, Doing, Mine
  <1>5. IngestedOnce'
    <2>1. \A i \in Operations : operation[i].state = "succeeded" =>
            operation[i].manifest \in Manifests /\ operation[i].manifest # m
      BY <1>1 DEF Sql, IngestedOnce, OperationsNamed
    <2>2. QED
      BY <1>1, <1>2, <1>3, <2>1 DEF Sql, IngestedOnce
  <1>6. OperationsNamed' /\ WriterOwns'
    BY <1>1 DEF Sql, OperationsNamed, WriterOwns, Writing, Doing, Mine
  <1>7. QED
    BY <1>4, <1>5, <1>6 DEF Sql

\* The steps that leave manifests, operations and receipts alone.
Quiet == UNCHANGED <<manifest, operation, receipt>> /\ Continues

LEMMA RequestUnchanged ==
  ASSUME UNCHANGED req
  PROVE  Continues
  BY DEF Continues, Writing, Doing

LEMMA StartLockQuiet ==
  ASSUME TypeOK, NEW w \in Workers, NEW id \in Operations, NEW m \in Manifests,
         StartLock(w, id, m)
  PROVE  Quiet /\ req' \in [Workers -> Request]
  <1>1. [pc |-> "decide", op |-> id, manifest |-> m, owned |-> {},
         cleanup |-> "reconciliation_required"] \in Busy
    BY PhaseSets DEF Busy
  <1>2. req' \in [Workers -> Request]
    BY <1>1 DEF StartLock, TypeOK, Request
  <1>3. \A x \in Workers : Writing(x)' => req'[x] = req[x] /\ Writing(x)
    BY DEF StartLock, TypeOK, Writing, Doing
  <1>4. QED
    BY <1>2, <1>3 DEF Quiet, Continues, StartLock

LEMMA MovesQuiet ==
  ASSUME TypeOK, NEW w \in Workers, \E r \in Request : Moves(w, r),
         UNCHANGED <<manifest, operation, receipt>>
  PROVE  Quiet /\ req' \in [Workers -> Request]
  BY MovesContinues, MovesOK DEF Quiet

\* What a thread does in the vector store, and the locks it takes.
WriteStep(w) ==
  \/ CheckCollection(w) \/ Upsert(w) \/ VerifyPoints(w, "verify", "approved", "promote")
  \/ Promote(w) \/ VerifyPoints(w, "confirm", "ingested", "receipt") \/ ReadFails(w)
  \/ FinishLock(w) \/ CleanupLock(w) \/ CleanupDecide(w) \/ ReadOwned(w) \/ DeleteOwned(w)

LEMMA WriteStepMoves ==
  ASSUME TypeOK, NEW w \in Workers, WriteStep(w)
  PROVE  \E r \in Request : Moves(w, r) /\ (r.cleanup = req[w].cleanup \/ DeleteOwned(w))
  <1>1. ASSUME CheckCollection(w)
        PROVE  \E r \in Request : Moves(w, r) /\ r.cleanup = req[w].cleanup
    BY <1>1, GotoMoves, PhaseSets DEF CheckCollection, Doing
  <1>2. ASSUME Upsert(w)
        PROVE  \E r \in Request : Moves(w, r) /\ r.cleanup = req[w].cleanup
    BY <1>2, GotoMoves, PhaseSets DEF Upsert, Applied, Doing
  <1>3. ASSUME VerifyPoints(w, "verify", "approved", "promote")
        PROVE  \E r \in Request : Moves(w, r) /\ r.cleanup = req[w].cleanup
    BY <1>3, GotoMoves, PhaseSets DEF VerifyPoints, Doing
  <1>4. ASSUME Promote(w)
        PROVE  \E r \in Request : Moves(w, r) /\ r.cleanup = req[w].cleanup
    BY <1>4, GotoMoves, PhaseSets DEF Promote, Applied, Doing
  <1>5. ASSUME VerifyPoints(w, "confirm", "ingested", "receipt")
        PROVE  \E r \in Request : Moves(w, r) /\ r.cleanup = req[w].cleanup
    BY <1>5, GotoMoves, PhaseSets DEF VerifyPoints, Doing
  <1>6. ASSUME ReadFails(w)
        PROVE  \E r \in Request : Moves(w, r) /\ r.cleanup = req[w].cleanup
    BY <1>6, GotoMoves, PhaseSets DEF ReadFails, Doing
  <1>7. ASSUME FinishLock(w)
        PROVE  \E r \in Request : Moves(w, r) /\ r.cleanup = req[w].cleanup
    BY <1>7, GotoMoves, PhaseSets DEF FinishLock, Doing
  <1>8. ASSUME CleanupLock(w)
        PROVE  \E r \in Request : Moves(w, r) /\ r.cleanup = req[w].cleanup
    BY <1>8, GotoMoves, PhaseSets DEF CleanupLock, Doing
  <1>9. ASSUME CleanupDecide(w)
        PROVE  \E r \in Request : Moves(w, r) /\ r.cleanup = req[w].cleanup
    BY <1>9, GotoMoves, PhaseSets DEF CleanupDecide, SoleOwner, Doing
  <1>10. ASSUME ReadOwned(w)
        PROVE  \E r \in Request : Moves(w, r) /\ r.cleanup = req[w].cleanup
    <2>1. CASE Goto(w, "fail")
      BY <1>10, <2>1, GotoMoves, PhaseSets DEF ReadOwned, Doing
    <2>2. CASE ~Goto(w, "fail")
      <3>1. req[w] \in Busy /\ req[w].pc = "clean"
        BY <1>10, BusyRequest DEF ReadOwned, Doing
      <3>2. PICK S \in SUBSET Points : req' = [req EXCEPT ![w].pc = "delete", ![w].owned = S]
        <4>1. PICK m \in Manifests : req[w].manifest = m
          BY <3>1 DEF Busy
        <4>2. PointsOf[m] \subseteq Points
          BY ConstantsAssumption
        <4>3. QED
          BY <1>10, <2>2, <4>1, <4>2 DEF ReadOwned, Mine
      <3> DEFINE r == [req[w] EXCEPT !.pc = "delete", !.owned = S]
      <3>3. r \in Busy /\ r.op = req[w].op /\ r.manifest = req[w].manifest /\ r.pc = "delete"
            /\ r.cleanup = req[w].cleanup
        BY <3>1, PhaseSets DEF Busy
      <3>4. req' = [req EXCEPT ![w] = r]
        BY <3>2
      <3> HIDE DEF r
      <3>5. QED
        BY <3>1, <3>3, <3>4, PhaseSets DEF Moves, Request
    <2>3. QED
      BY <2>1, <2>2
  <1>11. ASSUME DeleteOwned(w) PROVE \E r \in Request : Moves(w, r)
    <2>1. CASE Goto(w, "fail")
      BY <1>11, <2>1, GotoMoves, PhaseSets DEF DeleteOwned, Doing
    <2>2. CASE ~Goto(w, "fail")
      <3>1. req[w] \in Busy /\ req[w].pc = "delete"
        BY <1>11, BusyRequest DEF DeleteOwned, Doing
      <3>2. req' = [req EXCEPT ![w].pc = "fail", ![w].cleanup = "cleaned"]
        BY <1>11, <2>2 DEF DeleteOwned
      <3> DEFINE r == [req[w] EXCEPT !.pc = "fail", !.cleanup = "cleaned"]
      <3>3. r \in Busy /\ r.op = req[w].op /\ r.manifest = req[w].manifest /\ r.pc = "fail"
        BY <3>1, PhaseSets DEF Busy
      <3>4. req' = [req EXCEPT ![w] = r]
        BY <3>2
      <3> HIDE DEF r
      <3>5. QED
        BY <3>1, <3>3, <3>4, PhaseSets DEF Moves, Request
    <2>3. QED
      BY <2>1, <2>2
  <1>12. QED
    BY <1>1, <1>2, <1>3, <1>4, <1>5, <1>6, <1>7, <1>8, <1>9, <1>10, <1>11 DEF WriteStep

LEMMA MineOK ==
  ASSUME TypeOK, NEW w \in Workers, req[w].pc # "idle"
  PROVE  /\ req[w] \in Busy /\ Mine(w) \in Manifests /\ req[w].op \in Operations
         /\ req[w].owned \subseteq Points
         /\ PointsOf[Mine(w)] \subseteq Points /\ CollectionOf[Mine(w)] \in Collections
  <1>1. PICK m \in Manifests : Mine(w) = m
    BY BusyRequest DEF Busy, Mine
  <1>2. PointsOf[m] \subseteq Points /\ CollectionOf[m] \in Collections
    BY ConstantsAssumption
  <1>3. QED
    BY <1>1, <1>2, BusyRequest DEF Busy

LEMMA WriteStepTypeOK ==
  ASSUME TypeOK, NEW w \in Workers, WriteStep(w)
  PROVE  TypeOK'
  <1>1. req' \in [Workers -> Request]
    BY WriteStepMoves, MovesOK
  <1>2. UNCHANGED <<manifest, current, operation, receipt, armed, faults>>
    BY DEF WriteStep, CheckCollection, Upsert, VerifyPoints, Promote, ReadFails, FinishLock,
           CleanupLock, CleanupDecide, ReadOwned, DeleteOwned
  <1>3. store' \in [Collections -> [Points -> PointStates]]
    <2>1. CASE Upsert(w)
      <3>1. PICK S \in SUBSET PointsOf[Mine(w)] : Put(w, S, Staged(Mine(w)))
        BY <2>1 DEF Upsert
      <3>2. req[w].pc # "idle"
        BY <2>1 DEF Upsert, Doing
      <3>3. PICK m \in Manifests : Mine(w) = m
        BY <3>2, MineOK
      <3>4. PICK F \in [PointStates -> PointStates] : F = Staged(m)
        BY PointMaps
      <3>5. Put(w, S, F) /\ S \in SUBSET Points
        BY <3>1, <3>2, <3>3, <3>4, MineOK
      <3>6. QED
        BY <3>2, <3>5, PutOK
    <2>2. CASE Promote(w)
      <3>1. PICK S \in SUBSET PointsOf[Mine(w)] : Put(w, S, Visible)
        BY <2>2 DEF Promote
      <3>2. req[w].pc # "idle"
        BY <2>2 DEF Promote, Doing
      <3>3. PICK F \in [PointStates -> PointStates] : F = Visible
        BY <3>2, MineOK, PointMaps
      <3>4. Put(w, S, F) /\ S \in SUBSET Points
        BY <3>1, <3>2, <3>3, MineOK
      <3>5. QED
        BY <3>2, <3>4, PutOK
    <2>3. CASE DeleteOwned(w)
      <3>1. PICK S \in SUBSET req[w].owned : Put(w, S, Gone)
        BY <2>3 DEF DeleteOwned
      <3>2. req[w].pc # "idle"
        BY <2>3 DEF DeleteOwned, Doing
      <3>3. PICK F \in [PointStates -> PointStates] : F = Gone
        BY <3>2, MineOK, PointMaps
      <3>4. Put(w, S, F) /\ S \in SUBSET Points
        BY <3>1, <3>2, <3>3, MineOK
      <3>5. QED
        BY <3>2, <3>4, PutOK
    <2>4. CASE ~Upsert(w) /\ ~Promote(w) /\ ~DeleteOwned(w)
      <3>1. UNCHANGED store
        BY <2>4 DEF WriteStep, CheckCollection, VerifyPoints, ReadFails, FinishLock,
                    CleanupLock, CleanupDecide, ReadOwned
      <3>2. QED
        BY <3>1 DEF TypeOK
    <2>5. QED
      BY <2>1, <2>2, <2>3, <2>4
  <1>4. QED
    BY <1>1, <1>2, <1>3 DEF TypeOK, Request

LEMMA StartDecideOK ==
  ASSUME TypeOK, Sql, NEW w \in Workers, StartDecide(w)
  PROVE  TypeOK' /\ Sql' /\ UNCHANGED <<store, armed>>
  <1>1. req[w] \in Busy /\ req[w].pc = "decide"
    BY BusyRequest DEF StartDecide, Doing
  <1>2. PICK m \in Manifests, id \in Operations : req[w].manifest = m /\ req[w].op = id
    BY <1>1 DEF Busy
  <1>3. CASE Startable(w)
    <2>1. /\ operation[id].state = "none" /\ manifest[m] = "authorized"
          /\ ActiveOn(m) = {}
      BY <1>2, <1>3 DEF Startable, Fresh, Mine
    <2>2. /\ operation' = [operation EXCEPT ![id] = [state |-> "running", manifest |-> m]]
          /\ UNCHANGED <<manifest, current, receipt, armed, store>>
          /\ Commits(Goto(w, "check"), Leave(w))
      BY <1>2, <1>3 DEF StartDecide, Mine
    <2>3. faults' \in 0..MaxFaults /\ (Goto(w, "check") \/ Leave(w))
      BY <2>2, ConstantsAssumption DEF Commits, TypeOK
    <2>4. PICK r \in Request :
            req' = [req EXCEPT ![w] = r] /\ (r = Idle \/ (r.op = id /\ r.manifest = m))
      <3>1. CASE Leave(w)
        BY <3>1 DEF Leave, Request
      <3>2. CASE Goto(w, "check")
        <4> DEFINE r == [req[w] EXCEPT !.pc = "check"]
        <4>1. r \in Busy /\ r.op = id /\ r.manifest = m
          BY <1>1, <1>2, PhaseSets DEF Busy
        <4>2. req' = [req EXCEPT ![w] = r]
          BY <3>2 DEF Goto
        <4> HIDE DEF r
        <4>3. QED
          BY <4>1, <4>2 DEF Request
      <3>3. QED
        BY <2>3, <3>1, <3>2
    <2>5. Sql'
      BY <1>1, <1>2, <2>1, <2>2, <2>4, StartKeepsSql
    <2>6. req' \in [Workers -> Request]
      BY <2>4 DEF TypeOK, Request
    <2>7. operation' \in [Operations -> [state : States, manifest : Manifests \cup {None}]]
      BY <2>2 DEF TypeOK, States
    <2>8. QED
      BY <2>2, <2>3, <2>5, <2>6, <2>7 DEF TypeOK, Request
  <1>4. CASE ~Startable(w)
    <2>1. Leave(w) /\ UNCHANGED <<manifest, current, operation, receipt, armed, store, faults>>
      BY <1>4 DEF StartDecide
    <2>2. Quiet /\ req' \in [Workers -> Request]
      BY <2>1, LeaveMoves, MovesQuiet
    <2>3. Sql'
      BY <2>1, <2>2, ContinuesKeepsSql DEF Quiet
    <2>4. QED
      BY <2>1, <2>2, <2>3 DEF TypeOK, Request
  <1>5. QED
    BY <1>3, <1>4

LEMMA FinishCommitOK ==
  ASSUME TypeOK, Sql, NEW w \in Workers, FinishCommit(w)
  PROVE  /\ TypeOK' /\ Sql' /\ UNCHANGED <<store, armed>>
         /\ \E r \in Request :
              req' = [req EXCEPT ![w] = r] /\ (r = Idle \/ (r.pc = "preflight" /\ r.cleanup = req[w].cleanup))
  <1>1. req[w] \in Busy /\ req[w].pc = "finalize"
    BY BusyRequest DEF FinishCommit, Doing
  <1>2. PICK m \in Manifests, id \in Operations : req[w].manifest = m /\ req[w].op = id
    BY <1>1 DEF Busy
  <1>3. CASE Finalizable(w)
    <2>1. /\ operation[id].state = "running" /\ manifest[m] = "authorized"
          /\ \A n \in Manifests : CorpusOf[n] = CorpusOf[m] => manifest[n] # "ingested"
      BY <1>2, <1>3 DEF Finalizable, Mine
    <2>2. /\ manifest' = [manifest EXCEPT ![m] = "ingested"]
          /\ receipt' = [receipt EXCEPT ![m] = id]
          /\ operation' = [operation EXCEPT ![id].state = "succeeded"]
          /\ Commits(Leave(w), Goto(w, "preflight"))
          /\ UNCHANGED <<current, armed, store>>
      BY <1>2, <1>3 DEF FinishCommit, Mine
    <2>3. faults' \in 0..MaxFaults /\ (Goto(w, "preflight") \/ Leave(w))
      BY <2>2, ConstantsAssumption DEF Commits, TypeOK
    <2>4. PICK r \in Request :
            /\ req' = [req EXCEPT ![w] = r]
            /\ r = Idle \/ (r.op = id /\ r.manifest = m /\ r.pc = "preflight" /\ r.cleanup = req[w].cleanup)
      <3>1. CASE Leave(w)
        BY <3>1 DEF Leave, Request
      <3>2. CASE Goto(w, "preflight")
        <4> DEFINE r == [req[w] EXCEPT !.pc = "preflight"]
        <4>1. r \in Busy /\ r.op = id /\ r.manifest = m /\ r.pc = "preflight" /\ r.cleanup = req[w].cleanup
          BY <1>1, <1>2, PhaseSets DEF Busy
        <4>2. req' = [req EXCEPT ![w] = r]
          BY <3>2 DEF Goto
        <4> HIDE DEF r
        <4>3. QED
          BY <4>1, <4>2 DEF Request
      <3>3. QED
        BY <2>3, <3>1, <3>2
    <2>5. r = Idle \/ (r.op = id /\ r.manifest = m /\ r.pc \notin RunningPhases)
      BY <2>4, PhaseSets
    <2>6. Writing(w)
      BY <1>1, PhaseSets DEF Writing, Doing
    <2>7. Sql'
      BY <1>2, <2>1, <2>2, <2>4, <2>5, <2>6, FinishKeepsSql
    <2>8. req' \in [Workers -> Request]
      BY <2>4 DEF TypeOK, Request
    <2>9. /\ operation' \in [Operations -> [state : States, manifest : Manifests \cup {None}]]
          /\ receipt' \in [Manifests -> Operations \cup {None}]
          /\ manifest' \in [Manifests -> {"pending", "authorized", "ingested"}]
      BY <2>2 DEF TypeOK, States
    <2>10. QED
      BY <2>2, <2>3, <2>4, <2>7, <2>8, <2>9 DEF TypeOK, Request
  <1>4. CASE ~Finalizable(w)
    <2>1. Goto(w, "preflight") /\ UNCHANGED <<manifest, current, operation, receipt, armed, store, faults>>
      BY <1>4 DEF FinishCommit
    <2>2. PICK r \in Request : Moves(w, r) /\ r.pc = "preflight" /\ r.cleanup = req[w].cleanup
      BY <1>1, <2>1, GotoMoves, PhaseSets
    <2>3. Quiet /\ req' \in [Workers -> Request]
      BY <2>1, <2>2, MovesQuiet
    <2>4. Sql'
      BY <2>1, <2>3, ContinuesKeepsSql DEF Quiet
    <2>5. TypeOK'
      BY <2>1, <2>3 DEF TypeOK, Request
    <2>6. QED
      BY <2>1, <2>2, <2>4, <2>5 DEF Moves
  <1>5. QED
    BY <1>3, <1>4

LEMMA FinishFailedOK ==
  ASSUME TypeOK, Sql, NEW w \in Workers, FinishFailed(w)
  PROVE  TypeOK' /\ Sql' /\ UNCHANGED <<store, armed>>
  <1>1. req[w] \in Busy /\ req[w].pc = "fail"
    BY BusyRequest DEF FinishFailed, Doing
  <1>2. PICK id \in Operations : req[w].op = id
    BY <1>1 DEF Busy
  <1>3. PICK s \in {"failed_cleaned", "reconciliation_required"} :
          s = IF req[w].cleanup = "cleaned" THEN "failed_cleaned" ELSE "reconciliation_required"
    OBVIOUS
  <1>4. /\ operation' = [operation EXCEPT ![id].state = IF @ # "running" THEN @ ELSE s]
        /\ req' = [req EXCEPT ![w] = Idle]
        /\ UNCHANGED <<manifest, current, receipt, armed, store, faults>>
    BY <1>2, <1>3 DEF FinishFailed, Leave
  <1>5. Writing(w)
    BY <1>1, PhaseSets DEF Writing, Doing
  <1>6. Sql'
    BY <1>2, <1>4, <1>5, FailKeepsSql
  <1>7. operation' \in [Operations -> [state : States, manifest : Manifests \cup {None}]]
    BY <1>4 DEF TypeOK, States
  <1>8. QED
    BY <1>4, <1>6, <1>7 DEF TypeOK

\* A thread is thrown out of a transaction, or dies.
Fault(w) ==
  /\ Raise(w) \/ Leave(w)
  /\ faults' \in 0..MaxFaults
  /\ UNCHANGED <<manifest, current, operation, receipt, armed, store>>

LEMMA FaultMoves ==
  ASSUME TypeOK, NEW w \in Workers, Fault(w)
  PROVE  \E r \in Request : Moves(w, r) /\ Settled(w, r)
  BY RaiseMoves, LeaveMoves DEF Fault

LEMMA FaultOK ==
  ASSUME TypeOK, Sql, NEW w \in Workers, Fault(w)
  PROVE  TypeOK' /\ Sql' /\ UNCHANGED <<store, armed>>
  <1>1. \E r \in Request : Moves(w, r)
    BY FaultMoves
  <1>2. Quiet /\ req' \in [Workers -> Request]
    BY <1>1, MovesQuiet DEF Fault
  <1>3. Sql'
    BY <1>2, ContinuesKeepsSql DEF Quiet
  <1>4. QED
    BY <1>2, <1>3, RequestOnly DEF Fault

LEMMA FaultActions ==
  ASSUME TypeOK, NEW w \in Workers, NEW x \in Workers,
         DatabaseError(w) \/ Crash(w) \/ Deadlock(w, x)
  PROVE  Fault(w) \/ Fault(x)
  BY ConstantsAssumption DEF DatabaseError, Crash, Deadlock, Fault, TypeOK

\* The steps outside any request.
LEMMA EnvironmentOK ==
  ASSUME TypeOK, Sql, NEW m \in Manifests,
         AuthorizeManifest(m) \/ ApprovalsChange(m) \/ Deploy(m)
  PROVE  TypeOK' /\ Sql' /\ UNCHANGED <<store, req>>
  <1>1. CASE AuthorizeManifest(m)
    <2>1. TypeOK' /\ UNCHANGED <<store, req>>
      BY <1>1 DEF AuthorizeManifest, TypeOK
    <2>2. QED
      BY <1>1, <2>1, AuthorizeKeepsSql
  <1>2. CASE ApprovalsChange(m) \/ Deploy(m)
    <2>1. UNCHANGED <<manifest, operation, receipt, store, req, faults>>
      BY <1>2 DEF ApprovalsChange, Deploy
    <2>2. Sql'
      BY <2>1, RequestUnchanged, ContinuesKeepsSql
    <2>3. current' \subseteq Manifests
      BY <1>2 DEF ApprovalsChange, Deploy, TypeOK
    <2>4. armed' \in [Collections -> Manifests]
      BY <1>2, ConstantsAssumption DEF ApprovalsChange, Deploy, TypeOK
    <2>5. TypeOK'
      BY <2>1, <2>3, <2>4 DEF TypeOK
    <2>6. QED
      BY <2>1, <2>2, <2>5
  <1>3. QED
    BY <1>1, <1>2

LEMMA InitSql == Init => TypeOK /\ Sql
  <1> SUFFICES ASSUME Init PROVE TypeOK /\ Sql
    OBVIOUS
  <1>1. TypeOK
    BY ConstantsAssumption DEF Init, TypeOK, States, PointStates
  <1>2. \A w \in Workers : ~Writing(w)
    BY PhaseSets DEF Init, Writing, Doing, Idle
  <1>3. Sql
    BY <1>2 DEF Init, Sql, OneWriter, IngestedOnce, OperationsNamed, WriterOwns
  <1>4. QED
    BY <1>1, <1>3

LEMMA NextSql == TypeOK /\ Sql /\ [Next]_vars => TypeOK' /\ Sql'
  <1> SUFFICES ASSUME TypeOK, Sql, [Next]_vars PROVE TypeOK' /\ Sql'
    OBVIOUS
  <1>1. CASE UNCHANGED vars
    <2>1. UNCHANGED <<manifest, current, operation, receipt, armed, store, req, faults>>
      BY <1>1 DEF vars
    <2>2. TypeOK'
      BY <2>1 DEF TypeOK
    <2>3. QED
      BY <2>1, <2>2, RequestUnchanged, ContinuesKeepsSql
  <1>2. ASSUME NEW m \in Manifests, AuthorizeManifest(m) \/ ApprovalsChange(m) \/ Deploy(m)
        PROVE  TypeOK' /\ Sql'
    BY <1>2, EnvironmentOK
  <1>3. ASSUME NEW w \in Workers, NEW id \in Operations, NEW m \in Manifests, StartLock(w, id, m)
        PROVE  TypeOK' /\ Sql'
    <2>1. Quiet /\ req' \in [Workers -> Request]
      BY <1>3, StartLockQuiet
    <2>2. UNCHANGED <<manifest, current, operation, receipt, armed, store, faults>>
      BY <1>3 DEF StartLock
    <2>3. QED
      BY <2>1, <2>2, ContinuesKeepsSql DEF Quiet, TypeOK, Request
  <1>4. ASSUME NEW w \in Workers, WriteStep(w) PROVE TypeOK' /\ Sql'
    <2>1. UNCHANGED <<manifest, operation, receipt>>
      BY <1>4 DEF WriteStep, CheckCollection, Upsert, VerifyPoints, Promote, ReadFails,
                  FinishLock, CleanupLock, CleanupDecide, ReadOwned, DeleteOwned
    <2>2. Quiet
      BY <1>4, <2>1, WriteStepMoves, MovesQuiet
    <2>3. QED
      BY <1>4, <2>2, WriteStepTypeOK, ContinuesKeepsSql DEF Quiet
  <1>5. ASSUME NEW w \in Workers, Step(w) PROVE TypeOK' /\ Sql'
    <2>1. CASE StartDecide(w)
      BY <2>1, StartDecideOK
    <2>2. CASE FinishCommit(w)
      BY <2>2, FinishCommitOK
    <2>3. CASE FinishFailed(w)
      BY <2>3, FinishFailedOK
    <2>4. CASE WriteStep(w)
      BY <1>4, <2>4
    <2>5. QED
      BY <1>5, <2>1, <2>2, <2>3, <2>4 DEF Step, WriteStep
  <1>6. ASSUME NEW w \in Workers, NEW x \in Workers,
               DatabaseError(w) \/ Crash(w) \/ Deadlock(w, x)
        PROVE  TypeOK' /\ Sql'
    BY <1>6, FaultActions, FaultOK
  <1>7. QED
    BY <1>1, <1>2, <1>3, <1>5, <1>6 DEF Next

\* Every reachable state of tables, collections and threads is well-typed.
THEOREM TypeCorrect == Spec => []TypeOK
  BY InitSql, NextSql, PTL DEF Spec

\* ingest_manifest: at most one thread writes, finalizes or cleans a manifest, and
\* no other operation on it is active meanwhile.
THEOREM WritersExcludeEachOther == Spec => []OneWriter
  <1>1. Sql => OneWriter
    BY DEF Sql
  <1>2. QED
    BY <1>1, InitSql, NextSql, PTL DEF Spec

\* _finish_successful_ingestion: each ingested manifest has the one operation of
\* its receipt, and a corpus identity of its own.
THEOREM ManifestsAreIngestedOnce == Spec => []IngestedOnce
  <1>1. Sql => IngestedOnce
    BY DEF Sql
  <1>2. QED
    BY <1>1, InitSql, NextSql, PTL DEF Spec

-----------------------------------------------------------------------------
(* The points left behind.                                                  *)

PointsHome ==
  \A c \in Collections, p \in Points : store[c][p] # None =>
    /\ store[c][p].owner \in Manifests
    /\ p \in PointsOf[store[c][p].owner] /\ c = CollectionOf[store[c][p].owner]

NoneOf(m) ==
  \A c \in Collections, p \in Points : store[c][p] # None => store[c][p].owner # m

\* A thread that is to record a clean failure has left nothing.
CleanedIsClean ==
  \A w \in Workers : req[w] # Idle /\ req[w].cleanup = "cleaned" =>
    req[w].pc = "fail" /\ NoneOf(Mine(w))

Tidy == NoStrayPoints /\ PointsHome /\ CleanedIsClean

\* All the points there were there before, but for points of m.
OnlyAdds(m) ==
  \A c \in Collections, p \in Points : store'[c][p] # None =>
    \/ store[c][p] # None /\ store'[c][p].owner = store[c][p].owner
    \/ store'[c][p].owner = m /\ p \in PointsOf[m] /\ c = CollectionOf[m]

LEMMA PlacedPoint ==
  ASSUME TypeOK, NEW c \in Collections, NEW p \in Points, store[c][p] # None
  PROVE  store[c][p] \in Placed /\ store[c][p].owner \in Manifests
  <1>1. store[c][p] \in Placed
    BY DEF TypeOK, PointStates
  <1>2. QED
    BY <1>1 DEF Placed

\* A thread puts points of its own manifest only, and only while its operation runs.
LEMMA TidyStep ==
  ASSUME TypeOK, Sql, Tidy, NEW w \in Workers, NEW m \in Manifests, NEW r \in Request,
         req[w] \in Busy, req[w].manifest = m, req[w].pc \in RunningPhases,
         OnlyAdds(m), UNCHANGED <<manifest, operation>>,
         req' = [req EXCEPT ![w] = r],
         r # Idle => r.manifest = m /\ (r.cleanup = "cleaned" => r.pc = "fail" /\ NoneOf(m)')
  PROVE  Tidy'
  <1>1. Writing(w) /\ Mine(w) = m
    BY PhaseSets DEF Writing, Doing, Mine
  <1>2. ActiveOn(m) # {}
    <2>1. PICK id \in Operations : req[w].op = id
      BY DEF Busy
    <2>2. operation[id].manifest = m /\ operation[id].state = "running"
      BY <1>1, <2>1 DEF Sql, WriterOwns
    <2>3. QED
      BY <2>2 DEF ActiveOn, Active
  <1>3. \A n \in Manifests : ActiveOn(n)' = ActiveOn(n)
    BY DEF ActiveOn
  <1>4. PointsHome'
    BY DEF OnlyAdds, Tidy, PointsHome
  <1>5. NoStrayPoints'
    <2> SUFFICES ASSUME NEW c \in Collections, NEW p \in Points, store'[c][p] # None,
                        manifest'[store'[c][p].owner] # "ingested"
                 PROVE  ActiveOn(store[c][p].owner)' # {}
      BY DEF NoStrayPoints
    <2>1. PICK n \in Manifests : store'[c][p].owner = n
      BY <1>4 DEF PointsHome
    <2>2. CASE n = m
      BY <1>2, <1>3, <2>1, <2>2 DEF ActiveOn
    <2>3. CASE n # m
      <3>1. store[c][p] # None /\ store[c][p].owner = n
        BY <2>1, <2>3 DEF OnlyAdds
      <3>2. ActiveOn(store[c][p].owner) # {}
        BY <2>1, <3>1 DEF Tidy, NoStrayPoints
      <3>3. ActiveOn(n) # {}
        BY <3>1, <3>2
      <3>4. QED
        BY <1>3, <2>1, <3>3 DEF ActiveOn
    <2>4. QED
      BY <2>2, <2>3
  <1>6. CleanedIsClean'
    <2> SUFFICES ASSUME NEW x \in Workers, req'[x] # Idle, req'[x].cleanup = "cleaned"
                 PROVE  req'[x].pc = "fail" /\ NoneOf(Mine(x))'
      BY DEF CleanedIsClean
    <2>1. req'[x] = IF x = w THEN r ELSE req[x]
      BY DEF TypeOK
    <2>2. CASE x = w
      BY <2>1, <2>2 DEF NoneOf, Mine
    <2>3. CASE x # w
      <3>1. req[x].pc = "fail" /\ NoneOf(Mine(x)) /\ req'[x] = req[x]
        BY <2>1, <2>3 DEF Tidy, CleanedIsClean
      <3>2. Writing(x)
        BY <3>1, PhaseSets DEF Writing, Doing
      <3>3. Mine(x) # m
        BY <1>1, <2>3, <3>2 DEF Sql, OneWriter
      <3>4. \A c \in Collections, p \in Points :
              store'[c][p] # None => store'[c][p].owner # req[x].manifest
        BY <3>1, <3>3 DEF OnlyAdds, NoneOf, Mine
      <3>5. QED
        BY <3>1, <3>4 DEF NoneOf, Mine
    <2>4. QED
      BY <2>2, <2>3
  <1>7. QED
    BY <1>4, <1>5, <1>6 DEF Tidy

\* A step that leaves the collections alone and takes no reason for a point away.
LEMMA TidyElsewhere ==
  ASSUME TypeOK, Tidy, UNCHANGED store,
         \A n \in Manifests : ActiveOn(n) # {} =>
           ActiveOn(n)' # {} \/ manifest'[n] = "ingested" \/ NoneOf(n),
         \A n \in Manifests : manifest[n] = "ingested" => manifest'[n] = "ingested",
         \A x \in Workers : req'[x] # Idle /\ req'[x].cleanup = "cleaned" => req'[x] = req[x]
  PROVE  Tidy'
  <1>1. PointsHome'
    BY DEF Tidy, PointsHome
  <1>2. NoStrayPoints'
    <2> SUFFICES ASSUME NEW c \in Collections, NEW p \in Points, store'[c][p] # None,
                        manifest'[store'[c][p].owner] # "ingested"
                 PROVE  ActiveOn(store[c][p].owner)' # {}
      BY DEF NoStrayPoints
    <2>1. PICK n \in Manifests : store[c][p].owner = n
      BY PlacedPoint
    <2>2. ActiveOn(store[c][p].owner) # {}
      BY <2>1 DEF Tidy, NoStrayPoints
    <2>3. ActiveOn(n) # {} /\ ~NoneOf(n)
      BY <2>1, <2>2 DEF NoneOf
    <2>4. ActiveOn(n)' # {}
      BY <2>1, <2>3
    <2>5. QED
      BY <2>1, <2>4 DEF ActiveOn
  <1>3. CleanedIsClean'
    BY DEF Tidy, CleanedIsClean, NoneOf, Mine
  <1>4. QED
    BY <1>1, <1>2, <1>3 DEF Tidy

LEMMA PutEffect ==
  ASSUME TypeOK, NEW w \in Workers, NEW m \in Manifests, req[w].manifest = m,
         NEW S \in SUBSET Points, NEW F \in [PointStates -> PointStates], Put(w, S, F)
  PROVE  \A c \in Collections, p \in Points :
           /\ store[c][p] \in PointStates
           /\ store'[c][p] = IF c = CollectionOf[m] /\ p \in S THEN F[store[c][p]] ELSE store[c][p]
  <1>1. PICK d \in Collections : CollectionOf[m] = d
    BY ConstantsAssumption
  <1>2. store' = [store EXCEPT ![d] = [p \in Points |-> IF p \in S THEN F[@[p]] ELSE @[p]]]
    BY <1>1 DEF Put, Mine
  <1>3. QED
    BY <1>1, <1>2 DEF TypeOK

\* What the three writing requests do to a point.
LEMMA UpsertEffect ==
  ASSUME TypeOK, NEW w \in Workers, NEW m \in Manifests, req[w].manifest = m, Upsert(w)
  PROVE  \A c \in Collections, p \in Points :
           \/ store'[c][p] = store[c][p]
           \/ /\ c = CollectionOf[m] /\ p \in PointsOf[m]
              /\ store'[c][p] = [owner |-> m, status |-> "approved"]
  <1>1. PICK S \in SUBSET PointsOf[m] : Put(w, S, Staged(m))
    BY DEF Upsert, Mine
  <1>2. S \in SUBSET Points
    BY ConstantsAssumption
  <1>3. PICK F \in [PointStates -> PointStates] :
          F = Staged(m) /\ \A x \in PointStates : F[x] = [owner |-> m, status |-> "approved"]
    BY PointMaps DEF Staged
  <1>4. Put(w, S, F)
    BY <1>1, <1>3
  <1>5. \A c \in Collections, p \in Points :
           /\ store[c][p] \in PointStates
           /\ store'[c][p] = IF c = CollectionOf[m] /\ p \in S THEN F[store[c][p]] ELSE store[c][p]
    BY <1>2, <1>4, PutEffect
  <1>6. QED
    BY <1>3, <1>5

LEMMA PromoteEffect ==
  ASSUME TypeOK, NEW w \in Workers, NEW m \in Manifests, req[w].manifest = m, Promote(w)
  PROVE  \A c \in Collections, p \in Points :
           \/ store'[c][p] = store[c][p]
           \/ /\ c = CollectionOf[m] /\ p \in PointsOf[m] /\ store[c][p] # None
              /\ store'[c][p] # None /\ store'[c][p].owner = store[c][p].owner
  <1>1. PICK S \in SUBSET PointsOf[m] : Put(w, S, Visible)
    BY DEF Promote, Mine
  <1>2. S \in SUBSET Points
    BY ConstantsAssumption
  <1>3. \A x \in Placed : [x EXCEPT !.status = "ingested"] \in Placed
                          /\ [x EXCEPT !.status = "ingested"].owner = x.owner
    BY DEF Placed
  <1>4. PICK F \in [PointStates -> PointStates] :
          F = Visible /\ F[None] = None
          /\ \A x \in Placed : F[x] = [x EXCEPT !.status = "ingested"]
    BY PointMaps, NoneAssumption DEF Visible, PointStates
  <1>5. Put(w, S, F)
    BY <1>1, <1>4
  <1>6. \A c \in Collections, p \in Points :
           /\ store[c][p] \in PointStates
           /\ store'[c][p] = IF c = CollectionOf[m] /\ p \in S THEN F[store[c][p]] ELSE store[c][p]
    BY <1>2, <1>5, PutEffect
  <1>7. ASSUME NEW c \in Collections, NEW p \in Points
        PROVE  \/ store'[c][p] = store[c][p]
               \/ /\ c = CollectionOf[m] /\ p \in PointsOf[m] /\ store[c][p] # None
                  /\ store'[c][p] # None /\ store'[c][p].owner = store[c][p].owner
    <2>1. CASE store[c][p] = None \/ ~(c = CollectionOf[m] /\ p \in S)
      BY <1>4, <1>6, <2>1
    <2>2. CASE store[c][p] # None /\ c = CollectionOf[m] /\ p \in S
      <3>1. store[c][p] \in Placed
        BY <1>6, <2>2 DEF PointStates
      <3>2. store'[c][p] = [store[c][p] EXCEPT !.status = "ingested"]
        BY <1>4, <1>6, <2>2, <3>1
      <3>3. store'[c][p] \in Placed /\ store'[c][p].owner = store[c][p].owner
        BY <1>3, <3>1, <3>2
      <3>4. QED
        BY <2>2, <3>3, NoneAssumption
    <2>3. QED
      BY <2>1, <2>2
  <1>8. QED
    BY <1>7

LEMMA DeleteEffect ==
  ASSUME TypeOK, NEW w \in Workers, NEW m \in Manifests, req[w].manifest = m,
         req[w] \in Busy, DeleteOwned(w)
  PROVE  \A c \in Collections, p \in Points :
           \/ store'[c][p] = store[c][p]
           \/ c = CollectionOf[m] /\ p \in req[w].owned /\ store'[c][p] = None
  <1>1. PICK S \in SUBSET req[w].owned : Put(w, S, Gone)
    BY DEF DeleteOwned
  <1>2. S \in SUBSET Points
    BY DEF Busy
  <1>3. PICK F \in [PointStates -> PointStates] : F = Gone /\ \A x \in PointStates : F[x] = None
    BY PointMaps DEF Gone
  <1>4. Put(w, S, F)
    BY <1>1, <1>3
  <1>5. \A c \in Collections, p \in Points :
           /\ store[c][p] \in PointStates
           /\ store'[c][p] = IF c = CollectionOf[m] /\ p \in S THEN F[store[c][p]] ELSE store[c][p]
    BY <1>2, <1>4, PutEffect
  <1>6. QED
    BY <1>3, <1>5

LEMMA NothingCleaned ==
  ASSUME TypeOK, Tidy, NEW w \in Workers, NEW r \in Request, req' = [req EXCEPT ![w] = r],
         r = Idle \/ (req[w] \in Busy /\ req[w].pc # "fail" /\ r.cleanup = req[w].cleanup)
  PROVE  \A x \in Workers : req'[x] # Idle /\ req'[x].cleanup = "cleaned" => req'[x] = req[x]
  <1> SUFFICES ASSUME NEW x \in Workers, req'[x] # Idle, req'[x].cleanup = "cleaned"
               PROVE  req'[x] = req[x]
    OBVIOUS
  <1>1. req'[x] = IF x = w THEN r ELSE req[x]
    BY DEF TypeOK
  <1>2. CASE x = w
    <2>1. req[w] \in Busy /\ req[w].pc # "fail" /\ req[w].cleanup = "cleaned"
      BY <1>1, <1>2
    <2>2. req[w] # Idle
      BY <2>1, PhaseSets DEF Busy, Idle
    <2>3. QED
      BY <2>1, <2>2 DEF Tidy, CleanedIsClean
  <1>3. QED
    BY <1>1, <1>2

LEMMA SameActive ==
  ASSUME UNCHANGED operation
  PROVE  \A n \in Manifests : ActiveOn(n)' = ActiveOn(n)
  BY DEF ActiveOn

\* A thread that moves on without writing, or leaves.
LEMMA TidyMoves ==
  ASSUME TypeOK, Tidy, NEW w \in Workers, NEW r \in Request, Moves(w, r), Settled(w, r),
         UNCHANGED <<store, manifest, operation>>
  PROVE  Tidy'
  <1>1. \A x \in Workers : req'[x] # Idle /\ req'[x].cleanup = "cleaned" => req'[x] = req[x]
    BY NothingCleaned DEF Moves, Settled
  <1>2. QED
    BY <1>1, SameActive, TidyElsewhere

LEMMA TidyPut ==
  ASSUME TypeOK, Sql, Tidy, NEW w \in Workers, Upsert(w) \/ Promote(w)
  PROVE  Tidy'
  <1>1. req[w] \in Busy /\ req[w].pc \in {"upsert", "promote"}
    BY BusyRequest DEF Upsert, Promote, Doing
  <1>2. PICK m \in Manifests : req[w].manifest = m
    BY <1>1 DEF Busy
  <1>3. OnlyAdds(m)
    <2>1. CASE Upsert(w)
      <3>1. \A c \in Collections, p \in Points :
              \/ store'[c][p] = store[c][p]
              \/ /\ c = CollectionOf[m] /\ p \in PointsOf[m]
                 /\ store'[c][p] = [owner |-> m, status |-> "approved"]
        BY <1>2, <2>1, UpsertEffect
      <3>2. QED
        BY <3>1 DEF OnlyAdds
    <2>2. CASE Promote(w)
      BY <1>2, <2>2, PromoteEffect DEF OnlyAdds
    <2>3. QED
      BY <2>1, <2>2
  <1>4. PICK r \in Request : Moves(w, r) /\ r.cleanup = req[w].cleanup
    BY <1>1, WriteStepMoves DEF WriteStep, DeleteOwned, Doing
  <1>5. req[w].cleanup # "cleaned" /\ req[w] # Idle
    BY <1>1, PhaseSets DEF Tidy, CleanedIsClean, Idle
  <1>6. UNCHANGED <<manifest, operation>>
    BY DEF Upsert, Promote
  <1>7. /\ req' = [req EXCEPT ![w] = r]
        /\ r # Idle => r.manifest = m /\ (r.cleanup = "cleaned" => r.pc = "fail" /\ NoneOf(m)')
    BY <1>2, <1>4, <1>5 DEF Moves
  <1>8. QED
    BY <1>1, <1>2, <1>3, <1>6, <1>7, PhaseSets, TidyStep

LEMMA TidyDelete ==
  ASSUME TypeOK, Sql, Tidy, NEW w \in Workers, DeleteOwned(w)
  PROVE  Tidy'
  <1>1. req[w] \in Busy /\ req[w].pc = "delete"
    BY BusyRequest DEF DeleteOwned, Doing
  <1>2. PICK m \in Manifests : req[w].manifest = m
    BY <1>1 DEF Busy
  <1>3. \A c \in Collections, p \in Points :
           \/ store'[c][p] = store[c][p]
           \/ c = CollectionOf[m] /\ p \in req[w].owned /\ store'[c][p] = None
    BY <1>1, <1>2, DeleteEffect
  <1>4. OnlyAdds(m)
    BY <1>3 DEF OnlyAdds
  <1>5. req[w].cleanup # "cleaned" /\ req[w] # Idle
    BY <1>1, PhaseSets DEF Tidy, CleanedIsClean, Idle
  <1>6. UNCHANGED <<manifest, operation>>
    BY DEF DeleteOwned
  <1>7. CASE Goto(w, "fail")
    <2>1. PICK r \in Request : Moves(w, r) /\ r.cleanup = req[w].cleanup
      BY <1>1, <1>7, GotoMoves, PhaseSets
    <2>2. /\ req' = [req EXCEPT ![w] = r]
          /\ r # Idle => r.manifest = m /\ (r.cleanup = "cleaned" => r.pc = "fail" /\ NoneOf(m)')
      BY <1>2, <1>5, <2>1 DEF Moves
    <2>3. QED
      BY <1>1, <1>2, <1>4, <1>6, <2>2, PhaseSets, TidyStep
  <1>8. CASE ~Goto(w, "fail")
    <2>1. /\ \A p \in PointsOf[m] : store'[CollectionOf[m]][p] = None
          /\ req' = [req EXCEPT ![w].pc = "fail", ![w].cleanup = "cleaned"]
      BY <1>2, <1>8 DEF DeleteOwned, Cleaned, Mine
    <2>2. NoneOf(m)'
      <3> SUFFICES ASSUME NEW c \in Collections, NEW p \in Points, store'[c][p] # None,
                          store'[c][p].owner = m
                   PROVE  FALSE
        BY DEF NoneOf
      <3>1. store[c][p] # None /\ store[c][p].owner = m
        BY <1>3
      <3>2. p \in PointsOf[m] /\ c = CollectionOf[m]
        BY <3>1 DEF Tidy, PointsHome
      <3>3. QED
        BY <2>1, <3>2
    <2> DEFINE r == [req[w] EXCEPT !.pc = "fail", !.cleanup = "cleaned"]
    <2>3. r \in Busy /\ r.manifest = m /\ r.pc = "fail"
      BY <1>1, <1>2, PhaseSets DEF Busy
    <2>4. req' = [req EXCEPT ![w] = r]
      BY <2>1
    <2> HIDE DEF r
    <2>5. QED
      BY <1>1, <1>2, <1>4, <1>6, <2>2, <2>3, <2>4, PhaseSets, TidyStep DEF Request
  <1>9. QED
    BY <1>7, <1>8

LEMMA TidyWriteStep ==
  ASSUME TypeOK, Sql, Tidy, NEW w \in Workers, WriteStep(w)
  PROVE  Tidy'
  <1>1. CASE Upsert(w) \/ Promote(w)
    BY <1>1, TidyPut
  <1>2. CASE DeleteOwned(w)
    BY <1>2, TidyDelete
  <1>3. CASE ~Upsert(w) /\ ~Promote(w) /\ ~DeleteOwned(w)
    <2>1. UNCHANGED <<store, manifest, operation>>
      BY <1>3 DEF WriteStep, CheckCollection, VerifyPoints, ReadFails, FinishLock,
                  CleanupLock, CleanupDecide, ReadOwned
    <2>2. PICK r \in Request : Moves(w, r) /\ Settled(w, r)
      BY <1>3, WriteStepMoves DEF Settled
    <2>3. QED
      BY <2>1, <2>2, TidyMoves
  <1>4. QED
    BY <1>1, <1>2, <1>3

LEMMA TidyStartDecide ==
  ASSUME TypeOK, Tidy, NEW w \in Workers, StartDecide(w)
  PROVE  Tidy'
  <1>1. req[w] \in Busy /\ req[w].pc = "decide"
    BY BusyRequest DEF StartDecide, Doing
  <1>2. PICK id \in Operations, m \in Manifests : req[w].op = id /\ req[w].manifest = m
    BY <1>1 DEF Busy
  <1>3. PICK r \in Request :
          req' = [req EXCEPT ![w] = r] /\ (r = Idle \/ r.cleanup = req[w].cleanup)
    <2>1. CASE Leave(w)
      BY <2>1 DEF Leave, Request
    <2>2. CASE Goto(w, "check")
      <3> DEFINE r == [req[w] EXCEPT !.pc = "check"]
      <3>1. r \in Busy /\ r.cleanup = req[w].cleanup
        BY <1>1, PhaseSets DEF Busy
      <3>2. req' = [req EXCEPT ![w] = r]
        BY <2>2 DEF Goto
      <3> HIDE DEF r
      <3>3. QED
        BY <3>1, <3>2 DEF Request
    <2>3. QED
      BY <2>1, <2>2 DEF StartDecide, Commits
  <1>4. \A x \in Workers : req'[x] # Idle /\ req'[x].cleanup = "cleaned" => req'[x] = req[x]
    BY <1>1, <1>3, NothingCleaned
  <1>5. \A n \in Manifests : ActiveOn(n) # {} => ActiveOn(n)' # {}
    <2>1. CASE Startable(w)
      <3>1. operation' = [operation EXCEPT ![id] = [state |-> "running", manifest |-> m]]
            /\ operation[id].state = "none"
        BY <1>2, <2>1 DEF StartDecide, Startable, Fresh, Mine
      <3>2. \A n \in Manifests : ActiveOn(n) \subseteq ActiveOn(n)'
        BY <3>1 DEF ActiveOn, Active, TypeOK
      <3>3. QED
        BY <3>2
    <2>2. CASE ~Startable(w)
      BY <2>2, SameActive DEF StartDecide
    <2>3. QED
      BY <2>1, <2>2
  <1>6. UNCHANGED <<store, manifest>>
    BY DEF StartDecide
  <1>7. QED
    BY <1>4, <1>5, <1>6, TidyElsewhere

LEMMA TidyFinishCommit ==
  ASSUME TypeOK, Sql, Tidy, NEW w \in Workers, FinishCommit(w)
  PROVE  Tidy'
  <1>1. req[w] \in Busy /\ req[w].pc = "finalize"
    BY BusyRequest DEF FinishCommit, Doing
  <1>2. PICK id \in Operations, m \in Manifests : req[w].op = id /\ req[w].manifest = m
    BY <1>1 DEF Busy
  <1>3. PICK r \in Request :
          req' = [req EXCEPT ![w] = r] /\ (r = Idle \/ r.cleanup = req[w].cleanup)
    BY FinishCommitOK
  <1>4. \A x \in Workers : req'[x] # Idle /\ req'[x].cleanup = "cleaned" => req'[x] = req[x]
    BY <1>1, <1>3, NothingCleaned
  <1>5. UNCHANGED store
    BY DEF FinishCommit
  <1>6. CASE Finalizable(w)
    <2>1. /\ manifest' = [manifest EXCEPT ![m] = "ingested"]
          /\ operation' = [operation EXCEPT ![id].state = "succeeded"]
      BY <1>2, <1>6 DEF FinishCommit, Mine
    <2>2. operation[id].manifest = m
      <3>1. Writing(w)
        BY <1>1, PhaseSets DEF Writing, Doing
      <3>2. QED
        BY <1>2, <3>1 DEF Sql, WriterOwns, Mine
    <2>3. \A n \in Manifests : n # m => ActiveOn(n)' = ActiveOn(n)
      BY <2>1, <2>2 DEF ActiveOn, Active, TypeOK
    <2>4. \A n \in Manifests : manifest'[n] = IF n = m THEN "ingested" ELSE manifest[n]
      BY <2>1 DEF TypeOK
    <2>5. QED
      BY <1>4, <1>5, <2>3, <2>4, TidyElsewhere
  <1>7. CASE ~Finalizable(w)
    <2>1. UNCHANGED <<store, manifest, operation>>
      BY <1>7 DEF FinishCommit
    <2>2. QED
      BY <1>4, <2>1, SameActive, TidyElsewhere
  <1>8. QED
    BY <1>6, <1>7

LEMMA TidyFinishFailed ==
  ASSUME TypeOK, Sql, Tidy, NEW w \in Workers, FinishFailed(w)
  PROVE  Tidy'
  <1>1. req[w] \in Busy /\ req[w].pc = "fail"
    BY BusyRequest DEF FinishFailed, Doing
  <1>2. PICK id \in Operations, m \in Manifests : req[w].op = id /\ req[w].manifest = m
    BY <1>1 DEF Busy
  <1>3. /\ req' = [req EXCEPT ![w] = Idle]
        /\ UNCHANGED <<store, manifest>>
    BY DEF FinishFailed, Leave
  <1>4. \A x \in Workers : req'[x] # Idle /\ req'[x].cleanup = "cleaned" => req'[x] = req[x]
    BY <1>3, NothingCleaned DEF Request
  <1>5. operation[id].manifest = m
    <2>1. Writing(w)
      BY <1>1, PhaseSets DEF Writing, Doing
    <2>2. QED
      BY <1>2, <2>1 DEF Sql, WriterOwns, Mine
  <1>6. CASE req[w].cleanup = "cleaned"
    <2>1. NoneOf(m)
      <3>1. req[w] # Idle
        BY <1>1, PhaseSets DEF Busy, Idle
      <3>2. NoneOf(Mine(w))
        BY <1>6, <3>1 DEF Tidy, CleanedIsClean
      <3>3. QED
        BY <1>2, <3>2 DEF NoneOf, Mine
    <2>2. operation' = [operation EXCEPT ![id].state = IF @ # "running" THEN @ ELSE "failed_cleaned"]
      BY <1>2, <1>6 DEF FinishFailed
    <2>3. \A n \in Manifests : n # m => ActiveOn(n)' = ActiveOn(n)
      BY <1>5, <2>2 DEF ActiveOn, Active, TypeOK
    <2>4. QED
      BY <1>3, <1>4, <2>1, <2>3, TidyElsewhere
  <1>7. CASE req[w].cleanup # "cleaned"
    <2>1. operation' = [operation EXCEPT ![id].state =
                          IF @ # "running" THEN @ ELSE "reconciliation_required"]
      BY <1>2, <1>7 DEF FinishFailed
    <2>2. \A n \in Manifests : ActiveOn(n)' = ActiveOn(n)
      BY <2>1 DEF ActiveOn, Active, TypeOK
    <2>3. QED
      BY <1>3, <1>4, <2>2, TidyElsewhere
  <1>8. QED
    BY <1>6, <1>7

LEMMA InitTidy == Init => Tidy
  BY DEF Init, Tidy, NoStrayPoints, PointsHome, CleanedIsClean

LEMMA NextTidy == TypeOK /\ Sql /\ Tidy /\ [Next]_vars => Tidy'
  <1> SUFFICES ASSUME TypeOK, Sql, Tidy, [Next]_vars PROVE Tidy'
    OBVIOUS
  <1>1. ASSUME UNCHANGED <<store, manifest, operation, req>> PROVE Tidy'
    BY <1>1, SameActive, TidyElsewhere
  <1>2. CASE UNCHANGED vars
    BY <1>1, <1>2 DEF vars
  <1>3. ASSUME NEW m \in Manifests, AuthorizeManifest(m) \/ ApprovalsChange(m) \/ Deploy(m)
        PROVE  Tidy'
    <2>1. CASE AuthorizeManifest(m)
      <3>1. UNCHANGED <<store, operation, req>>
            /\ \A n \in Manifests : manifest[n] = "ingested" => manifest'[n] = "ingested"
        BY <2>1 DEF AuthorizeManifest, TypeOK
      <3>2. QED
        BY <3>1, SameActive, TidyElsewhere
    <2>2. CASE ApprovalsChange(m) \/ Deploy(m)
      BY <1>1, <2>2 DEF ApprovalsChange, Deploy
    <2>3. QED
      BY <1>3, <2>1, <2>2
  <1>4. ASSUME NEW w \in Workers, NEW id \in Operations, NEW m \in Manifests, StartLock(w, id, m)
        PROVE  Tidy'
    <2>1. UNCHANGED <<store, manifest, operation>>
      BY <1>4 DEF StartLock
    <2>2. \A x \in Workers : req'[x] # Idle /\ req'[x].cleanup = "cleaned" => req'[x] = req[x]
      BY <1>4 DEF StartLock, TypeOK
    <2>3. QED
      BY <2>1, <2>2, SameActive, TidyElsewhere
  <1>5. ASSUME NEW w \in Workers, Step(w) PROVE Tidy'
    <2>1. CASE WriteStep(w)
      BY <2>1, TidyWriteStep
    <2>2. CASE StartDecide(w)
      BY <2>2, TidyStartDecide
    <2>3. CASE FinishCommit(w)
      BY <2>3, TidyFinishCommit
    <2>4. CASE FinishFailed(w)
      BY <2>4, TidyFinishFailed
    <2>5. QED
      BY <1>5, <2>1, <2>2, <2>3, <2>4 DEF Step, WriteStep
  <1>6. ASSUME NEW w \in Workers, Fault(w) PROVE Tidy'
    <2>1. PICK r \in Request : Moves(w, r) /\ Settled(w, r)
      BY <1>6, FaultMoves
    <2>2. QED
      BY <1>6, <2>1, TidyMoves DEF Fault
  <1>7. ASSUME NEW w \in Workers, NEW x \in Workers,
               DatabaseError(w) \/ Crash(w) \/ Deadlock(w, x)
        PROVE  Tidy'
    BY <1>6, <1>7, FaultActions
  <1>8. QED
    BY <1>2, <1>3, <1>4, <1>5, <1>7 DEF Next

\* _cleanup_after_failed_operation: the points of a manifest that was not ingested
\* have an operation that runs or asks for reconciliation.
THEOREM FailuresAreTidy == Spec => []NoStrayPoints
  <1>1. Tidy => NoStrayPoints
    BY DEF Tidy
  <1>2. QED
    BY <1>1, InitSql, InitTidy, NextSql, NextTidy, PTL DEF Spec

-----------------------------------------------------------------------------
(* The collections: what an ingested manifest keeps.                        *)

\* Two manifests of one collection are never deployed to overlap.
Separate == Rolling => \A m, n \in Manifests : CollectionOf[m] = CollectionOf[n] => m = n

\* The collection holds points of m only.
OwnOnly(m) ==
  \A p \in Points : store[CollectionOf[m]][p] # None => store[CollectionOf[m]][p].owner = m

\* What a writing thread can count on from its phase alone.
Secured(w) ==
  LET m == Mine(w) IN
  /\ ~Rolling => armed[CollectionOf[m]] = m
  /\ Doing(w, RunningPhases) => manifest[m] = "authorized"
  /\ Doing(w, {"upsert", "verify", "promote", "confirm", "receipt", "finalize"}) => OwnOnly(m)
  /\ Doing(w, {"receipt", "finalize"}) => Exactly(m, "ingested")
  /\ Doing(w, {"delete"}) =>
       \A p \in req[w].owned : Collection(w)[p] # None => Collection(w)[p].owner = m

Secure == \A w \in Workers : Writing(w) => Secured(w)

LEMMA AloneInCollection ==
  ASSUME Separate, TypeOK, Sql, Secure, NEW w \in Workers, NEW x \in Workers,
         Writing(w), Writing(x), CollectionOf[Mine(w)] = CollectionOf[Mine(x)]
  PROVE  w = x
  <1>1. Mine(w) = Mine(x)
    <2>1. CASE Rolling
      BY <2>1, WritingBusy DEF Separate
    <2>2. CASE ~Rolling
      BY <2>2 DEF Secure, Secured
    <2>3. QED
      BY <2>1, <2>2
  <1>2. QED
    BY <1>1 DEF Sql, OneWriter

\* A step elsewhere takes nothing from a thread ...
LEMMA SecuredKept ==
  ASSUME NEW x \in Workers, Secured(x), req'[x] = req[x], UNCHANGED armed,
         store'[CollectionOf[Mine(x)]] = store[CollectionOf[Mine(x)]],
         manifest[Mine(x)] = "authorized" => manifest'[Mine(x)] = "authorized"
  PROVE  Secured(x)'
  <1>1. PICK m : m = Mine(x) /\ m = Mine(x)'
    BY DEF Mine
  <1>2. PICK c : c = CollectionOf[m]
    OBVIOUS
  <1>3. (OwnOnly(m)' <=> OwnOnly(m)) /\ (Exactly(m, "ingested")' <=> Exactly(m, "ingested"))
    BY <1>1, <1>2 DEF OwnOnly, Exactly
  <1>4. \A p : Collection(x)'[p] = Collection(x)[p]
    BY <1>1 DEF Collection
  <1>5. QED
    BY <1>1, <1>3, <1>4 DEF Secured, Doing

\* ... and one that only closes its operation needs no more.
LEMMA SecuredOut ==
  ASSUME NEW w \in Workers, Secured(w), req'[w].manifest = req[w].manifest,
         req'[w].pc \in {"preflight", "own", "fail"}, UNCHANGED armed
  PROVE  Secured(w)'
  BY PhaseSets DEF Secured, Doing, Mine

LEMMA SecureStep ==
  ASSUME TypeOK, Secure, NEW w \in Workers, NEW r \in Request, req' = [req EXCEPT ![w] = r],
         r.pc \in Phases \ {"decide"} => Secured(w)', UNCHANGED armed,
         \A x \in Workers \ {w} : Writing(x) =>
           /\ store'[CollectionOf[Mine(x)]] = store[CollectionOf[Mine(x)]]
           /\ manifest[Mine(x)] = "authorized" => manifest'[Mine(x)] = "authorized"
  PROVE  Secure'
  <1> SUFFICES ASSUME NEW x \in Workers, Writing(x)' PROVE Secured(x)'
    BY DEF Secure
  <1>1. req'[x] = IF x = w THEN r ELSE req[x]
    BY DEF TypeOK
  <1>2. CASE x = w
    BY <1>1, <1>2 DEF Writing, Doing
  <1>3. CASE x # w
    <2>1. Writing(x) /\ req'[x] = req[x]
      BY <1>1, <1>3 DEF Writing, Doing
    <2>2. QED
      BY <1>3, <2>1, SecuredKept DEF Secure
  <1>4. QED
    BY <1>2, <1>3

\* A thread that leaves or turns to its cleanup, or closes it.
LEMMA SecurePlain ==
  ASSUME TypeOK, Secure, NEW w \in Workers, NEW r \in Request, Moves(w, r),
         r = Idle \/ r.pc \in {"preflight", "own", "fail"},
         UNCHANGED <<store, manifest, armed>>
  PROVE  Secure'
  <1>1. ASSUME r.pc \in Phases \ {"decide"} PROVE Secured(w)'
    <2>1. r # Idle
      BY <1>1, PhaseSets DEF Idle
    <2>2. Writing(w)
      BY <2>1, PhaseSets DEF Moves, Writing, Doing, Busy
    <2>3. req'[w] = r /\ r.manifest = req[w].manifest
      BY <2>1 DEF Moves, TypeOK
    <2>4. QED
      BY <2>1, <2>2, <2>3, SecuredOut DEF Secure
  <1>2. req' = [req EXCEPT ![w] = r]
    BY DEF Moves
  <1>3. QED
    BY <1>1, <1>2, SecureStep

\* What the thread has just read or checked holds.
LEMMA SecureGoto ==
  ASSUME TypeOK, Secure, NEW w \in Workers, NEW to \in RunningPhases \ {"delete"}, Goto(w, to),
         Writing(w), req[w].pc # "fail", manifest[Mine(w)] = "authorized",
         operation[req[w].op].state = "running",
         to \notin {"check", "clean"} => OwnOnly(Mine(w)),
         to \in {"receipt", "finalize"} => Exactly(Mine(w), "ingested"),
         UNCHANGED <<store, manifest, armed>>
  PROVE  Secure'
  <1>1. req[w].pc \notin {"idle", "decide", "fail"} /\ to \in Phases \ {"decide"}
    BY PhaseSets DEF Writing, Doing
  <1>2. PICK r \in Request : Moves(w, r) /\ r.pc = to /\ r.manifest = req[w].manifest
    BY <1>1, GotoMoves
  <1>3. req' = [req EXCEPT ![w] = r] /\ req'[w] = r
    BY <1>2 DEF Moves, TypeOK
  <1>4. PICK m \in Manifests : m = Mine(w)
    BY WritingBusy
  <1>5. Mine(w)' = m
    BY <1>2, <1>3, <1>4 DEF Mine
  <1>6. to # "delete" /\ Secured(w)
    BY PhaseSets DEF Secure
  <1>7. /\ ~Rolling => armed'[CollectionOf[m]] = m
        /\ manifest'[m] = "authorized"
        /\ to \notin {"check", "clean"} => OwnOnly(m)'
        /\ to \in {"receipt", "finalize"} => Exactly(m, "ingested")'
    BY <1>4, <1>6 DEF Secured, OwnOnly, Exactly
  <1>8. Secured(w)'
    BY <1>2, <1>3, <1>5, <1>6, <1>7 DEF Secured, Doing
  <1>9. QED
    BY <1>3, <1>8, SecureStep

LEMMA ExactlyOwn ==
  ASSUME NEW m \in Manifests, NEW s, Exactly(m, s)
  PROVE  OwnOnly(m)
  <1> SUFFICES ASSUME NEW p \in Points, store[CollectionOf[m]][p] # None
               PROVE  store[CollectionOf[m]][p].owner = m
    BY DEF OwnOnly
  <1>1. store[CollectionOf[m]][p] = IF p \in PointsOf[m] THEN [owner |-> m, status |-> s] ELSE None
    BY DEF Exactly
  <1>2. QED
    BY <1>1

LEMMA SecureCheck ==
  ASSUME TypeOK, Sql, Secure, NEW w \in Workers,
         \/ CheckCollection(w) \/ VerifyPoints(w, "verify", "approved", "promote")
         \/ VerifyPoints(w, "confirm", "ingested", "receipt")
         \/ ReadFails(w) \/ FinishLock(w)
  PROVE  Secure'
  <1>1. UNCHANGED <<store, manifest, armed>>
    BY DEF CheckCollection, VerifyPoints, ReadFails, FinishLock
  <1>2. /\ Writing(w) /\ Doing(w, RunningPhases) /\ req[w].pc # "fail"
        /\ Doing(w, {"check", "upsert", "verify", "confirm", "receipt"})
    BY PhaseSets DEF CheckCollection, VerifyPoints, ReadFails, FinishLock, Writing, Doing
  <1>3. manifest[Mine(w)] = "authorized" /\ operation[req[w].op].state = "running"
    BY <1>2 DEF Secure, Secured, Sql, WriterOwns, Doing
  <1>4. PICK m \in Manifests : m = Mine(w)
    BY <1>2, WritingBusy
  <1>5. CASE Goto(w, "preflight")
    <2>1. \E r \in Request : Moves(w, r) /\ r.pc = "preflight"
      BY <1>2, <1>5, GotoMoves, PhaseSets DEF Doing
    <2>2. QED
      BY <1>1, <2>1, SecurePlain
  <1>6. CASE Goto(w, "upsert") /\ Bound(m)
    <2>1. OwnOnly(m)
      BY <1>6, ExactlyOwn DEF Bound, OwnOnly
    <2>2. QED
      BY <1>1, <1>2, <1>3, <1>4, <1>6, <2>1, SecureGoto, PhaseSets
  <1>7. CASE Goto(w, "promote") /\ Exactly(m, "approved")
    BY <1>1, <1>2, <1>3, <1>4, <1>7, ExactlyOwn, SecureGoto, PhaseSets
  <1>8. CASE Goto(w, "receipt") /\ Exactly(m, "ingested")
    BY <1>1, <1>2, <1>3, <1>4, <1>8, ExactlyOwn, SecureGoto, PhaseSets
  <1>9. CASE FinishLock(w)
    <2>1. Exactly(m, "ingested") /\ Goto(w, "finalize")
      BY <1>2, <1>4, <1>9 DEF Secure, Secured, FinishLock, Doing
    <2>2. QED
      BY <1>1, <1>2, <1>3, <1>4, <2>1, ExactlyOwn, SecureGoto, PhaseSets
  <1>10. QED
    BY <1>4, <1>5, <1>6, <1>7, <1>8, <1>9 DEF CheckCollection, VerifyPoints, ReadFails

LEMMA SecureClean ==
  ASSUME TypeOK, Sql, Secure, NEW w \in Workers,
         CleanupLock(w) \/ CleanupDecide(w) \/ ReadOwned(w)
  PROVE  Secure'
  <1>1. UNCHANGED <<store, manifest, armed>>
    BY DEF CleanupLock, CleanupDecide, ReadOwned
  <1>2. Writing(w) /\ req[w].pc \notin {"idle", "decide", "fail"}
    BY PhaseSets DEF CleanupLock, CleanupDecide, ReadOwned, Writing, Doing
  <1>3. CASE Goto(w, "own") \/ Goto(w, "fail")
    <2>1. \E r \in Request : Moves(w, r) /\ r.pc \in {"own", "fail"}
      BY <1>2, <1>3, GotoMoves, PhaseSets
    <2>2. QED
      BY <1>1, <2>1, SecurePlain
  <1>4. CASE CleanupDecide(w) /\ SoleOwner(w)
    <2>1. /\ Goto(w, "clean") /\ manifest[Mine(w)] = "authorized"
          /\ operation[req[w].op].state = "running"
      BY <1>4 DEF CleanupDecide, SoleOwner
    <2>2. QED
      BY <1>1, <1>2, <2>1, SecureGoto, PhaseSets
  <1>5. CASE ReadOwned(w) /\ ~Goto(w, "fail")
    <2>1. req[w] \in Busy /\ req[w].pc = "clean"
      BY <1>5, BusyRequest DEF ReadOwned, Doing
    <2>2. PICK m \in Manifests : m = Mine(w)
      BY <2>1 DEF Busy, Mine
    <2>3. PICK S : /\ S = {p \in PointsOf[m] : Collection(w)[p] # None}
                   /\ \A p \in S : Collection(w)[p].owner = m
                   /\ req' = [req EXCEPT ![w].pc = "delete", ![w].owned = S]
      BY <1>5, <2>2 DEF ReadOwned
    <2>4. S \subseteq Points
      BY <2>3, ConstantsAssumption
    <2> DEFINE r == [req[w] EXCEPT !.pc = "delete", !.owned = S]
    <2>5. r \in Busy /\ r.manifest = m /\ r.pc = "delete" /\ r.owned = S
      BY <2>1, <2>2, <2>4, PhaseSets DEF Busy, Mine
    <2>6. req' = [req EXCEPT ![w] = r] /\ req'[w] = r
      BY <2>3 DEF TypeOK
    <2> HIDE DEF r
    <2>7. Mine(w)' = m /\ Collection(w)' = Collection(w)
      BY <1>1, <2>2, <2>5, <2>6 DEF Mine, Collection
    <2>8. manifest[m] = "authorized" /\ (~Rolling => armed[CollectionOf[m]] = m)
      BY <1>2, <2>1, <2>2, PhaseSets DEF Secure, Secured, Doing
    <2>9. Secured(w)'
      BY <1>1, <2>3, <2>5, <2>6, <2>7, <2>8 DEF Secured, Doing
    <2>10. QED
      BY <1>1, <2>5, <2>6, <2>9, SecureStep DEF Request
  <1>6. QED
    BY <1>3, <1>4, <1>5 DEF CleanupLock, CleanupDecide

\* A request to the vector store changes only m's collection, and takes or replaces
\* only m's points: while writing, nobody else's are there; while deleting, the
\* points it names are m's or gone.
OwnChange(m) ==
  /\ \A c \in Collections : c # CollectionOf[m] => store'[c] = store[c]
  /\ OwnOnly(m) \/ \A p \in Points :
       LET point == store[CollectionOf[m]][p] IN
       store'[CollectionOf[m]][p] # point => point # None /\ point.owner = m

LEMMA OwnChangeKeepsCollections ==
  ASSUME TypeOK, TypeOK', NEW m \in Manifests,
         \A c \in Collections, p \in Points : c # CollectionOf[m] => store'[c][p] = store[c][p]
  PROVE  \A c \in Collections : c # CollectionOf[m] => store'[c] = store[c]
  <1> SUFFICES ASSUME NEW c \in Collections, c # CollectionOf[m] PROVE store'[c] = store[c]
    OBVIOUS
  <1>1. store[c] \in [Points -> PointStates] /\ store'[c] \in [Points -> PointStates]
    BY DEF TypeOK
  <1>2. \A p \in Points : store'[c][p] = store[c][p]
    OBVIOUS
  <1>3. QED
    BY <1>1, <1>2

LEMMA WritesAreOwn ==
  ASSUME TypeOK, TypeOK', Sql, Secure, NEW w \in Workers, NEW m \in Manifests, Mine(w) = m,
         Upsert(w) \/ Promote(w) \/ DeleteOwned(w)
  PROVE  /\ Writing(w) /\ Doing(w, RunningPhases) /\ manifest[m] = "authorized"
         /\ req[w].op \in ActiveOn(m) /\ operation[req[w].op].state = "running"
         /\ OwnChange(m)
  <1>1. req[w] \in Busy /\ req[w].pc \in {"upsert", "promote", "delete"}
    BY BusyRequest DEF Upsert, Promote, DeleteOwned, Doing
  <1>2. Writing(w) /\ Doing(w, RunningPhases)
    BY <1>1, PhaseSets DEF Writing, Doing
  <1>3. Secured(w) /\ manifest[m] = "authorized"
    BY <1>2 DEF Secure, Secured
  <1>4. req[w].op \in ActiveOn(m) /\ operation[req[w].op].state = "running"
    BY <1>1, <1>2 DEF Sql, WriterOwns, ActiveOn, Active, Busy, Doing
  <1>5. CASE Upsert(w) \/ Promote(w)
    <2>1. OwnOnly(m)
      BY <1>3, <1>5 DEF Upsert, Promote, Secured, Doing
    <2>2. \A c \in Collections, p \in Points : c # CollectionOf[m] => store'[c][p] = store[c][p]
      <3>1. req[w].manifest = m
        BY DEF Mine
      <3>2. CASE Upsert(w)
        BY <3>1, <3>2, UpsertEffect
      <3>3. CASE Promote(w)
        BY <3>1, <3>3, PromoteEffect
      <3>4. QED
        BY <1>5, <3>2, <3>3
    <2>3. QED
      BY <1>2, <1>3, <1>4, <2>1, <2>2, OwnChangeKeepsCollections DEF OwnChange
  <1>6. CASE DeleteOwned(w)
    <2>1. \A c \in Collections, p \in Points :
            \/ store'[c][p] = store[c][p]
            \/ c = CollectionOf[m] /\ p \in req[w].owned /\ store'[c][p] = None
      BY <1>1, <1>6, DeleteEffect DEF Mine
    <2>2. \A p \in req[w].owned :
            store[CollectionOf[m]][p] # None => store[CollectionOf[m]][p].owner = m
      BY <1>3, <1>6 DEF DeleteOwned, Secured, Collection, Doing
    <2>3. \A c \in Collections, p \in Points : c # CollectionOf[m] => store'[c][p] = store[c][p]
      BY <2>1
    <2>4. CollectionOf[m] \in Collections
      BY ConstantsAssumption
    <2>5. QED
      BY <1>2, <1>3, <1>4, <2>1, <2>2, <2>3, <2>4, OwnChangeKeepsCollections DEF OwnChange
  <1>7. QED
    BY <1>5, <1>6

\* Other threads work in other collections.
LEMMA OwnChangeKeepsOthers ==
  ASSUME Separate, TypeOK, Sql, Secure, NEW w \in Workers, NEW m \in Manifests, Mine(w) = m,
         Writing(w), OwnChange(m)
  PROVE  \A x \in Workers \ {w} : Writing(x) =>
           store'[CollectionOf[Mine(x)]] = store[CollectionOf[Mine(x)]]
  <1> SUFFICES ASSUME NEW x \in Workers \ {w}, Writing(x)
               PROVE  store'[CollectionOf[Mine(x)]] = store[CollectionOf[Mine(x)]]
    OBVIOUS
  <1>1. PICK n \in Manifests : n = Mine(x)
    BY WritingBusy
  <1>2. CollectionOf[n] # CollectionOf[m]
    BY <1>1, AloneInCollection
  <1>3. CollectionOf[n] \in Collections
    BY ConstantsAssumption
  <1>4. QED
    BY <1>1, <1>2, <1>3 DEF OwnChange

LEMMA SecureWrite ==
  ASSUME Separate, TypeOK, TypeOK', Sql, Secure, NEW w \in Workers,
         Upsert(w) \/ Promote(w) \/ DeleteOwned(w)
  PROVE  Secure'
  <1>1. req[w] \in Busy /\ req[w].pc \in {"upsert", "promote", "delete"}
    BY BusyRequest DEF Upsert, Promote, DeleteOwned, Doing
  <1>2. PICK m \in Manifests : Mine(w) = m
    BY <1>1 DEF Busy, Mine
  <1>3. Writing(w) /\ manifest[m] = "authorized" /\ OwnChange(m)
    BY <1>2, WritesAreOwn
  <1>4. UNCHANGED <<manifest, armed>>
    BY DEF Upsert, Promote, DeleteOwned
  <1>5. WriteStep(w)
    BY DEF WriteStep
  <1>6. PICK r \in Request : Moves(w, r)
    BY <1>5, WriteStepMoves
  <1>7. req' = [req EXCEPT ![w] = r] /\ req'[w] = r
    BY <1>6 DEF Moves, TypeOK
  <1>8. ASSUME r.pc \in Phases \ {"decide"} PROVE Secured(w)'
    <2>1. r # Idle /\ r.manifest = req[w].manifest
      BY <1>6, <1>8, PhaseSets DEF Moves, Idle
    <2>2. CASE r.pc \in {"preflight", "own", "fail"}
      BY <1>3, <1>4, <1>7, <2>1, <2>2, SecuredOut DEF Secure
    <2>3. CASE r.pc \notin {"preflight", "own", "fail"}
      <3>1. (Upsert(w) /\ r.pc = "verify") \/ (Promote(w) /\ r.pc = "confirm")
        <4>1. ASSUME NEW to, Goto(w, to) PROVE r.pc = to
          BY <1>1, <1>7, <4>1 DEF Goto, TypeOK, Busy
        <4>2. CASE DeleteOwned(w)
          <5>1. ASSUME req' = [req EXCEPT ![w].pc = "fail", ![w].cleanup = "cleaned"]
                PROVE  r.pc = "fail"
            BY <1>1, <1>7, <5>1 DEF TypeOK, Busy
          <5>2. QED
            BY <2>3, <4>1, <4>2, <5>1 DEF DeleteOwned
        <4>3. CASE Upsert(w)
          BY <2>3, <4>1, <4>3 DEF Upsert, Applied
        <4>4. CASE Promote(w)
          BY <2>3, <4>1, <4>4 DEF Promote, Applied
        <4>5. QED
          BY <4>2, <4>3, <4>4
      <3>2. OwnOnly(m)
        BY <1>2, <1>3, <3>1 DEF Secure, Secured, Upsert, Promote, Doing
      <3>3. OwnOnly(m)'
        <4> SUFFICES ASSUME NEW p \in Points, store'[CollectionOf[m]][p] # None
                     PROVE  store'[CollectionOf[m]][p].owner = m
          BY DEF OwnOnly
        <4>1. CollectionOf[m] \in Collections
          BY ConstantsAssumption
        <4>2. CASE Upsert(w)
          <5>1. \/ store'[CollectionOf[m]][p] = store[CollectionOf[m]][p]
                \/ store'[CollectionOf[m]][p] = [owner |-> m, status |-> "approved"]
            BY <1>2, <4>1, <4>2, UpsertEffect DEF Mine
          <5>2. QED
            BY <3>2, <5>1 DEF OwnOnly
        <4>3. CASE Promote(w)
          <5>1. \/ store'[CollectionOf[m]][p] = store[CollectionOf[m]][p]
                \/ /\ store[CollectionOf[m]][p] # None
                   /\ store'[CollectionOf[m]][p].owner = store[CollectionOf[m]][p].owner
            BY <1>2, <4>1, <4>3, PromoteEffect DEF Mine
          <5>2. QED
            BY <3>2, <5>1 DEF OwnOnly
        <4>4. QED
          BY <3>1, <4>2, <4>3
      <3>4. Mine(w)' = m /\ (~Rolling => armed'[CollectionOf[m]] = m) /\ manifest'[m] = "authorized"
        BY <1>2, <1>3, <1>4, <1>7, <2>1 DEF Secure, Secured, Mine
      <3>5. QED
        BY <1>7, <3>1, <3>3, <3>4 DEF Secured, Doing
    <2>4. QED
      BY <2>2, <2>3
  <1>9. \A x \in Workers \ {w} : Writing(x) =>
          store'[CollectionOf[Mine(x)]] = store[CollectionOf[Mine(x)]]
    BY <1>2, <1>3, OwnChangeKeepsOthers
  <1>10. QED
    BY <1>4, <1>7, <1>8, <1>9, SecureStep

LEMMA SecureStartDecide ==
  ASSUME TypeOK, Secure, NEW w \in Workers, StartDecide(w)
  PROVE  Secure'
  <1>1. req[w] \in Busy
    BY BusyRequest DEF StartDecide, Doing
  <1>2. UNCHANGED <<store, manifest, armed>>
    BY DEF StartDecide
  <1>3. CASE Leave(w)
    <2>1. req' = [req EXCEPT ![w] = Idle] /\ Idle \in Request /\ Idle.pc \notin Phases
      BY <1>3, PhaseSets DEF Leave, Request, Idle
    <2>2. QED
      BY <1>2, <2>1, SecureStep
  <1>4. CASE Startable(w) /\ Goto(w, "check")
    <2> DEFINE r == [req[w] EXCEPT !.pc = "check"]
    <2>1. r \in Busy /\ r.pc = "check" /\ r.manifest = req[w].manifest
      BY <1>1, PhaseSets DEF Busy
    <2>2. req' = [req EXCEPT ![w] = r] /\ req'[w] = r
      BY <1>4 DEF Goto, TypeOK
    <2> HIDE DEF r
    <2>3. manifest[Mine(w)] = "authorized" /\ armed[CollectionOf[Mine(w)]] = Mine(w)
      BY <1>4 DEF Startable, Fresh
    <2>4. Secured(w)'
      BY <1>2, <2>1, <2>2, <2>3 DEF Secured, Doing, Mine
    <2>5. QED
      BY <1>2, <2>1, <2>2, <2>4, SecureStep DEF Request
  <1>5. QED
    BY <1>3, <1>4 DEF StartDecide, Commits

LEMMA SecureFinishCommit ==
  ASSUME TypeOK, Sql, Secure, NEW w \in Workers, FinishCommit(w)
  PROVE  Secure'
  <1>1. Writing(w) /\ req[w] \in Busy
    BY BusyRequest, PhaseSets DEF FinishCommit, Writing, Doing
  <1>2. PICK m \in Manifests : Mine(w) = m
    BY <1>1 DEF Busy, Mine
  <1>3. PICK r \in Request : Moves(w, r) /\ (r = Idle \/ r.pc = "preflight")
    <2>1. CASE Leave(w)
      <3>1. Idle \in Request
        BY DEF Request
      <3>2. QED
        BY <2>1, <3>1 DEF Leave, Moves
    <2>2. CASE Goto(w, "preflight")
      <3>1. req[w].pc \notin {"idle", "decide", "fail"} /\ "preflight" \in Phases \ {"decide"}
            /\ "preflight" \notin RunningPhases
        BY PhaseSets DEF FinishCommit, Doing
      <3>2. QED
        BY <2>2, <3>1, GotoMoves
    <2>3. QED
      BY <2>1, <2>2 DEF FinishCommit, Commits
  <1>4. ASSUME r.pc \in Phases \ {"decide"} PROVE Secured(w)'
    <2>1. r # Idle
      BY <1>4, PhaseSets DEF Idle
    <2>2. req'[w] = r /\ r.manifest = req[w].manifest /\ r.pc = "preflight"
      BY <1>3, <2>1 DEF Moves, TypeOK
    <2>3. QED
      BY <1>1, <2>2, SecuredOut DEF Secure, FinishCommit
  <1>5. \A x \in Workers \ {w} : Writing(x) => manifest'[Mine(x)] = manifest[Mine(x)]
    <2>1. \A n \in Manifests : n # m => manifest'[n] = manifest[n]
      BY <1>2 DEF FinishCommit, TypeOK
    <2>2. QED
      BY <1>1, <1>2, <2>1, WritingBusy DEF Sql, OneWriter
  <1>6. UNCHANGED <<store, armed>> /\ req' = [req EXCEPT ![w] = r]
    BY <1>3 DEF FinishCommit, Moves
  <1>7. QED
    BY <1>4, <1>5, <1>6, SecureStep

LEMMA SecureFault ==
  ASSUME TypeOK, Secure, NEW w \in Workers, Fault(w)
  PROVE  Secure'
  <1>1. \E r \in Request : Moves(w, r) /\ (r = Idle \/ r.pc = "preflight")
    <2>1. CASE Leave(w)
      <3>1. Idle \in Request
        BY DEF Request
      <3>2. QED
        BY <2>1, <3>1 DEF Leave, Moves
    <2>2. CASE Goto(w, "preflight") /\ Doing(w, {"receipt", "finalize"})
      BY <2>2, GotoMoves, PhaseSets DEF Doing
    <2>3. QED
      BY <2>1, <2>2 DEF Fault, Raise
  <1>2. UNCHANGED <<store, manifest, armed>>
    BY DEF Fault
  <1>3. QED
    BY <1>1, <1>2, SecurePlain

\* Requests at rest: approvals change, and a deployment may arm another manifest.
LEMMA SecureEnvironment ==
  ASSUME TypeOK, Secure, NEW m \in Manifests,
         AuthorizeManifest(m) \/ ApprovalsChange(m) \/ Deploy(m)
  PROVE  Secure'
  <1> SUFFICES ASSUME NEW x \in Workers, Writing(x)' PROVE Secured(x)'
    BY DEF Secure
  <1>1. UNCHANGED <<store, req>>
    BY DEF AuthorizeManifest, ApprovalsChange, Deploy
  <1>2. Writing(x) /\ Secured(x)
    BY <1>1 DEF Secure, Writing, Doing
  <1>3. PICK n \in Manifests : n = Mine(x) /\ n = Mine(x)'
    BY <1>1, <1>2, WritingBusy DEF Mine
  <1>4. CASE AuthorizeManifest(m) \/ ApprovalsChange(m)
    <2>1. UNCHANGED armed /\ (manifest[n] = "authorized" => manifest'[n] = "authorized")
      BY <1>4 DEF AuthorizeManifest, ApprovalsChange, TypeOK
    <2>2. QED
      BY <1>1, <1>2, <1>3, <2>1, SecuredKept
  <1>5. CASE Deploy(m)
    <2>1. Rolling
      BY <1>2, <1>5, WritingBusy, PhaseSets DEF Deploy, Writing, Doing, Idle
    <2>2. UNCHANGED manifest
      BY <1>5 DEF Deploy
    <2>3. (OwnOnly(n)' <=> OwnOnly(n)) /\ (Exactly(n, "ingested")' <=> Exactly(n, "ingested"))
      BY <1>1 DEF OwnOnly, Exactly
    <2>4. Collection(x)' = Collection(x)
      BY <1>1 DEF Collection, Mine
    <2>5. QED
      BY <1>1, <1>2, <1>3, <2>1, <2>2, <2>3, <2>4 DEF Secured, Doing
  <1>6. QED
    BY <1>4, <1>5

LEMMA InitSecure == Init => Secure
  BY PhaseSets DEF Init, Secure, Writing, Doing, Idle

LEMMA NextSecure ==
  ASSUME Separate
  PROVE  TypeOK /\ TypeOK' /\ Sql /\ Secure /\ [Next]_vars => Secure'
  <1> SUFFICES ASSUME TypeOK, TypeOK', Sql, Secure, [Next]_vars PROVE Secure'
    OBVIOUS
  <1>1. CASE UNCHANGED vars
    <2>1. UNCHANGED <<manifest, armed, store, req>>
      BY <1>1 DEF vars
    <2>2. \A x \in Workers : (Writing(x)' <=> Writing(x)) /\ Mine(x)' = Mine(x)
      BY <2>1 DEF Writing, Doing, Mine
    <2>3. QED
      BY <2>1, <2>2, SecuredKept DEF Secure
  <1>2. ASSUME NEW m \in Manifests, AuthorizeManifest(m) \/ ApprovalsChange(m) \/ Deploy(m)
        PROVE  Secure'
    BY <1>2, SecureEnvironment
  <1>3. ASSUME NEW w \in Workers, NEW id \in Operations, NEW m \in Manifests, StartLock(w, id, m)
        PROVE  Secure'
    <2>1. UNCHANGED <<store, manifest, armed>>
      BY <1>3 DEF StartLock
    <2>2. PICK r \in Request : req' = [req EXCEPT ![w] = r] /\ r.pc = "decide"
      <3>1. PICK q \in Busy : q = [pc |-> "decide", op |-> id, manifest |-> m, owned |-> {},
                                   cleanup |-> "reconciliation_required"]
        BY PhaseSets DEF Busy
      <3>2. req' = [req EXCEPT ![w] = q] /\ q.pc = "decide"
        BY <1>3, <3>1 DEF StartLock
      <3>3. QED
        BY <3>2 DEF Request
    <2>3. QED
      BY <2>1, <2>2, SecureStep
  <1>4. ASSUME NEW w \in Workers, Step(w) PROVE Secure'
    <2>1. CASE StartDecide(w)
      BY <2>1, SecureStartDecide
    <2>2. CASE Upsert(w) \/ Promote(w) \/ DeleteOwned(w)
      BY <2>2, SecureWrite
    <2>3. CASE \/ CheckCollection(w) \/ VerifyPoints(w, "verify", "approved", "promote")
               \/ VerifyPoints(w, "confirm", "ingested", "receipt")
               \/ ReadFails(w) \/ FinishLock(w)
      BY <2>3, SecureCheck
    <2>4. CASE CleanupLock(w) \/ CleanupDecide(w) \/ ReadOwned(w)
      BY <2>4, SecureClean
    <2>5. CASE FinishCommit(w)
      BY <2>5, SecureFinishCommit
    <2>6. CASE FinishFailed(w)
      <3>1. Idle \in Request /\ UNCHANGED <<store, manifest, armed>> /\ Moves(w, Idle)
        BY <2>6 DEF FinishFailed, Leave, Moves, Request
      <3>2. QED
        BY <3>1, SecurePlain
    <2>7. QED
      BY <1>4, <2>1, <2>2, <2>3, <2>4, <2>5, <2>6 DEF Step
  <1>5. ASSUME NEW w \in Workers, NEW x \in Workers,
               DatabaseError(w) \/ Crash(w) \/ Deadlock(w, x)
        PROVE  Secure'
    BY <1>5, FaultActions, SecureFault
  <1>6. QED
    BY <1>1, <1>2, <1>3, <1>4, <1>5 DEF Next

-----------------------------------------------------------------------------
(* What that secures.                                                       *)

\* A step that changes a collection is a request of a writing thread.
LEMMA StoreChanges ==
  ASSUME [Next]_vars, store' # store
  PROVE  \E w \in Workers : Upsert(w) \/ Promote(w) \/ DeleteOwned(w)
  <1>1. \A m \in Manifests : ~AuthorizeManifest(m) /\ ~ApprovalsChange(m) /\ ~Deploy(m)
    BY DEF AuthorizeManifest, ApprovalsChange, Deploy
  <1>2. \A w \in Workers, id \in Operations, m \in Manifests : ~StartLock(w, id, m)
    BY DEF StartLock
  <1>3. \A w, x \in Workers : ~DatabaseError(w) /\ ~Crash(w) /\ ~Deadlock(w, x)
    BY DEF DatabaseError, Crash, Deadlock
  <1>4. PICK w \in Workers : Step(w)
    BY <1>1, <1>2, <1>3 DEF Next, vars
  <1>5. QED
    BY <1>4 DEF Step, StartDecide, CheckCollection, VerifyPoints, ReadFails, FinishLock,
                FinishCommit, CleanupLock, CleanupDecide, ReadOwned, FinishFailed

\* Only the thread that finalizes a manifest makes it ingested.
LEMMA ManifestChanges ==
  ASSUME TypeOK, [Next]_vars, NEW n \in Manifests, manifest[n] # "ingested",
         manifest'[n] = "ingested"
  PROVE  \E w \in Workers : FinishCommit(w) /\ Mine(w) = n
  <1>1. \A m \in Manifests : ~AuthorizeManifest(m) /\ ~ApprovalsChange(m) /\ ~Deploy(m)
    BY DEF AuthorizeManifest, ApprovalsChange, Deploy, TypeOK
  <1>2. \A w \in Workers, id \in Operations, m \in Manifests : ~StartLock(w, id, m)
    BY DEF StartLock
  <1>3. \A w, x \in Workers : ~DatabaseError(w) /\ ~Crash(w) /\ ~Deadlock(w, x)
    BY DEF DatabaseError, Crash, Deadlock
  <1>4. PICK w \in Workers : Step(w)
    BY <1>1, <1>2, <1>3 DEF Next, vars
  <1>5. FinishCommit(w)
    BY <1>4 DEF Step, StartDecide, CheckCollection, Upsert, VerifyPoints, Promote, ReadFails,
                FinishLock, CleanupLock, CleanupDecide, ReadOwned, DeleteOwned, FinishFailed
  <1>6. QED
    BY <1>5 DEF FinishCommit, TypeOK

LEMMA NextCommitted ==
  ASSUME Separate
  PROVE  TypeOK /\ TypeOK' /\ Sql /\ Secure /\ CommittedPointsStay /\ [Next]_vars
           => CommittedPointsStay'
  <1> SUFFICES ASSUME TypeOK, TypeOK', Sql, Secure, CommittedPointsStay, [Next]_vars,
                      NEW n \in Manifests, manifest'[n] = "ingested"
               PROVE  Exactly(n, "ingested")'
    BY DEF CommittedPointsStay
  <1>1. PICK c \in Collections : c = CollectionOf[n]
    BY ConstantsAssumption
  <1>2. Exactly(n, "ingested")
    <2>1. CASE manifest[n] = "ingested"
      BY <2>1 DEF CommittedPointsStay
    <2>2. CASE manifest[n] # "ingested"
      <3>1. PICK w \in Workers : FinishCommit(w) /\ Mine(w) = n
        BY <2>2, ManifestChanges
      <3>2. Writing(w) /\ Doing(w, {"finalize"})
        BY <3>1, PhaseSets DEF FinishCommit, Writing, Doing
      <3>3. QED
        BY <3>1, <3>2 DEF Secure, Secured, Doing
    <2>3. QED
      BY <2>1, <2>2
  <1>3. store'[c] = store[c]
    <2>1. CASE store' = store
      BY <2>1
    <2>2. CASE store' # store
      <3>1. PICK w \in Workers : Upsert(w) \/ Promote(w) \/ DeleteOwned(w)
        BY <2>2, StoreChanges
      <3>2. PICK m \in Manifests : Mine(w) = m
        BY <3>1, MineOK DEF Upsert, Promote, DeleteOwned, Doing
      <3>3. manifest[m] = "authorized" /\ OwnChange(m)
        BY <3>1, <3>2, WritesAreOwn
      <3>4. m # n
        BY <3>1, <3>3 DEF Upsert, Promote, DeleteOwned
      <3>5. CASE c # CollectionOf[m]
        BY <3>3, <3>5 DEF OwnChange
      <3>6. CASE c = CollectionOf[m]
        <4>1. \A p \in Points : store[c][p] =
                IF p \in PointsOf[n] THEN [owner |-> n, status |-> "ingested"] ELSE None
          BY <1>1, <1>2 DEF Exactly
        <4>2. \A p \in Points : store[c][p] # None => store[c][p].owner = n
          BY <4>1
        <4>3. ~OwnOnly(m)
          <5>1. PICK p \in Points : p \in PointsOf[n]
            BY ConstantsAssumption
          <5>2. store[c][p] # None
            <6>1. [owner |-> n, status |-> "ingested"] \in Placed
              BY DEF Placed
            <6>2. QED
              BY <4>1, <5>1, <6>1, NoneAssumption
          <5>3. QED
            BY <3>4, <3>6, <4>2, <5>2 DEF OwnOnly
        <4>4. \A p \in Points : store'[c][p] = store[c][p]
          BY <3>3, <3>4, <3>6, <4>2, <4>3 DEF OwnChange
        <4>5. store[c] \in [Points -> PointStates] /\ store'[c] \in [Points -> PointStates]
          BY DEF TypeOK
        <4>6. QED
          BY <4>4, <4>5
      <3>7. QED
        BY <3>5, <3>6
    <2>3. QED
      BY <2>1, <2>2
  <1>4. QED
    BY <1>1, <1>2, <1>3 DEF Exactly

\* write_manifest and cleanup_manifest_points: unless deployments of two manifests
\* of one collection overlap, an ingested manifest keeps its points, all visible.
THEOREM IngestedPointsStay == ASSUME Separate PROVE Spec => []CommittedPointsStay
  <1>1. Init => CommittedPointsStay
    BY DEF Init, CommittedPointsStay
  <1>2. QED
    BY <1>1, InitSql, InitSecure, NextSql, NextSecure, NextCommitted, PTL DEF Spec

\* The same requests take or replace a point only while its owner's own operation
\* runs, before that manifest is ingested.
THEOREM PointsChangeOnlyUnderOperation == ASSUME Separate PROVE Spec => PointsChangeUnderOperation
  <1> DEFINE OwnersOperate ==
        \A c \in Collections, p \in Points :
          store'[c][p] # store[c][p] /\ store[c][p] # None =>
            /\ manifest[store[c][p].owner] = "authorized"
            /\ \E id \in ActiveOn(store[c][p].owner) : operation[id].state = "running"
  <1>1. TypeOK /\ TypeOK' /\ Sql /\ Secure /\ [Next]_vars => [OwnersOperate]_vars
    <2> SUFFICES ASSUME TypeOK, TypeOK', Sql, Secure, [Next]_vars, NEW c \in Collections,
                        NEW p \in Points, store'[c][p] # store[c][p], store[c][p] # None
                 PROVE  /\ manifest[store[c][p].owner] = "authorized"
                        /\ \E id \in ActiveOn(store[c][p].owner) : operation[id].state = "running"
      OBVIOUS
    <2>1. PICK w \in Workers : Upsert(w) \/ Promote(w) \/ DeleteOwned(w)
      BY StoreChanges
    <2>2. PICK m \in Manifests : Mine(w) = m
      BY <2>1, MineOK DEF Upsert, Promote, DeleteOwned, Doing
    <2>3. /\ manifest[m] = "authorized" /\ OwnChange(m)
          /\ req[w].op \in ActiveOn(m) /\ operation[req[w].op].state = "running"
      BY <2>1, <2>2, WritesAreOwn
    <2>4. c = CollectionOf[m] /\ store[c][p].owner = m
      BY <2>3 DEF OwnChange, OwnOnly
    <2>5. ActiveOn(store[c][p].owner) = ActiveOn(m)
      BY <2>4 DEF ActiveOn
    <2>6. QED
      BY <2>3, <2>4, <2>5
  <1>2. QED
    BY <1>1, InitSql, InitSecure, NextSql, NextSecure, PTL DEF Spec, PointsChangeUnderOperation
=============================================================================
