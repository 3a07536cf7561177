----------------------- MODULE CorpusActivation_proofs -----------------------
(***************************************************************************)
(* Machine-checked facts about CorpusActivation, for any number of         *)
(* workers, corpora and scopes.                                            *)
(***************************************************************************)
EXTENDS CorpusActivation, TLAPS

\* Leaving keeps every request well-formed.
LEMMA LeaveOK ==
  ASSUME req \in [Workers -> {Idle} \cup Busy], NEW w \in Workers, Leave(w)
  PROVE  req' \in [Workers -> {Idle} \cup Busy]
  BY DEF Leave

\* A request in a phase other than idle names a corpus and a scope.
LEMMA BusyRequest ==
  ASSUME TypeOK, NEW w \in Workers, req[w].pc # "idle"
  PROVE  req[w] \in Busy
  BY DEF TypeOK, Idle

\* What a flush leaves of the rows is typed.
LEMMA FlushTypeOK ==
  ASSUME TypeOK, NEW w \in Workers, FlushAndCommit(w)
  PROVE  TypeOK'
  <1>1. req[w] \in Busy
    BY BusyRequest DEF FlushAndCommit, Doing
  <1>2. PICK c \in Corpora, s \in Scopes : req[w].corpus = c /\ req[w].scope = s
    BY <1>1 DEF Busy
  <1>3. req' \in [Workers -> {Idle} \cup Busy]
    BY LeaveOK DEF FlushAndCommit, TypeOK
  <1>4. CASE Accepted(w)
    <2>1. /\ state' = NextState(w)
          /\ scope' = [scope EXCEPT ![c] = s]
          /\ pointer' = [pointer EXCEPT ![s] = c]
      BY <1>2, <1>4 DEF FlushAndCommit
    <2>2. NextState(w) \in [Corpora -> {"absent", "staged", "active", "inactive"}]
      BY DEF NextState, TypeOK
    <2>3. QED
      BY <1>3, <2>1, <2>2 DEF TypeOK
  <1>5. CASE ~Accepted(w)
    BY <1>3, <1>5 DEF FlushAndCommit, TypeOK
  <1>6. QED
    BY <1>4, <1>5

\* Initially, and after every step, the rows have their types.
LEMMA InitTypeOK == Init => TypeOK
  BY ConstantsAssumption DEF Init, TypeOK

LEMMA NextTypeOK == TypeOK /\ [Next]_vars => TypeOK'
  <1> SUFFICES ASSUME TypeOK, [Next]_vars PROVE TypeOK'
    OBVIOUS
  <1>1. CASE UNCHANGED vars
    BY <1>1 DEF vars, TypeOK
  <1>2. ASSUME NEW c \in Corpora, Ingest(c) PROVE TypeOK'
    BY <1>2 DEF Ingest, TypeOK
  <1>3. ASSUME NEW w \in Workers, NEW c \in Corpora, NEW s \in Scopes, LockCorpus(w, c, s)
        PROVE TypeOK'
    <2>1. [pc |-> "corpus", corpus |-> c, scope |-> s, previous |-> NoCorpus] \in Busy
      BY DEF Busy
    <2>2. QED
      BY <1>3, <2>1 DEF LockCorpus, TypeOK
  <1>4. ASSUME NEW w \in Workers, LockPointer(w) PROVE TypeOK'
    <2>1. req[w] \in Busy
      BY <1>4, BusyRequest DEF LockPointer, Doing
    <2>2. [req[w] EXCEPT !.pc = "pointer", !.previous = pointer[req[w].scope]] \in Busy
      BY <2>1 DEF Busy, TypeOK
    <2>3. QED
      BY <1>4, <2>2 DEF LockPointer, TypeOK
  <1>5. ASSUME NEW w \in Workers, FlushAndCommit(w) PROVE TypeOK'
    BY <1>5, FlushTypeOK
  <1>6. ASSUME NEW w \in Workers, Abort(w) PROVE TypeOK'
    BY <1>6, LeaveOK DEF Abort, TypeOK
  <1>7. QED
    BY <1>1, <1>2, <1>3, <1>4, <1>5, <1>6 DEF Next, Step

\* Every reachable state of the corpus and pointer tables is well-typed.
THEOREM TypeCorrect == Spec => []TypeOK
  BY InitTypeOK, NextTypeOK, PTL DEF Spec

-----------------------------------------------------------------------------
(* One active corpus per scope.                                             *)

\* The pointer row is locked by one thread, and stays as that thread read it.
PointerHeld ==
  \A w \in Workers : Doing(w, {"pointer"}) /\ req[w].previous # NoCorpus =>
    /\ pointer[req[w].scope] = req[w].previous
    /\ \A x \in Workers \ {w} :
         Doing(x, {"pointer"}) /\ req[x].scope = req[w].scope => req[x].previous = NoCorpus

LEMMA NextPointerHeld == TypeOK /\ PointerHeld /\ [Next]_vars => PointerHeld'
  <1> SUFFICES ASSUME TypeOK, PointerHeld, [Next]_vars PROVE PointerHeld'
    OBVIOUS
  <1>1. CASE UNCHANGED vars
    BY <1>1 DEF vars, PointerHeld, Doing
  <1>2. ASSUME NEW c \in Corpora, Ingest(c) PROVE PointerHeld'
    BY <1>2 DEF Ingest, PointerHeld, Doing
  <1>3. ASSUME NEW w \in Workers, NEW c \in Corpora, NEW s \in Scopes, LockCorpus(w, c, s)
        PROVE  PointerHeld'
    <2>1. /\ UNCHANGED pointer
          /\ \A x \in Workers : Doing(x, {"pointer"})' => req'[x] = req[x]
      BY <1>3 DEF LockCorpus, TypeOK, Doing
    <2>2. QED
      BY <2>1 DEF PointerHeld, Doing
  <1>4. ASSUME NEW w \in Workers, LockPointer(w) PROVE PointerHeld'
    <2>1. req[w] \in Busy
      BY <1>4, BusyRequest DEF LockPointer, Doing
    <2> DEFINE r == [req[w] EXCEPT !.pc = "pointer", !.previous = pointer[req[w].scope]]
    <2>2. r.pc = "pointer" /\ r.previous = pointer[req[w].scope] /\ r.scope = req[w].scope
      BY <2>1 DEF Busy
    <2>3. UNCHANGED pointer /\ req' = [req EXCEPT ![w] = r]
      BY <1>4 DEF LockPointer
    <2> HIDE DEF r
    <2>4. \A x \in Workers : req'[x] = IF x = w THEN r ELSE req[x]
      BY <2>3 DEF TypeOK
    <2>5. \A x \in Workers \ {w} :
             Doing(x, {"pointer"}) /\ req[x].scope = r.scope => req[x].previous = NoCorpus
      BY <1>4, <2>2 DEF LockPointer, PointerFree
    <2>6. QED
      BY <2>2, <2>3, <2>4, <2>5 DEF PointerHeld, Doing
  <1>5. ASSUME NEW w \in Workers, FlushAndCommit(w) PROVE PointerHeld'
    <2>1. \A x \in Workers : Doing(x, {"pointer"})' => x # w /\ req'[x] = req[x]
      BY <1>5 DEF FlushAndCommit, Leave, TypeOK, Doing, Idle
    <2>2. CASE ~Accepted(w)
      <3>1. UNCHANGED pointer
        BY <1>5, <2>2 DEF FlushAndCommit
      <3>2. QED
        BY <2>1, <3>1 DEF PointerHeld, Doing
    <2>3. CASE Accepted(w)
      <3>1. PICK c \in Corpora, s \in Scopes : req[w].corpus = c /\ req[w].scope = s
        BY <1>5, BusyRequest DEF FlushAndCommit, Doing, Busy
      <3>2. pointer' = [pointer EXCEPT ![s] = c] /\ Doing(w, {"pointer"})
        BY <1>5, <2>3, <3>1 DEF FlushAndCommit
      <3>3. ASSUME NEW x \in Workers, Doing(x, {"pointer"})', req[x].previous # NoCorpus
            PROVE  req[x].scope # s
        <4>1. x # w /\ Doing(x, {"pointer"})
          BY <2>1, <3>3 DEF Doing
        <4>2. req[x].scope = s => pointer[s] # NoCorpus /\ req[w].previous = NoCorpus
          BY <3>1, <3>2, <3>3, <4>1 DEF PointerHeld
        <4>3. QED
          BY <2>3, <3>1, <4>2 DEF Accepted, PointerKeyFree
      <3>4. QED
        BY <2>1, <3>2, <3>3 DEF PointerHeld, Doing, TypeOK
    <2>4. QED
      BY <2>2, <2>3
  <1>6. ASSUME NEW w \in Workers, Abort(w) PROVE PointerHeld'
    <2>1. \A x \in Workers : Doing(x, {"pointer"})' => req'[x] = req[x]
      BY <1>6 DEF Abort, Leave, TypeOK, Doing, Idle
    <2>2. QED
      BY <1>6, <2>1 DEF Abort, PointerHeld, Doing
  <1>7. QED
    BY <1>1, <1>2, <1>3, <1>4, <1>5, <1>6 DEF Next, Step

LEMMA PointerAsRead ==
  ASSUME PointerHeld, NEW w \in Workers, Doing(w, {"pointer"}), PointerKeyFree(w)
  PROVE  pointer[req[w].scope] = req[w].previous
  BY DEF PointerHeld, PointerKeyFree

\* A flush keeps pointers and active corpora in one-to-one correspondence: the
\* trigger keeps an active corpus in its scope, the index any other one out.
LEMMA FlushKeepsOneActive ==
  ASSUME TypeOK, PointerHeld, OneActivePerScope, NEW w \in Workers, FlushAndCommit(w)
  PROVE  OneActivePerScope'
  <1>1. CASE ~Accepted(w)
    BY <1>1 DEF FlushAndCommit, OneActivePerScope
  <1>2. CASE Accepted(w)
    <2>1. PICK c \in Corpora, s \in Scopes : req[w].corpus = c /\ req[w].scope = s
      BY BusyRequest DEF FlushAndCommit, Doing, Busy
    <2>0. pointer[s] = req[w].previous
      BY <1>2, <2>1, PointerAsRead DEF Accepted, FlushAndCommit
    <2>2. /\ pointer' = [pointer EXCEPT ![s] = c]
          /\ scope' = [scope EXCEPT ![c] = s]
          /\ state' = [d \in Corpora |-> IF d = c THEN "active"
                                         ELSE IF d = pointer[s] THEN "inactive" ELSE state[d]]
      BY <1>2, <2>0, <2>1 DEF FlushAndCommit, NextState
    <2>3. scope[c] # s => state[c] = "staged"
      BY <1>2, <2>1 DEF Accepted, ScopeFixed
    <2>4. \A d \in Corpora \ {c} : state[d] = "active" /\ scope[d] = s => d = pointer[s]
      BY <1>2, <2>0, <2>1 DEF Accepted, IndexAllows
    <2> SUFFICES ASSUME NEW t \in Scopes, NEW d \in Corpora
                 PROVE  pointer'[t] = d <=> state'[d] = "active" /\ scope'[d] = t
      BY DEF OneActivePerScope
    <2>5. pointer[t] = d <=> state[d] = "active" /\ scope[d] = t
      BY DEF OneActivePerScope
    <2>6. pointer[s] = d <=> state[d] = "active" /\ scope[d] = s
      BY DEF OneActivePerScope
    <2>7. CASE t = s
      BY <2>2, <2>4, <2>6, <2>7 DEF TypeOK
    <2>8. CASE t # s /\ d = c
      BY <2>2, <2>3, <2>5, <2>8 DEF TypeOK
    <2>9. CASE t # s /\ d # c
      BY <2>2, <2>5, <2>6, <2>9 DEF TypeOK
    <2>10. QED
      BY <2>7, <2>8, <2>9
  <1>3. QED
    BY <1>1, <1>2

\* Each scope's pointer names its one active corpus (activate_corpus, with
\* uq_corpus_one_active_per_scope and the scope trigger).
THEOREM PointersNameActiveCorpora == Spec => []OneActivePerScope
  <1>1. Init => PointerHeld /\ OneActivePerScope
    BY ConstantsAssumption DEF Init, PointerHeld, OneActivePerScope, Corpora, Doing, Idle
  <1>2. TypeOK /\ PointerHeld /\ OneActivePerScope /\ [Next]_vars => OneActivePerScope'
    <2> SUFFICES ASSUME TypeOK, PointerHeld, OneActivePerScope, [Next]_vars PROVE OneActivePerScope'
      OBVIOUS
    <2>1. ASSUME NEW c \in Corpora, Ingest(c) PROVE OneActivePerScope'
      BY <2>1 DEF Ingest, OneActivePerScope, TypeOK
    <2>2. ASSUME NEW w \in Workers, FlushAndCommit(w) PROVE OneActivePerScope'
      BY <2>2, FlushKeepsOneActive
    <2>3. CASE UNCHANGED <<state, scope, pointer>>
      BY <2>3 DEF OneActivePerScope
    <2>4. QED
      BY <2>1, <2>2, <2>3 DEF Next, Step, LockCorpus, LockPointer, Abort, vars
  <1>3. QED
    BY <1>1, <1>2, NextPointerHeld, TypeCorrect, PTL DEF Spec

\* A scope that has an active corpus has one after every step.
THEOREM ServiceIsNeverLost == Spec => ServiceNeverLost
  <1>1. ASSUME TypeOK, TypeOK', OneActivePerScope', [Next]_vars,
               NEW s \in Scopes, pointer[s] # NoCorpus
        PROVE  pointer'[s] # NoCorpus /\ state'[pointer'[s]] = "active"
    <2>1. pointer'[s] # NoCorpus
      <3>1. CASE UNCHANGED pointer
        BY <1>1, <3>1
      <3>2. ASSUME NEW w \in Workers, FlushAndCommit(w), Accepted(w)
            PROVE pointer'[s] # NoCorpus
        <4>1. PICK c \in Corpora : pointer' = [pointer EXCEPT ![req[w].scope] = c]
          BY <1>1, <3>2, BusyRequest DEF FlushAndCommit, Doing, Busy
        <4>2. QED
          BY <1>1, <4>1, ConstantsAssumption DEF TypeOK, Corpora
      <3>3. QED
        BY <1>1, <3>1, <3>2
           DEF Next, Step, Ingest, LockCorpus, LockPointer, FlushAndCommit, Abort, vars
    <2>2. pointer'[s] \in Corpora
      BY <1>1, <2>1 DEF TypeOK
    <2>3. QED
      BY <1>1, <2>1, <2>2 DEF OneActivePerScope
  <1>2. TypeOK /\ TypeOK' /\ OneActivePerScope' /\ [Next]_vars =>
          [\A s \in Scopes : pointer[s] # NoCorpus =>
             pointer'[s] # NoCorpus /\ state'[pointer'[s]] = "active"]_vars
    BY <1>1
  <1>3. QED
    BY <1>2, TypeCorrect, PointersNameActiveCorpora, PTL DEF Spec, ServiceNeverLost
=============================================================================
