-------------------------- MODULE CorpusActivation --------------------------
(***************************************************************************)
(* Activation of ingested corpora: activate_corpus of                      *)
(* research/review/storage_workflow_service.py over corpus_versions and    *)
(* active_corpus_pointers, with the partial unique index and the triggers  *)
(* of migrations/versions/20260808_0004_storage_workflow.py.               *)
(*                                                                         *)
(* A corpus is numbered by its primary key, whose order is the order in    *)
(* which a flush updates rows of one table.  A transaction is an action    *)
(* for each row lock it takes before the flush, and one for flush and      *)
(* commit; a refusal or an abort releases its locks and goes idle.         *)
(***************************************************************************)
EXTENDS Naturals, FiniteSets

CONSTANTS
  Workers,    \* request threads, across all server processes
  MaxCorpus,  \* bound: corpora that can be ingested
  Scopes,     \* runtime scopes
  Default,    \* the scope a corpus is staged for
  NoCorpus    \* no corpus

ASSUME ConstantsAssumption ==
  /\ MaxCorpus \in Nat
  /\ Default \in Scopes
  /\ NoCorpus \notin 1..MaxCorpus

Corpora == 1..MaxCorpus

VARIABLES
  state,    \* corpus_versions.activation_state ("absent": no row)
  scope,    \* corpus_versions.runtime_scope
  pointer,  \* active_corpus_pointers.corpus_id, per scope
  req       \* the activation each worker is executing

vars == <<state, scope, pointer, req>>

Idle == [pc |-> "idle"]

\* "corpus" holds the corpus row, "pointer" also the pointer row if there is one.
Busy == [pc : {"corpus", "pointer"}, corpus : Corpora, scope : Scopes,
         previous : Corpora \cup {NoCorpus}]

TypeOK ==
  /\ state \in [Corpora -> {"absent", "staged", "active", "inactive"}]
  /\ scope \in [Corpora -> Scopes]
  /\ pointer \in [Scopes -> Corpora \cup {NoCorpus}]
  /\ req \in [Workers -> {Idle} \cup Busy]

Init ==
  /\ state = [c \in Corpora |-> "absent"]
  /\ scope = [c \in Corpora |-> Default]
  /\ pointer = [s \in Scopes |-> NoCorpus]
  /\ req = [w \in Workers |-> Idle]

-----------------------------------------------------------------------------
Doing(w, phases) == req[w].pc \in phases
\* Mutant: the request is not reset.
Mutant_Leave(w) == req' = [req EXCEPT ![w].pc = "idle"]

Leave(w) == req' = [req EXCEPT ![w] = Idle]

CorpusFree(w, c) ==
  \A x \in Workers \ {w} : Doing(x, {"corpus", "pointer"}) => req[x].corpus # c

\* Only an existing pointer row can be locked.
PointerFree(w, s) ==
  \A x \in Workers \ {w} :
    Doing(x, {"pointer"}) /\ req[x].scope = s => req[x].previous = NoCorpus

\* A corpus the flush takes out of service.
Replaces(w) == req[w].previous \notin {NoCorpus, req[w].corpus}

\* Finalization of an ingestion stages its corpus.
Ingest(c) ==
  /\ state[c] = "absent"
  /\ state' = [state EXCEPT ![c] = "staged"]
  /\ UNCHANGED <<scope, pointer, req>>

\* The corpus row is locked, then its receipt and manifest are checked.
LockCorpus(w, c, s) ==
  /\ req[w] = Idle
  /\ state[c] # "absent"
  /\ CorpusFree(w, c)
  /\ req' = [req EXCEPT ![w] = [pc |-> "corpus", corpus |-> c, scope |-> s, previous |-> NoCorpus]]
  /\ UNCHANGED <<state, scope, pointer>>

\* The scope's pointer, FOR UPDATE, and through it the previous corpus.
LockPointer(w) ==
  /\ Doing(w, {"corpus"})
  /\ PointerFree(w, req[w].scope)
  /\ req' = [req EXCEPT ![w].pc = "pointer", ![w].previous = pointer[req[w].scope]]
  /\ UNCHANGED <<state, scope, pointer>>

\* Mutant: a corpus may be moved to another scope while it is active.
Mutant_ScopeFixed(w) == TRUE

\* Trigger: the scope of a corpus becomes fixed at its first activation.
ScopeFixed(w) ==
  req[w].scope # scope[req[w].corpus] => state[req[w].corpus] = "staged"

\* Partial unique index, not deferrable: when the corpus is updated no other row is
\* active in its scope; the previous one no longer is if its row came first.
IndexAllows(w) ==
  \A c \in Corpora \ {req[w].corpus} :
    state[c] = "active" /\ scope[c] = req[w].scope =>
      c = req[w].previous /\ c < req[w].corpus

\* A pointer that was not there is inserted, and its primary key must still be free.
PointerKeyFree(w) == req[w].previous = NoCorpus => pointer[req[w].scope] = NoCorpus

Accepted(w) == ScopeFixed(w) /\ IndexAllows(w) /\ PointerKeyFree(w)

\* Mutant: the previous corpus is replaced even by itself.
Mutant_NextState(w) ==
  [c \in Corpora |-> IF c = req[w].previous THEN "inactive"
                     ELSE IF c = req[w].corpus THEN "active" ELSE state[c]]

NextState(w) ==
  [c \in Corpora |-> IF c = req[w].corpus THEN "active"
                     ELSE IF c = req[w].previous THEN "inactive" ELSE state[c]]

\* Mutant: a refused activation is tried again.
Mutant_FlushAndCommit(w) ==
  /\ Doing(w, {"pointer"})
  /\ Replaces(w) => CorpusFree(w, req[w].previous)
  /\ Accepted(w)
  /\ state' = NextState(w)
  /\ scope' = [scope EXCEPT ![req[w].corpus] = req[w].scope]
  /\ pointer' = [pointer EXCEPT ![req[w].scope] = req[w].corpus]
  /\ Leave(w)

\* The previous corpus becomes inactive, this one active, the pointer names it.
FlushAndCommit(w) ==
  LET c == req[w].corpus
      s == req[w].scope IN
  /\ Doing(w, {"pointer"})
  /\ Replaces(w) => CorpusFree(w, req[w].previous)
  /\ IF Accepted(w)
       THEN /\ state' = NextState(w)
            /\ scope' = [scope EXCEPT ![c] = s]
            /\ pointer' = [pointer EXCEPT ![s] = c]
       ELSE UNCHANGED <<state, scope, pointer>>
  /\ Leave(w)

\* The process dies, a statement fails, the actor or the corpus is refused.
Abort(w) ==
  /\ req[w] # Idle
  /\ Leave(w)
  /\ UNCHANGED <<state, scope, pointer>>

\* w waits for a row that x holds.
WaitsFor(w, x) ==
  \/ /\ Doing(w, {"corpus"}) /\ Doing(x, {"pointer"})
     /\ req[x].scope = req[w].scope /\ req[x].previous # NoCorpus
  \/ /\ Doing(w, {"pointer"}) /\ Replaces(w)
     /\ Doing(x, {"corpus", "pointer"}) /\ req[x].corpus = req[w].previous

Step(w) == LockPointer(w) \/ FlushAndCommit(w)

Next ==
  \/ \E c \in Corpora : Ingest(c)
  \/ \E w \in Workers, c \in Corpora, s \in Scopes : LockCorpus(w, c, s)
  \/ \E w \in Workers : Step(w) \/ Abort(w)

Spec == Init /\ [][Next]_vars

\* w is among transactions of which each waits for another.
Deadlocked(w) ==
  \E S \in SUBSET Workers :
    w \in S /\ \A x \in S : \E y, z \in S : WaitsFor(x, y) /\ WaitsFor(z, x)

\* The database aborts a transaction in a cycle of waits.
DeadlockVictim(w) == Deadlocked(w) /\ Abort(w)

\* Row locks are granted in turn.
FairSpec ==
  Spec /\ \A w \in Workers : SF_vars(Step(w)) /\ WF_vars(DeadlockVictim(w))

-----------------------------------------------------------------------------
(* Properties.                                                              *)

\* The pointer of a scope names its one active corpus, and there is no active
\* corpus without a pointer: two activations that read the same previous corpus,
\* or move one corpus between scopes, cannot leave two, or a pointer at an
\* inactive one, which get_active_corpus and the startup loader would refuse.
OneActivePerScope ==
  \A s \in Scopes, c \in Corpora :
    pointer[s] = c <=> state[c] = "active" /\ scope[c] = s

\* Once a scope has an active corpus it never is without one.
ServiceNeverLost ==
  [][\A s \in Scopes : pointer[s] # NoCorpus =>
       pointer'[s] # NoCorpus /\ state'[pointer'[s]] = "active"]_vars

\* Activations in opposite orders wait for each other's rows; each still ends.
ActivationsEnd == \A w \in Workers : req[w] # Idle ~> req[w] = Idle

\* "It marks the selected corpus active, the previous corpus for the same scope
\* inactive": of two ingested corpora either can replace the other.
SuccessorReplaces ==
  [][\A w \in Workers :
       Doing(w, {"pointer"}) /\ FlushAndCommit(w) /\ req[w].scope = scope[req[w].corpus] =>
         pointer'[req[w].scope] = req[w].corpus]_vars
=============================================================================
