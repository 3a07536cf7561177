--------------------------- MODULE RuntimeCorpus ---------------------------
(***************************************************************************)
(* The corpus a server process answers from: RuntimeContainer and          *)
(* RuntimeServices of app/runtime.py with the reader of                    *)
(* app/production_read_model.py, beside the activations of                 *)
(* CorpusActivation and the reviews that supersede what was projected.     *)
(*                                                                         *)
(* A reader locks nothing: every statement sees what is committed when it  *)
(* runs.  The threads of a process share what is loaded only under a lock, *)
(* and copy it: one request at a time stands for them.                     *)
(***************************************************************************)
EXTENDS Naturals, FiniteSets

CONSTANTS
  Workers, MaxCorpus, Scopes, Default, Absent,  \* of CorpusActivation
  Production,   \* PRODUCTION_RUNTIME_SCOPE
  Processes,    \* server processes
  Artifacts,    \* versions of Evidence Cards, nodes and relationship assertions
  ArtifactsOf   \* the items of each corpus's manifest

VARIABLES state, scope, pointer, req  \* of CorpusActivation

Activation == INSTANCE CorpusActivation WITH NoCorpus <- Absent

Corpora == 1..MaxCorpus

ASSUME RuntimeConstants ==
  /\ MaxCorpus \in Nat /\ Default \in Scopes /\ Absent \notin Corpora
  /\ Production \in Scopes
  /\ ArtifactsOf \in [Corpora -> SUBSET Artifacts]

VARIABLES
  superseded,  \* artifacts with a later version or decision, or of a merged entity
  runtime,     \* the container of each process
  serving      \* the start or request it is in, or Absent

activationVars == <<state, scope, pointer, req>>
runtimeVars == <<activationVars, superseded, runtime, serving>>

Containers ==
  [phase : {"not_started", "ready", "failed"}, corpus : Corpora \cup {Absent}]

\* How often it still checks what it serves, where it is, and the items left.  The
\* last two are history: what was active, or current, at some time since it began.
Servings ==
  [start : BOOLEAN, checks : 0..2, at : {"found", "pointer", "corpus", "items", "checked"},
   todo : SUBSET Artifacts, sawActive : SUBSET Corpora, sawCurrent : SUBSET Artifacts]

ASSUME AbsentServing == Absent \notin Servings

RuntimeTypeOK ==
  /\ Activation!TypeOK
  /\ superseded \subseteq Artifacts
  /\ runtime \in [Processes -> Containers]
  /\ serving \in [Processes -> Servings \cup {Absent}]

NotStarted == [phase |-> "not_started", corpus |-> Absent]

RuntimeInit ==
  /\ Activation!Init
  /\ superseded = {}
  /\ runtime = [p \in Processes |-> NotStarted]
  /\ serving = [p \in Processes |-> Absent]

-----------------------------------------------------------------------------
InService == {pointer[Production]} \ {Absent}

\* Open requests see what becomes active.
Watched ==
  [p \in Processes |->
    IF serving[p] = Absent THEN Absent
    ELSE [serving[p] EXCEPT !.sawActive = @ \cup ({pointer'[Production]} \ {Absent})]]

Activate ==
  /\ Activation!Next
  /\ serving' = Watched
  /\ UNCHANGED <<superseded, runtime>>

\* A review approves a later version, decides again or merges an entity: for good.
Supersede(a) ==
  /\ a \notin superseded
  /\ superseded' = superseded \cup {a}
  /\ UNCHANGED <<activationVars, runtime, serving>>

-----------------------------------------------------------------------------
(* A process.                                                               *)

At(p, place) == serving[p] # Absent /\ serving[p].at = place

Opened(start, checks, at) ==
  [start |-> start, checks |-> checks, at |-> at, todo |-> {},
   sawActive |-> InService, sawCurrent |-> Artifacts \ superseded]

Goes(p, place) ==
  /\ serving' = [serving EXCEPT ![p].at = place]
  /\ UNCHANGED <<activationVars, superseded, runtime>>

\* A start that is refused leaves a container that can only be replaced.
Refused(p) ==
  /\ serving' = [serving EXCEPT ![p] = Absent]
  /\ runtime' = IF serving[p].start THEN [runtime EXCEPT ![p].phase = "failed"] ELSE runtime
  /\ UNCHANGED <<activationVars, superseded>>

\* load_active_production_corpus: the pointer, and in a second statement its corpus.
FindCorpus(p) ==
  /\ runtime[p].phase = "not_started" /\ serving[p] = Absent
  /\ IF pointer[Production] = Absent
     THEN runtime' = [runtime EXCEPT ![p].phase = "failed"] /\ UNCHANGED serving
     ELSE /\ runtime' = [runtime EXCEPT ![p].corpus = pointer[Production]]
          /\ serving' = [serving EXCEPT ![p] = Opened(TRUE, 1, "found")]
  /\ UNCHANGED <<activationVars, superseded>>

LoadCorpus(p) ==
  /\ At(p, "found")
  /\ IF state[runtime[p].corpus] = "active" THEN Goes(p, "pointer") ELSE Refused(p)

\* Health asks once; a read, and Chat, check again before they look anything up.
BeginRequest(p, checks) ==
  /\ runtime[p].phase = "ready" /\ serving[p] = Absent
  /\ serving' = [serving EXCEPT ![p] = Opened(FALSE, checks, "pointer")]
  /\ UNCHANGED <<activationVars, superseded, runtime>>

\* Mutant: what was loaded at the start is served (_ensure_loaded).
Mutant_MustLoad(p) == serving[p].start

\* _reload forgets what was loaded.
MustLoad(p) == TRUE

\* _validate_live_binding: the pointer, then the corpus.
ReadPointer(p) ==
  /\ At(p, "pointer")
  /\ IF ~MustLoad(p) THEN Goes(p, "checked")
     ELSE IF pointer[Production] = runtime[p].corpus THEN Goes(p, "corpus")
     ELSE Refused(p)

ReadCorpus(p) ==
  LET c == runtime[p].corpus IN
  /\ At(p, "corpus")
  /\ IF state[c] = "active" /\ scope[c] = Production
     THEN /\ serving' = [serving EXCEPT ![p].at = "items", ![p].todo = ArtifactsOf[c]]
          /\ UNCHANGED <<activationVars, superseded, runtime>>
     ELSE Refused(p)

\* _load_item: its latest version, its decisions, its entities.
ReadItem(p, a) ==
  /\ At(p, "items") /\ a \in serving[p].todo
  /\ IF a \in superseded THEN Refused(p)
     ELSE /\ serving' = [serving EXCEPT ![p].todo = @ \ {a}]
          /\ UNCHANGED <<activationVars, superseded, runtime>>

Loaded(p) ==
  /\ At(p, "items") /\ serving[p].todo = {}
  /\ serving' = [serving EXCEPT ![p].checks = @ - 1,
                                ![p].at = IF serving[p].checks > 1 THEN "pointer" ELSE "checked"]
  /\ UNCHANGED <<activationVars, superseded, runtime>>

\* The vector store is found ready, or searched and an answer generated.
Serve(p) ==
  /\ At(p, "checked")
  /\ runtime' = IF serving[p].start THEN [runtime EXCEPT ![p].phase = "ready"] ELSE runtime
  /\ serving' = [serving EXCEPT ![p] = Absent]
  /\ UNCHANGED <<activationVars, superseded>>

\* The database, the vector store or the model fails.
FailServing(p) == serving[p] # Absent /\ Refused(p)

\* The process ends, and another takes its place.
Restart(p) ==
  /\ runtime[p].phase # "not_started"
  /\ runtime' = [runtime EXCEPT ![p] = NotStarted]
  /\ serving' = [serving EXCEPT ![p] = Absent]
  /\ UNCHANGED <<activationVars, superseded>>

RuntimeNext ==
  \/ Activate
  \/ \E a \in Artifacts : Supersede(a)
  \/ \E p \in Processes :
       \/ FindCorpus(p) \/ LoadCorpus(p) \/ ReadPointer(p) \/ ReadCorpus(p)
       \/ Loaded(p) \/ Serve(p) \/ FailServing(p) \/ Restart(p)
       \/ \E checks \in 1..2 : BeginRequest(p, checks)
       \/ \E a \in Artifacts : ReadItem(p, a)

RuntimeSpec == RuntimeInit /\ [][RuntimeNext]_runtimeVars

-----------------------------------------------------------------------------
(* Properties.                                                              *)

\* Nothing stale is served, though no reader locks anything and every check is several
\* statements: what a process becomes ready with, or answers from, was in service, and
\* all of it current, at some time since that start or request began.
ServedIsCurrent ==
  \A p \in Processes : At(p, "checked") =>
    /\ runtime[p].corpus \in serving[p].sawActive
    /\ ArtifactsOf[runtime[p].corpus] \subseteq serving[p].sawCurrent
=============================================================================
