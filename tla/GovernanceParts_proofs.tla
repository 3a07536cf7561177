------------------------ MODULE GovernanceParts_proofs ------------------------
(***************************************************************************)
(* Machine-checked facts about the parts beside the governance services:   *)
(* the corpus a process serves (RuntimeCorpus), the batch commands         *)
(* (GovernanceClients), acquisition staging (AcquisitionStaging) and the   *)
(* fixed acquisition run (AcquisitionBundle), for any number of processes, *)
(* corpora, requests, runs, batches, candidates and commands.              *)
(***************************************************************************)
EXTENDS RuntimeCorpus, GovernanceClients, FiniteSetTheorems, AcquisitionStaging,
  AcquisitionBundle, TLAPS

-----------------------------------------------------------------------------
(* RuntimeCorpus: the inductive invariant.                                  *)

Checking == {"corpus", "items", "checked"}

\* What an open start or request has seen: whatever is in service or current now, and,
\* once it has read the pointer, its own corpus; of that corpus the items it has read.
ServingHolds(p) ==
  serving[p] # Absent =>
    LET s == serving[p]
        c == runtime[p].corpus
    IN /\ c \in Corpora
       /\ s.at # "checked" => s.checks >= 1
       /\ InService \subseteq s.sawActive
       /\ Artifacts \ superseded \subseteq s.sawCurrent
       /\ s.at \in Checking => c \in s.sawActive
       /\ s.at = "items" => ArtifactsOf[c] \subseteq s.todo \cup s.sawCurrent
       /\ s.at = "checked" => ArtifactsOf[c] \subseteq s.sawCurrent

RuntimeSafe ==
  /\ RuntimeTypeOK
  /\ \A p \in Processes : runtime[p].phase = "ready" => runtime[p].corpus \in Corpora
  /\ \A p \in Processes : ServingHolds(p)

-----------------------------------------------------------------------------
(* GovernanceClients: the inductive invariant.                              *)

\* A completed record shows a request of its Source version, and is the only one of its
\* actor, operation and file.
AnswersHold ==
  /\ \A a \in answers :
       /\ a.sequence \in 1..Len(chain[a.item])
       /\ chain[a.item][a.sequence] = [by |-> a.by, cmd |-> a.cmd]
  /\ \A a, b \in answers : a.by = b.by /\ a.cmd = b.cmd /\ a.item = b.item => a = b

\* A request made through a key has its record; a version is registered by its first.
ChainHolds(i) ==
  \A k \in DOMAIN chain[i] :
    /\ chain[i][k].cmd = "register" <=> k = 1
    /\ chain[i][k].cmd = "amend" =>
         [by |-> chain[i][k].by, cmd |-> "amend", item |-> i, sequence |-> k] \in answers

\* A run that goes on has not reported yet and shares its session with no other; what it
\* counts as accepted is so.
RunHolds(u) ==
  cli[u] # None =>
    /\ cli[u].run <= started /\ report[cli[u].run] = None
    /\ \A v \in Users \ {u} : cli[v] # None => cli[v].run # cli[u].run
    /\ cli[u].at # "logout" => cli[u].next <= Batch
    /\ \A i \in cli[u].accepted : Accomplished(cli[u].cmd, i)

ClientSafe ==
  /\ ClientTypeOK
  /\ AnswersHold
  /\ \A i \in Items : ChainHolds(i)
  /\ \A u \in Users : RunHolds(u)
  /\ live \subseteq 1..started
  /\ \A n \in Runs : report[n] # None => n <= started
  /\ ReportsAreTrue

-----------------------------------------------------------------------------
(* AcquisitionStaging: the inductive invariant.                             *)

\* A ledger whose time no command will change any more.
Fixed(b) ==
  /\ ledgers[b] # 0
  /\ \A w \in Stagers :
       staging[w] # None /\ staging[w].batch = b =>
         ~staging[w].new \/ staging[w].at \in {"payloads", "exists", "report"}

\* Only a command that puts a new ledger in its place changes its time; what it puts it
\* after are fixed ledgers, and it knows a time that none of them exceeds.
StagerHolds(w) ==
  staging[w] # None =>
    /\ staging[w].at = "order" => staging[w].new
    /\ staging[w].new =>
         \A b \in staging[w].after :
           /\ b # staging[w].batch /\ Fixed(b)
           /\ staging[w].at \in {"link", "order"} => ledgers[b] <= staging[w].previous

\* The ledger staged later is newer.
SinceHolds ==
  \A pair \in since : Fixed(pair[1]) /\ ledgers[pair[1]] < ledgers[pair[2]]

\* A submission was superseded when it began only if its ledger is; it passed the check
\* only if not; and all it sends and has accepted is what its ledger commits to.
SubmissionHolds(u) ==
  submitting[u] # None =>
    LET s == submitting[u]
    IN /\ s.replaced => \E c \in Batches : <<s.ledger, c>> \in since
       /\ s.at \in {"prepare", "send", "done"} => ~s.replaced
       /\ s.items \subseteq PayloadsOf[s.ledger]
       /\ s.accepted \subseteq sources \cap PayloadsOf[s.ledger]

StagingSafe ==
  /\ StagingTypeOK
  /\ \A w \in Stagers : StagerHolds(w)
  /\ SinceHolds
  /\ sources \subseteq Files
  /\ \A r \in receipts : r.item \in sources
  /\ \A u \in Senders : SubmissionHolds(u)

-----------------------------------------------------------------------------
(* RuntimeCorpus: activations keep their types.                             *)

LEMMA BusyRequest ==
  ASSUME Activation!TypeOK, NEW w \in Workers, Activation!Doing(w, {"corpus", "pointer"})
  PROVE  req[w] \in Activation!Busy
  BY DEF Activation!TypeOK, Activation!Idle, Activation!Doing

LEMMA ActivationInitTypes == Activation!Init => Activation!TypeOK
  BY RuntimeConstants DEF Activation!Init, Activation!TypeOK, Corpora, Activation!Corpora

LEMMA ActivationTypes ==
  ASSUME Activation!TypeOK, [Activation!Next]_activationVars
  PROVE  Activation!TypeOK'
  <1> USE DEF Activation!TypeOK
  <1>1. CASE UNCHANGED activationVars
    BY <1>1 DEF activationVars
  <1>2. ASSUME NEW c \in Activation!Corpora, Activation!Ingest(c) PROVE Activation!TypeOK'
    BY <1>2 DEF Activation!Ingest
  <1>3. ASSUME NEW w \in Workers, NEW c \in Activation!Corpora, NEW s \in Scopes,
               Activation!LockCorpus(w, c, s)
        PROVE  Activation!TypeOK'
    <2>1. [pc |-> "corpus", corpus |-> c, scope |-> s, previous |-> Absent] \in Activation!Busy
      BY DEF Activation!Busy
    <2>2. QED
      BY <1>3, <2>1 DEF Activation!LockCorpus
  <1>4. ASSUME NEW w \in Workers, Activation!LockPointer(w) PROVE Activation!TypeOK'
    <2>1. req[w] \in Activation!Busy
      BY <1>4, BusyRequest DEF Activation!LockPointer, Activation!Doing
    <2>2. [req[w] EXCEPT !.pc = "pointer", !.previous = pointer[req[w].scope]] \in Activation!Busy
      BY <2>1 DEF Activation!Busy
    <2>3. QED
      BY <1>4, <2>2 DEF Activation!LockPointer
  <1>5. ASSUME NEW w \in Workers, Activation!FlushAndCommit(w) PROVE Activation!TypeOK'
    <2>1. req[w] \in Activation!Busy
      BY <1>5, BusyRequest DEF Activation!FlushAndCommit, Activation!Doing
    <2>2. PICK c \in Activation!Corpora, s \in Scopes : req[w].corpus = c /\ req[w].scope = s
      BY <2>1 DEF Activation!Busy
    <2>3. req' \in [Workers -> {Activation!Idle} \cup Activation!Busy]
      BY <1>5 DEF Activation!FlushAndCommit, Activation!Leave
    <2>4. CASE Activation!Accepted(w)
      <3>1. /\ state' = Activation!NextState(w)
            /\ scope' = [scope EXCEPT ![c] = s] /\ pointer' = [pointer EXCEPT ![s] = c]
        BY <1>5, <2>2, <2>4 DEF Activation!FlushAndCommit
      <3>2. Activation!NextState(w) \in
              [Activation!Corpora -> {"absent", "staged", "active", "inactive"}]
        BY DEF Activation!NextState
      <3>3. QED
        BY <2>3, <3>1, <3>2
    <2>5. CASE ~Activation!Accepted(w)
      BY <1>5, <2>3, <2>5 DEF Activation!FlushAndCommit
    <2>6. QED
      BY <2>4, <2>5
  <1>6. ASSUME NEW w \in Workers, Activation!Abort(w) PROVE Activation!TypeOK'
    BY <1>6 DEF Activation!Abort, Activation!Leave
  <1>7. QED
    BY <1>1, <1>2, <1>3, <1>4, <1>5, <1>6 DEF Activation!Next, Activation!Step

LEMMA PointerTypes ==
  ASSUME Activation!TypeOK
  PROVE  pointer[Production] \in Corpora \cup {Absent}
  BY RuntimeConstants DEF Activation!TypeOK, Corpora, Activation!Corpora

-----------------------------------------------------------------------------
(* RuntimeCorpus: the steps.                                                *)

LEMMA ServingTypes ==
  ASSUME RuntimeTypeOK, NEW p \in Processes
  PROVE  /\ runtime[p] \in Containers
         /\ runtime[p].phase \in {"not_started", "ready", "failed"}
         /\ runtime[p].corpus \in Corpora \cup {Absent}
         /\ serving[p] # Absent =>
              /\ serving[p] \in Servings /\ serving[p].start \in BOOLEAN
              /\ serving[p].checks \in 0..2
              /\ serving[p].at \in {"found", "pointer", "corpus", "items", "checked"}
              /\ serving[p].todo \subseteq Artifacts /\ serving[p].sawActive \subseteq Corpora
              /\ serving[p].sawCurrent \subseteq Artifacts
  BY DEF RuntimeTypeOK, Containers, Servings

\* Nobody begins or goes on with a request, a start or a corpus; what is in service or
\* current may change.
LEMMA ActivateHolds ==
  ASSUME RuntimeSafe, Activate
  PROVE  RuntimeSafe'
  <1>1. RuntimeTypeOK /\ Activation!TypeOK'
    BY ActivationTypes DEF RuntimeSafe, RuntimeTypeOK, Activate
  <1>2. PICK seen : seen = {pointer'[Production]} \ {Absent}
    OBVIOUS
  <1>3. Activation!TypeOK' => pointer'[Production] \in Corpora \cup {Absent}
    BY RuntimeConstants DEF Activation!TypeOK, Corpora, Activation!Corpora
  <1>4. seen \subseteq Corpora
    BY <1>1, <1>2, <1>3
  <1>5. \A p \in Processes :
          serving'[p] = IF serving[p] = Absent THEN Absent
                        ELSE [serving[p] EXCEPT !.sawActive = @ \cup seen]
    BY <1>2 DEF Activate, Watched
  <1>6. UNCHANGED <<superseded, runtime>>
    BY DEF Activate
  <1>7. ASSUME NEW p \in Processes, serving[p] # Absent
        PROVE  /\ serving'[p] \in Servings /\ serving'[p] # Absent
               /\ serving'[p].sawActive = serving[p].sawActive \cup seen
               /\ serving'[p].checks = serving[p].checks /\ serving'[p].at = serving[p].at
               /\ serving'[p].todo = serving[p].todo
               /\ serving'[p].sawCurrent = serving[p].sawCurrent
    <2>1. serving[p] \in Servings
      BY <1>1, <1>7, ServingTypes
    <2>2. PICK s : s = [serving[p] EXCEPT !.sawActive = @ \cup seen]
      OBVIOUS
    <2>3. /\ s \in Servings /\ s.sawActive = serving[p].sawActive \cup seen
          /\ s.checks = serving[p].checks /\ s.at = serving[p].at /\ s.todo = serving[p].todo
          /\ s.sawCurrent = serving[p].sawCurrent
      BY <1>4, <2>1, <2>2 DEF Servings
    <2>4. serving'[p] = s
      BY <1>5, <1>7, <2>2
    <2>5. QED
      BY <2>3, <2>4, AbsentServing
  <1>8. ASSUME NEW p \in Processes PROVE ServingHolds(p)'
    <2>1. CASE serving[p] = Absent
      BY <1>5, <2>1 DEF ServingHolds
    <2>2. CASE serving[p] # Absent
      <3>1. InService' = seen
        BY <1>2 DEF InService
      <3>2. QED
        BY <1>6, <1>7, <2>2, <3>1 DEF ServingHolds, RuntimeSafe
    <2>3. QED
      BY <2>1, <2>2
  <1>9. serving' \in [Processes -> Servings \cup {Absent}]
    <2>1. serving' = [p \in Processes |-> serving'[p]]
      BY DEF Activate, Watched
    <2>2. \A p \in Processes : serving'[p] \in Servings \cup {Absent}
      BY <1>5, <1>7
    <2>3. QED
      BY <2>1, <2>2
  <1>10. QED
    BY <1>1, <1>6, <1>8, <1>9 DEF RuntimeSafe, RuntimeTypeOK

LEMMA SupersedeHolds ==
  ASSUME RuntimeSafe, NEW a \in Artifacts, Supersede(a)
  PROVE  RuntimeSafe'
  <1>1. /\ UNCHANGED <<activationVars, runtime, serving>>
        /\ superseded' = superseded \cup {a}
    BY DEF Supersede
  <1>2. RuntimeTypeOK'
    BY <1>1 DEF RuntimeSafe, RuntimeTypeOK, activationVars, Activation!TypeOK
  <1>3. \A p \in Processes : ServingHolds(p)'
    BY <1>1 DEF RuntimeSafe, ServingHolds, InService, activationVars
  <1>4. QED
    BY <1>1, <1>2, <1>3 DEF RuntimeSafe

\* A step of process p: the others, and what is in service or current, stay as they are.
LEMMA ProcessStep ==
  ASSUME RuntimeSafe, NEW p \in Processes, UNCHANGED <<activationVars, superseded>>,
         NEW c \in Containers, runtime' = [runtime EXCEPT ![p] = c],
         NEW s \in Servings \cup {Absent}, serving' = [serving EXCEPT ![p] = s],
         c.phase = "ready" => c.corpus \in Corpora,
         s # Absent =>
           /\ c.corpus \in Corpora
           /\ s.at # "checked" => s.checks >= 1
           /\ InService \subseteq s.sawActive
           /\ Artifacts \ superseded \subseteq s.sawCurrent
           /\ s.at \in Checking => c.corpus \in s.sawActive
           /\ s.at = "items" => ArtifactsOf[c.corpus] \subseteq s.todo \cup s.sawCurrent
           /\ s.at = "checked" => ArtifactsOf[c.corpus] \subseteq s.sawCurrent
  PROVE  RuntimeSafe'
  <1>1. /\ runtime \in [Processes -> Containers]
        /\ serving \in [Processes -> Servings \cup {Absent}]
    BY DEF RuntimeSafe, RuntimeTypeOK
  <1>2. /\ runtime' \in [Processes -> Containers]
        /\ serving' \in [Processes -> Servings \cup {Absent}]
        /\ runtime'[p] = c /\ serving'[p] = s
        /\ \A q \in Processes \ {p} : runtime'[q] = runtime[q] /\ serving'[q] = serving[q]
    BY <1>1
  <1>3. RuntimeTypeOK'
    BY <1>2 DEF RuntimeSafe, RuntimeTypeOK, activationVars, Activation!TypeOK
  <1>4. InService' = InService /\ superseded' = superseded
    BY DEF InService, activationVars
  <1>5. ServingHolds(p)'
    BY <1>2, <1>4 DEF ServingHolds
  <1>6. \A q \in Processes \ {p} : ServingHolds(q)'
    BY <1>2, <1>4 DEF ServingHolds, RuntimeSafe
  <1>7. QED
    BY <1>2, <1>3, <1>5, <1>6 DEF RuntimeSafe

\* A step that ends what p is in.
LEMMA RefusedHolds ==
  ASSUME RuntimeSafe, NEW p \in Processes, Refused(p)
  PROVE  RuntimeSafe'
  <1>1. RuntimeTypeOK /\ runtime[p] \in Containers /\ runtime \in [Processes -> Containers]
    BY ServingTypes DEF RuntimeSafe, RuntimeTypeOK
  <1>2. PICK c : c = IF serving[p].start THEN [runtime[p] EXCEPT !.phase = "failed"]
                     ELSE runtime[p]
    OBVIOUS
  <1>3. c \in Containers /\ (c.phase = "ready" => c = runtime[p])
    BY <1>1, <1>2 DEF Containers
  <1>4. runtime' = [runtime EXCEPT ![p] = c]
    <2>1. CASE serving[p].start
      BY <1>2, <2>1 DEF Refused
    <2>2. CASE ~serving[p].start
      BY <1>1, <1>2, <2>2 DEF Refused
    <2>3. QED
      BY <2>1, <2>2
  <1>5. /\ serving' = [serving EXCEPT ![p] = Absent]
        /\ UNCHANGED <<activationVars, superseded>>
    BY DEF Refused
  <1>6. c.phase = "ready" => c.corpus \in Corpora
    BY <1>3 DEF RuntimeSafe
  <1>7. QED
    BY <1>3, <1>4, <1>5, <1>6, ProcessStep

\* A step that only moves p on: s is its serving.
LEMMA ServingStep ==
  ASSUME RuntimeSafe, NEW p \in Processes, serving[p] # Absent,
         UNCHANGED <<activationVars, superseded, runtime>>,
         NEW s \in Servings, serving' = [serving EXCEPT ![p] = s],
         s.sawActive = serving[p].sawActive, s.sawCurrent = serving[p].sawCurrent,
         s.at # "checked" => s.checks >= 1,
         s.at \in Checking => runtime[p].corpus \in s.sawActive,
         s.at = "items" => ArtifactsOf[runtime[p].corpus] \subseteq s.todo \cup s.sawCurrent,
         s.at = "checked" => ArtifactsOf[runtime[p].corpus] \subseteq s.sawCurrent
  PROVE  RuntimeSafe'
  <1>1. PICK c : c = runtime[p]
    OBVIOUS
  <1>2. c \in Containers /\ runtime' = [runtime EXCEPT ![p] = c]
    BY <1>1, ServingTypes DEF RuntimeSafe, RuntimeTypeOK
  <1>3. ServingHolds(p) /\ (c.phase = "ready" => c.corpus \in Corpora)
    BY <1>1 DEF RuntimeSafe
  <1>4. /\ c.corpus \in Corpora /\ InService \subseteq s.sawActive
        /\ Artifacts \ superseded \subseteq s.sawCurrent
    BY <1>1, <1>3 DEF ServingHolds
  <1>5. QED
    BY <1>1, <1>2, <1>3, <1>4, ProcessStep

LEMMA GoesHolds ==
  ASSUME RuntimeSafe, NEW p \in Processes, serving[p] # Absent,
         NEW place \in {"pointer", "corpus"}, Goes(p, place), serving[p].at # "checked",
         place = "corpus" => runtime[p].corpus \in serving[p].sawActive
  PROVE  RuntimeSafe'
  <1>1. serving[p] \in Servings /\ serving[p].checks >= 1
    BY ServingTypes DEF RuntimeSafe, ServingHolds
  <1>2. PICK s : s = [serving[p] EXCEPT !.at = place]
    OBVIOUS
  <1>3. /\ s \in Servings /\ s.at = place /\ s.checks = serving[p].checks
        /\ s.sawActive = serving[p].sawActive /\ s.sawCurrent = serving[p].sawCurrent
    BY <1>1, <1>2 DEF Servings
  <1>4. /\ serving' = [serving EXCEPT ![p] = s]
        /\ UNCHANGED <<activationVars, superseded, runtime>>
    BY <1>2 DEF Goes
  <1>5. QED
    BY <1>1, <1>3, <1>4, ServingStep DEF Checking

LEMMA OpenedTypes ==
  ASSUME RuntimeTypeOK, NEW start \in BOOLEAN, NEW checks \in 1..2,
         NEW at \in {"found", "pointer"}, NEW s, s = Opened(start, checks, at)
  PROVE  /\ s \in Servings /\ s.at = at /\ s.checks = checks
         /\ s.sawActive = InService /\ s.sawCurrent = Artifacts \ superseded
  <1>1. InService \subseteq Corpora
    BY PointerTypes DEF InService, RuntimeTypeOK
  <1>2. QED
    BY <1>1 DEF Opened, Servings

LEMMA FindHolds ==
  ASSUME RuntimeSafe, NEW p \in Processes, FindCorpus(p)
  PROVE  RuntimeSafe'
  <1>1. /\ RuntimeTypeOK /\ runtime[p] \in Containers
        /\ runtime \in [Processes -> Containers]
        /\ serving \in [Processes -> Servings \cup {Absent}]
    BY ServingTypes DEF RuntimeSafe, RuntimeTypeOK
  <1>2. UNCHANGED <<activationVars, superseded>> /\ serving[p] = Absent
        /\ runtime[p].phase = "not_started"
    BY DEF FindCorpus
  <1>3. CASE pointer[Production] = Absent
    <2>1. PICK c : c = [runtime[p] EXCEPT !.phase = "failed"]
      OBVIOUS
    <2>2. c \in Containers /\ c.phase # "ready"
      BY <1>1, <2>1 DEF Containers
    <2>3. /\ runtime' = [runtime EXCEPT ![p] = c]
          /\ serving' = [serving EXCEPT ![p] = Absent]
      BY <1>1, <1>2, <1>3, <2>1 DEF FindCorpus
    <2>4. QED
      BY <1>2, <2>2, <2>3, ProcessStep
  <1>4. CASE pointer[Production] # Absent
    <2>1. pointer[Production] \in Corpora
      BY <1>1, <1>4, PointerTypes DEF RuntimeTypeOK
    <2>2. PICK c : c = [runtime[p] EXCEPT !.corpus = pointer[Production]]
      OBVIOUS
    <2>3. c \in Containers /\ c.corpus \in Corpora
      BY <1>1, <2>1, <2>2 DEF Containers
    <2>4. PICK s : s = Opened(TRUE, 1, "found")
      OBVIOUS
    <2>5. TRUE \in BOOLEAN /\ 1 \in 1..2 /\ "found" \in {"found", "pointer"}
      OBVIOUS
    <2>6. /\ s \in Servings /\ s.at = "found" /\ s.checks = 1
          /\ s.sawActive = InService /\ s.sawCurrent = Artifacts \ superseded
      <3>1. InService \subseteq Corpora
        BY <1>1, PointerTypes DEF InService, RuntimeTypeOK
      <3>2. QED
        BY <2>4, <2>5, <3>1 DEF Opened, Servings
    <2>7. /\ s.at # "checked" => s.checks >= 1
          /\ s.at \notin Checking /\ s.at # "items" /\ s.at # "checked"
          /\ InService \subseteq s.sawActive /\ Artifacts \ superseded \subseteq s.sawCurrent
      BY <2>6 DEF Checking
    <2>8. /\ runtime' = [runtime EXCEPT ![p] = c] /\ serving' = [serving EXCEPT ![p] = s]
      BY <1>4, <2>2, <2>4 DEF FindCorpus
    <2>9. s \in Servings \cup {Absent}
      BY <2>6
    <2>10. QED
      BY <1>2, <2>3, <2>7, <2>8, <2>9, ProcessStep
  <1>5. QED
    BY <1>3, <1>4

LEMMA RequestHolds ==
  ASSUME RuntimeSafe, NEW p \in Processes, NEW checks \in 1..2, BeginRequest(p, checks)
  PROVE  RuntimeSafe'
  <1>1. RuntimeTypeOK /\ UNCHANGED <<activationVars, superseded>>
    BY DEF RuntimeSafe, BeginRequest
  <1>2. PICK c : c = runtime[p]
    OBVIOUS
  <1>3. /\ c \in Containers /\ c.corpus \in Corpora
        /\ runtime' = [runtime EXCEPT ![p] = c]
    BY <1>2, ServingTypes DEF BeginRequest, RuntimeSafe, RuntimeTypeOK
  <1>4. PICK s : s = Opened(FALSE, checks, "pointer")
    OBVIOUS
  <1>5. /\ s \in Servings /\ s.at = "pointer" /\ s.checks = checks
        /\ s.sawActive = InService /\ s.sawCurrent = Artifacts \ superseded
    BY <1>1, <1>4, OpenedTypes
  <1>6. serving' = [serving EXCEPT ![p] = s]
    BY <1>4 DEF BeginRequest
  <1>7. /\ s.at # "checked" => s.checks >= 1
        /\ s.at \notin Checking /\ s.at # "items" /\ s.at # "checked"
        /\ InService \subseteq s.sawActive /\ Artifacts \ superseded \subseteq s.sawCurrent
    BY <1>5 DEF Checking
  <1>8. s \in Servings \cup {Absent}
    BY <1>5
  <1>9. QED
    BY <1>1, <1>3, <1>6, <1>7, <1>8, ProcessStep

LEMMA ReadingHolds ==
  ASSUME RuntimeSafe, NEW p \in Processes
  PROVE  /\ LoadCorpus(p) \/ ReadPointer(p) \/ ReadCorpus(p) \/ Loaded(p) => RuntimeSafe'
         /\ \A a \in Artifacts : ReadItem(p, a) => RuntimeSafe'
  <1>1. RuntimeTypeOK /\ ServingHolds(p)
    BY DEF RuntimeSafe
  <1>2. ASSUME LoadCorpus(p) PROVE RuntimeSafe'
    BY <1>2, RefusedHolds, GoesHolds DEF LoadCorpus, At
  <1>3. ASSUME ReadPointer(p) PROVE RuntimeSafe'
    <2>1. CASE pointer[Production] = runtime[p].corpus
      <3>1. runtime[p].corpus \in serving[p].sawActive
        BY <1>1, <1>3, <2>1, RuntimeConstants DEF ReadPointer, At, ServingHolds, InService
      <3>2. QED
        BY <1>3, <2>1, <3>1, GoesHolds DEF ReadPointer, At, MustLoad
    <2>2. CASE pointer[Production] # runtime[p].corpus
      BY <1>3, <2>2, RefusedHolds DEF ReadPointer, MustLoad
    <2>3. QED
      BY <2>1, <2>2
  <1>4. ASSUME ReadCorpus(p) PROVE RuntimeSafe'
    <2>1. CASE Refused(p)
      BY <2>1, RefusedHolds
    <2>2. CASE ~Refused(p)
      <3>1. PICK s : s = [[serving[p] EXCEPT !.at = "items"] EXCEPT !.todo = ArtifactsOf[runtime[p].corpus]]
        OBVIOUS
      <3>2. /\ serving[p] \in Servings /\ serving[p] # Absent
            /\ serving[p].checks >= 1 /\ serving[p].at = "corpus"
            /\ runtime[p].corpus \in Corpora /\ runtime[p].corpus \in serving[p].sawActive
        BY <1>1, <1>4, ServingTypes DEF ReadCorpus, At, ServingHolds, Checking
      <3>3. ArtifactsOf[runtime[p].corpus] \subseteq Artifacts
        BY <3>2, RuntimeConstants
      <3>4. /\ s \in Servings /\ s.at = "items" /\ s.checks = serving[p].checks
            /\ s.todo = ArtifactsOf[runtime[p].corpus]
            /\ s.sawActive = serving[p].sawActive /\ s.sawCurrent = serving[p].sawCurrent
        BY <3>1, <3>2, <3>3 DEF Servings
      <3>5. /\ serving' = [serving EXCEPT ![p] = s]
            /\ UNCHANGED <<activationVars, superseded, runtime>>
        BY <1>4, <2>2, <3>1 DEF ReadCorpus
      <3>6. QED
        BY <3>2, <3>4, <3>5, ServingStep
    <2>3. QED
      BY <2>1, <2>2
  <1>5. ASSUME Loaded(p) PROVE RuntimeSafe'
    <2>1. /\ serving[p] \in Servings /\ serving[p] # Absent /\ serving[p].at = "items"
          /\ serving[p].checks \in 1..2 /\ serving[p].todo = {}
          /\ runtime[p].corpus \in serving[p].sawActive
          /\ ArtifactsOf[runtime[p].corpus] \subseteq serving[p].sawCurrent
      BY <1>1, <1>5, ServingTypes DEF Loaded, At, ServingHolds, Checking
    <2>2. PICK place : place = IF serving[p].checks > 1 THEN "pointer" ELSE "checked"
      OBVIOUS
    <2>3. PICK r : r = [serving[p] EXCEPT !.checks = @ - 1]
      OBVIOUS
    <2>3a. PICK s : s = [r EXCEPT !.at = place]
      OBVIOUS
    <2>3b. /\ r \in Servings /\ r.checks = serving[p].checks - 1
           /\ r.sawActive = serving[p].sawActive /\ r.sawCurrent = serving[p].sawCurrent
      <3>1. serving[p].checks - 1 \in 0..2
        BY <2>1
      <3>2. PICK n : n = serving[p].checks - 1
        OBVIOUS
      <3>3. QED
        BY <2>1, <2>3, <3>1, <3>2 DEF Servings
    <2>4. /\ s \in Servings /\ s.at = place /\ s.checks = serving[p].checks - 1
          /\ s.sawActive = serving[p].sawActive /\ s.sawCurrent = serving[p].sawCurrent
      <3>1. place \in {"pointer", "checked"}
        BY <2>2
      <3>2. QED
        BY <2>3a, <2>3b, <3>1 DEF Servings
    <2>5. /\ serving' = [serving EXCEPT ![p] = s]
          /\ UNCHANGED <<activationVars, superseded, runtime>>
      BY <1>5, <2>2, <2>3, <2>3a DEF Loaded
    <2>6. s.at # "checked" => s.checks >= 1
      BY <2>1, <2>2, <2>4
    <2>7. s.at # "items"
      BY <2>2, <2>4
    <2>8. QED
      BY <2>1, <2>4, <2>5, <2>6, <2>7, ServingStep
  <1>6. ASSUME NEW a \in Artifacts, ReadItem(p, a) PROVE RuntimeSafe'
    <2>1. CASE a \in superseded
      BY <1>6, <2>1, RefusedHolds DEF ReadItem
    <2>2. CASE a \notin superseded
      <3>1. /\ serving[p] \in Servings /\ serving[p] # Absent /\ serving[p].at = "items"
            /\ serving[p].checks >= 1 /\ runtime[p].corpus \in serving[p].sawActive
            /\ ArtifactsOf[runtime[p].corpus] \subseteq serving[p].todo \cup serving[p].sawCurrent
            /\ a \in serving[p].sawCurrent
        BY <1>1, <1>6, <2>2, ServingTypes DEF ReadItem, At, ServingHolds, Checking
      <3>2. PICK s : s = [serving[p] EXCEPT !.todo = @ \ {a}]
        OBVIOUS
      <3>3. /\ s \in Servings /\ s.at = "items" /\ s.checks = serving[p].checks
            /\ s.todo = serving[p].todo \ {a}
            /\ s.sawActive = serving[p].sawActive /\ s.sawCurrent = serving[p].sawCurrent
        BY <3>1, <3>2 DEF Servings
      <3>4. /\ serving' = [serving EXCEPT ![p] = s]
            /\ UNCHANGED <<activationVars, superseded, runtime>>
        BY <1>6, <2>2, <3>2 DEF ReadItem
      <3>5. QED
        BY <3>1, <3>3, <3>4, ServingStep
    <2>3. QED
      BY <2>1, <2>2
  <1>7. QED
    BY <1>2, <1>3, <1>4, <1>5, <1>6

LEMMA ServeHolds ==
  ASSUME RuntimeSafe, NEW p \in Processes, Serve(p)
  PROVE  RuntimeSafe'
  <1>1. /\ runtime[p] \in Containers /\ runtime \in [Processes -> Containers]
        /\ runtime[p].corpus \in Corpora
    BY ServingTypes DEF RuntimeSafe, RuntimeTypeOK, Serve, At, ServingHolds
  <1>2. PICK c : c = IF serving[p].start THEN [runtime[p] EXCEPT !.phase = "ready"]
                     ELSE runtime[p]
    OBVIOUS
  <1>3. c \in Containers /\ c.corpus \in Corpora
    BY <1>1, <1>2 DEF Containers
  <1>4. runtime' = [runtime EXCEPT ![p] = c]
    <2>1. CASE serving[p].start
      BY <1>2, <2>1 DEF Serve
    <2>2. CASE ~serving[p].start
      BY <1>1, <1>2, <2>2 DEF Serve
    <2>3. QED
      BY <2>1, <2>2
  <1>5. /\ serving' = [serving EXCEPT ![p] = Absent]
        /\ UNCHANGED <<activationVars, superseded>>
    BY DEF Serve
  <1>6. QED
    BY <1>3, <1>4, <1>5, ProcessStep

LEMMA RestartHolds ==
  ASSUME RuntimeSafe, NEW p \in Processes, Restart(p)
  PROVE  RuntimeSafe'
  <1>1. NotStarted \in Containers /\ NotStarted.phase # "ready"
    BY DEF NotStarted, Containers
  <1>2. /\ runtime' = [runtime EXCEPT ![p] = NotStarted]
        /\ serving' = [serving EXCEPT ![p] = Absent]
        /\ UNCHANGED <<activationVars, superseded>>
    BY DEF Restart
  <1>3. QED
    BY <1>1, <1>2, ProcessStep

LEMMA RuntimeInitHolds == RuntimeInit => RuntimeSafe
  <1> SUFFICES ASSUME RuntimeInit PROVE RuntimeSafe
    OBVIOUS
  <1>1. NotStarted \in Containers /\ NotStarted.phase # "ready"
    BY DEF NotStarted, Containers
  <1>2. RuntimeTypeOK
    BY <1>1, ActivationInitTypes DEF RuntimeInit, RuntimeTypeOK
  <1>3. QED
    BY <1>1, <1>2 DEF RuntimeInit, RuntimeSafe, ServingHolds

LEMMA RuntimeNextHolds == RuntimeSafe /\ [RuntimeNext]_runtimeVars => RuntimeSafe'
  <1> SUFFICES ASSUME RuntimeSafe, [RuntimeNext]_runtimeVars PROVE RuntimeSafe'
    OBVIOUS
  <1>1. CASE UNCHANGED runtimeVars
    BY <1>1 DEF runtimeVars, activationVars, RuntimeSafe, RuntimeTypeOK, Activation!TypeOK,
       ServingHolds, InService
  <1>2. ASSUME NEW p \in Processes, FailServing(p) PROVE RuntimeSafe'
    BY <1>2, RefusedHolds DEF FailServing
  <1>3. QED
    BY <1>1, <1>2, ActivateHolds, SupersedeHolds, FindHolds, RequestHolds, ReadingHolds,
       ServeHolds, RestartHolds
       DEF RuntimeNext

LEMMA RuntimeSafety == RuntimeSpec => []RuntimeSafe
  BY RuntimeInitHolds, RuntimeNextHolds, PTL DEF RuntimeSpec

\* Every reachable state of the processes has the types the module declares.
THEOREM RuntimeTypeCorrect == RuntimeSpec => []RuntimeTypeOK
  <1>1. RuntimeSafe => RuntimeTypeOK
    BY DEF RuntimeSafe
  <1>2. QED
    BY <1>1, RuntimeSafety, PTL

\* What a process becomes ready with or answers from was in service, and all of it
\* current, at some time since that start or request began (_validate_live_binding).
THEOREM ReadersSeeCurrentCorpora == RuntimeSpec => []ServedIsCurrent
  <1>1. RuntimeSafe => ServedIsCurrent
    BY DEF RuntimeSafe, ServingHolds, ServedIsCurrent, At, Checking
  <1>2. QED
    BY <1>1, RuntimeSafety, PTL

-----------------------------------------------------------------------------
(* GovernanceClients: the service.                                          *)

\* The part of the invariant that is about the service alone.
ServerSafe ==
  /\ chain \in [Items -> Seq(ChainEntries)]
  /\ accounts \subseteq Items /\ answers \subseteq Answers
  /\ AnswersHold
  /\ \A i \in Items : ChainHolds(i)

\* What a command has achieved is not undone.
NothingUndone ==
  /\ \A i \in Items : chain[i] # <<>> => chain'[i] # <<>>
  /\ \A i \in Items :
       Len(chain[i]) >= 2 /\ chain[i][2].cmd = "amend" =>
         Len(chain'[i]) >= 2 /\ chain'[i][2].cmd = "amend"
  /\ accounts \subseteq accounts'

LEMMA ServerUnchanged ==
  ASSUME ServerSafe, UNCHANGED <<chain, accounts, answers>>
  PROVE  ServerSafe' /\ NothingUndone
  BY DEF ServerSafe, AnswersHold, ChainHolds, NothingUndone

LEMMA AppendFacts ==
  ASSUME NEW S, NEW s \in Seq(S), NEW e \in S, NEW t, t = Append(s, e)
  PROVE  /\ t \in Seq(S) /\ t # <<>> /\ Len(s) \in Nat /\ Len(t) = Len(s) + 1
         /\ DOMAIN s = 1..Len(s) /\ DOMAIN t = 1..(Len(s) + 1)
         /\ \A k \in 1..Len(s) : t[k] = s[k]
         /\ t[Len(s) + 1] = e
         /\ (s = <<>> <=> Len(s) = 0)
  OBVIOUS

\* One more request of a version, with its record if it was made through a key.
LEMMA ChainGrows ==
  ASSUME ServerSafe, NEW i \in Items, NEW e \in ChainEntries,
         NEW n, n = Len(chain[i]) + 1,
         NEW r, r = [by |-> e.by, cmd |-> e.cmd, item |-> i, sequence |-> n],
         NEW new \in SUBSET {r}, new \subseteq Answers,
         chain' = [chain EXCEPT ![i] = Append(@, e)], answers' = answers \cup new,
         accounts' = accounts,
         e.cmd = "register" <=> chain[i] = <<>>,
         e.cmd = "amend" => new = {r},
         new # {} => Stored(e.by, e.cmd, i) = {}
  PROVE  ServerSafe' /\ NothingUndone
  <1>1. chain \in [Items -> Seq(ChainEntries)] /\ chain[i] \in Seq(ChainEntries)
    BY DEF ServerSafe
  <1>2. PICK s, t : s = chain[i] /\ t = Append(s, e)
    OBVIOUS
  <1>3. /\ t \in Seq(ChainEntries) /\ t # <<>> /\ Len(s) \in Nat /\ Len(t) = n
        /\ DOMAIN s = 1..Len(s) /\ DOMAIN t = 1..n /\ n = Len(s) + 1
        /\ \A k \in 1..Len(s) : t[k] = s[k]
        /\ t[n] = e
        /\ (s = <<>> <=> Len(s) = 0)
    BY <1>1, <1>2, AppendFacts
  <1>4. /\ chain' \in [Items -> Seq(ChainEntries)] /\ chain'[i] = t
        /\ \A j \in Items \ {i} : chain'[j] = chain[j]
    BY <1>1, <1>2, <1>3
  <1>5. \A j \in Items : ChainHolds(j)'
    <2>1. ASSUME NEW j \in Items \ {i} PROVE ChainHolds(j)'
      BY <1>4 DEF ServerSafe, ChainHolds
    <2>2. ChainHolds(i)'
      <3> SUFFICES ASSUME NEW k \in 1..n
                   PROVE  /\ t[k].cmd = "register" <=> k = 1
                          /\ t[k].cmd = "amend" =>
                               [by |-> t[k].by, cmd |-> "amend", item |-> i, sequence |-> k]
                                 \in answers'
        BY <1>3, <1>4 DEF ChainHolds
      <3>1. CASE k \in 1..Len(s)
        <4>1. ChainHolds(i) /\ t[k] = s[k] /\ k \in DOMAIN chain[i]
          BY <1>2, <1>3, <3>1 DEF ServerSafe
        <4>2. QED
          BY <1>2, <4>1 DEF ChainHolds
      <3>2. CASE k = n
        <4>1. e.cmd = "register" <=> k = 1
          BY <1>2, <1>3, <3>2
        <4>2. QED
          BY <1>3, <3>2, <4>1
      <3>3. QED
        BY <1>3, <3>1, <3>2
    <2>3. QED
      BY <2>1, <2>2
  <1>6. AnswersHold'
    <2>1. ASSUME NEW a \in answers'
          PROVE  /\ a.sequence \in 1..Len(chain'[a.item])
                 /\ chain'[a.item][a.sequence] = [by |-> a.by, cmd |-> a.cmd]
      <3>1. CASE a \in answers
        <4>1. /\ a.item \in Items /\ a.sequence \in 1..Len(chain[a.item])
              /\ chain[a.item][a.sequence] = [by |-> a.by, cmd |-> a.cmd]
          BY <3>1 DEF ServerSafe, AnswersHold, Answers
        <4>2. CASE a.item = i
          BY <1>2, <1>3, <1>4, <4>1, <4>2
        <4>3. CASE a.item # i
          BY <1>4, <4>1, <4>3
        <4>4. QED
          BY <4>2, <4>3
      <3>2. CASE a \notin answers
        <4>1. a = r /\ a \in Answers
          BY <3>2
        <4>2. a.by = e.by /\ a.cmd = e.cmd /\ a.item = i /\ a.sequence = n
          BY <4>1
        <4>3. e = [by |-> e.by, cmd |-> e.cmd]
          BY DEF ChainEntries
        <4>4. QED
          BY <1>3, <1>4, <4>2, <4>3
      <3>3. QED
        BY <3>1, <3>2
    <2>2. ASSUME NEW a \in answers', NEW b \in answers',
                 a.by = b.by, a.cmd = b.cmd, a.item = b.item
          PROVE  a = b
      <3>1. CASE a \in answers /\ b \in answers
        BY <2>2, <3>1 DEF ServerSafe, AnswersHold
      <3>2. CASE a \notin answers /\ b \notin answers
        BY <3>2
      <3>3. \A c \in answers : new # {} => ~(c.by = r.by /\ c.cmd = r.cmd /\ c.item = r.item)
        BY DEF Stored
      <3>4. QED
        BY <2>2, <3>1, <3>2, <3>3
    <2>3. QED
      BY <2>1, <2>2 DEF AnswersHold
  <1>7. NothingUndone
    <2>1. ASSUME NEW j \in Items
          PROVE  /\ chain[j] # <<>> => chain'[j] # <<>>
                 /\ Len(chain[j]) >= 2 /\ chain[j][2].cmd = "amend" =>
                      Len(chain'[j]) >= 2 /\ chain'[j][2].cmd = "amend"
      <3>1. CASE j = i
        BY <1>2, <1>3, <1>4, <3>1
      <3>2. CASE j # i
        BY <1>4, <3>2
      <3>3. QED
        BY <3>1, <3>2
    <2>2. QED
      BY <2>1 DEF NothingUndone
  <1>8. answers' \subseteq Answers /\ accounts' \subseteq Items
    BY DEF ServerSafe
  <1>9. QED
    BY <1>4, <1>5, <1>6, <1>7, <1>8 DEF ServerSafe

\* A request is executed once, and one that matches what its command expects has
\* achieved it.
LEMMA HandleKeeps ==
  ASSUME ServerSafe, NEW u \in Users, NEW cmd \in Commands, NEW i \in Items,
         Handle(u, cmd, i)
  PROVE  ServerSafe' /\ NothingUndone
  <1>1. CASE ~Executes(u, cmd, i)
    BY <1>1, ServerUnchanged DEF Handle
  <1>2. CASE Executes(u, cmd, i) /\ cmd = "provision"
    <2>1. accounts' = accounts \cup {i} /\ UNCHANGED <<chain, answers>>
      BY <1>2 DEF Handle
    <2>2. QED
      BY <2>1 DEF ServerSafe, AnswersHold, ChainHolds, NothingUndone
  <1>3. CASE Executes(u, cmd, i) /\ cmd # "provision"
    <2>1. PICK n, e : n = Len(chain[i]) + 1 /\ e = [by |-> u, cmd |-> cmd]
      OBVIOUS
    <2>2. PICK r : r = [by |-> u, cmd |-> cmd, item |-> i, sequence |-> n]
      OBVIOUS
    <2>3. /\ chain' = [chain EXCEPT ![i] = Append(@, e)] /\ answers' = answers \cup {r}
          /\ accounts' = accounts
      BY <1>3, <2>1, <2>2 DEF Handle
    <2>4. cmd \in {"register", "amend"} /\ chain[i] \in Seq(ChainEntries)
      BY <1>3 DEF Commands, ServerSafe
    <2>5. e \in ChainEntries /\ e.by = u /\ e.cmd = cmd
      BY <2>1, <2>4 DEF ChainEntries
    <2>6. /\ Stored(u, cmd, i) = {}
          /\ cmd = "register" => chain[i] = <<>>
          /\ cmd = "amend" => chain[i] # <<>> /\ Len(chain[i]) < MaxChain
      BY <1>3, <2>4 DEF Executes
    <2>7. n \in 1..MaxChain
      BY <2>1, <2>4, <2>6, ClientConstants
    <2>8. r \in Answers
      BY <2>2, <2>4, <2>7 DEF Answers
    <2>9. r = [by |-> e.by, cmd |-> e.cmd, item |-> i, sequence |-> n]
      BY <2>2, <2>5
    <2>10. cmd = "register" <=> chain[i] = <<>>
      BY <2>4, <2>6
    <2>11. PICK new : new = {r}
      OBVIOUS
    <2>12. /\ new \in SUBSET {r} /\ new \subseteq Answers /\ answers' = answers \cup new
           /\ e.cmd = "register" <=> chain[i] = <<>>
           /\ e.cmd = "amend" => new = {r}
           /\ new # {} => Stored(e.by, e.cmd, i) = {}
      BY <2>3, <2>5, <2>6, <2>8, <2>10, <2>11
    <2>13. QED
      BY <2>1, <2>3, <2>5, <2>9, <2>12, ChainGrows
  <1>4. QED
    BY <1>1, <1>2, <1>3

LEMMA MatchingIsAccomplished ==
  ASSUME ServerSafe, NEW u \in Users, NEW cmd \in Commands, NEW i \in Items,
         Handle(u, cmd, i), ResponseMatches(u, cmd, i)
  PROVE  Accomplished(cmd, i)'
  <1>1. chain[i] \in Seq(ChainEntries) /\ chain \in [Items -> Seq(ChainEntries)]
    BY DEF ServerSafe
  <1>2. CASE Executes(u, cmd, i) /\ cmd = "provision"
    BY <1>2 DEF Handle, Accomplished
  <1>3. CASE Executes(u, cmd, i) /\ cmd # "provision"
    <2>1. PICK e, t : e = [by |-> u, cmd |-> cmd] /\ t = Append(chain[i], e)
      OBVIOUS
    <2>2. cmd \in {"register", "amend"} /\ e \in ChainEntries /\ e.cmd = cmd
      BY <1>3, <2>1 DEF Commands, ChainEntries
    <2>3. chain'[i] = t
      BY <1>1, <1>3, <2>1 DEF Handle
    <2>4. /\ t # <<>> /\ Len(t) = Len(chain[i]) + 1 /\ t[Len(chain[i]) + 1] = e
          /\ Len(chain[i]) \in Nat
      BY <1>1, <2>1, <2>2, AppendFacts
    <2>5. cmd = "amend" => Len(chain[i]) + 1 = 2
      BY <1>3 DEF ResponseMatches, AnsweredSequence, Replays, Executes
    <2>6. CASE cmd = "register"
      BY <2>3, <2>4, <2>6 DEF Accomplished
    <2>7. CASE cmd = "amend"
      <3>1. Len(t) = 2 /\ t[2] = e
        BY <2>4, <2>5, <2>7
      <3>2. Len(chain'[i]) >= 2 /\ chain'[i][2].cmd = "amend"
        BY <2>2, <2>3, <2>7, <3>1
      <3>3. QED
        BY <2>7, <3>2 DEF Accomplished
    <2>8. QED
      BY <2>2, <2>6, <2>7
  <1>4. CASE ~Executes(u, cmd, i)
    <2>1. UNCHANGED <<chain, accounts, answers>>
      BY <1>4 DEF Handle
    <2>2. Replays(u, cmd, i)
      BY <1>4 DEF ResponseMatches, Answered
    <2>3. PICK a : a = CHOOSE b \in Stored(u, cmd, i) : TRUE
      OBVIOUS
    <2>4. a \in Stored(u, cmd, i)
      BY <2>2, <2>3 DEF Replays
    <2>5. /\ a \in answers /\ a \in Answers /\ a.by = u /\ a.cmd = cmd /\ a.item = i
      BY <2>4 DEF Stored, ServerSafe
    <2>6. /\ cmd \in {"register", "amend"}
          /\ a.sequence \in 1..Len(chain[i])
          /\ chain[i][a.sequence] = [by |-> u, cmd |-> cmd]
      BY <2>5 DEF Answers, ServerSafe, AnswersHold
    <2>7. cmd = "amend" => a.sequence = 2
      BY <2>2, <2>3 DEF ResponseMatches, AnsweredSequence
    <2>8. cmd = "register" => chain[i] # <<>>
      BY <1>1, <2>6
    <2>9. cmd = "amend" => Len(chain[i]) >= 2 /\ chain[i][2].cmd = "amend"
      BY <1>1, <2>6, <2>7
    <2>10. QED
      BY <2>1, <2>6, <2>8, <2>9 DEF Accomplished
  <1>5. QED
    BY <1>2, <1>3, <1>4

-----------------------------------------------------------------------------
(* GovernanceClients: the runs.                                             *)

\* The part of the invariant that is about the runs.
RunsSafe ==
  /\ damaged \subseteq Items /\ ruled \subseteq Items /\ late \subseteq Posts
  /\ started \in 0..MaxRuns
  /\ cli \in [Users -> Invocations \cup {None}]
  /\ report \in [Runs -> Reports \cup {None}]
  /\ live \subseteq 1..started
  /\ \A u \in Users : RunHolds(u)
  /\ \A n \in Runs : report[n] # None => n <= started
  /\ ReportsAreTrue

LEMMA ClientParts == ClientSafe <=> ServerSafe /\ RunsSafe
  <1>1. RunsSafe => live \subseteq Runs
    BY ClientConstants DEF RunsSafe, Runs
  <1>2. QED
    BY <1>1 DEF ClientSafe, ServerSafe, RunsSafe, ClientTypeOK

LEMMA ClientPartsNext == ClientSafe' <=> ServerSafe' /\ RunsSafe'
  BY ClientParts, PTL

LEMMA RunTypes ==
  ASSUME RunsSafe, NEW u \in Users, cli[u] # None
  PROVE  /\ cli[u] \in Invocations /\ cli[u].run \in Runs /\ cli[u].cmd \in Commands
         /\ cli[u].at \in {"login", "items", "logout"} /\ cli[u].next \in 1..(Batch + 1)
         /\ cli[u].accepted \subseteq Items /\ RunHolds(u)
  BY DEF RunsSafe, Invocations

LEMMA AccomplishedStays ==
  ASSUME NothingUndone, NEW cmd \in Commands, NEW i \in Items, Accomplished(cmd, i)
  PROVE  Accomplished(cmd, i)'
  BY DEF NothingUndone, Accomplished, Commands

ReportHolds(n) ==
  report[n] # None =>
    /\ \A i \in report[n].accepted : Accomplished(report[n].cmd, i)
    /\ report[n].status = "succeeded" => report[n].accepted = Items /\ n \notin live
    /\ n \in live => report[n].login = "unanswered" \/ report[n].logout = "failed"

LEMMA ReportStays ==
  ASSUME RunsSafe, NothingUndone, NEW n \in Runs, report'[n] = report[n],
         report[n] # None => (n \in live' => n \in live)
  PROVE  ReportHolds(n)'
  <1>1. PICK r : r = report[n]
    OBVIOUS
  <1>2. CASE r = None
    BY <1>1, <1>2 DEF ReportHolds
  <1>3. CASE r # None
    <2>1. r \in Reports /\ r.cmd \in Commands /\ r.accepted \subseteq Items
      BY <1>1, <1>3 DEF RunsSafe, Reports
    <2>2. /\ \A i \in r.accepted : Accomplished(r.cmd, i)
          /\ r.status = "succeeded" => r.accepted = Items /\ n \notin live
          /\ n \in live => r.login = "unanswered" \/ r.logout = "failed"
      BY <1>1, <1>3 DEF RunsSafe, ReportsAreTrue, Accomplished
    <2>3. \A i \in r.accepted : Accomplished(r.cmd, i)'
      BY <2>1, <2>2, AccomplishedStays
    <2>4. QED
      BY <1>1, <1>3, <2>2, <2>3 DEF ReportHolds, Accomplished
  <1>4. QED
    BY <1>2, <1>3

LEMMA RunStays ==
  ASSUME RunsSafe, NothingUndone, NEW v \in Users, cli'[v] = cli[v],
         started' \in Nat, started <= started',
         cli[v] # None =>
           /\ report'[cli[v].run] = report[cli[v].run]
           /\ \A w \in Users \ {v} : cli'[w] # None => cli'[w].run # cli[v].run
  PROVE  RunHolds(v)'
  <1>1. CASE cli[v] = None
    BY <1>1 DEF RunHolds
  <1>2. CASE cli[v] # None
    <2>1. PICK c : c = cli[v]
      OBVIOUS
    <2>2. /\ c # None /\ c \in Invocations /\ c.run \in Runs /\ c.cmd \in Commands
          /\ c.accepted \subseteq Items /\ started \in 0..MaxRuns
      BY <1>2, <2>1, RunTypes DEF RunsSafe
    <2>3. /\ c.run <= started /\ report[c.run] = None
          /\ c.at # "logout" => c.next <= Batch
          /\ \A i \in c.accepted : Accomplished(c.cmd, i)
      BY <1>2, <2>1, RunTypes DEF RunHolds, Accomplished
    <2>4. \A i \in c.accepted : Accomplished(c.cmd, i)'
      BY <2>2, <2>3, AccomplishedStays
    <2>5. c.run <= started'
      BY <2>2, <2>3 DEF Runs
    <2>6. report'[c.run] = None
          /\ \A w \in Users \ {v} : cli'[w] # None => cli'[w].run # c.run
      BY <1>2, <2>1, <2>3
    <2>7. QED
      BY <2>1, <2>3, <2>4, <2>5, <2>6 DEF RunHolds, Accomplished
  <1>3. QED
    BY <1>1, <1>2

\* A step of the service alone.
LEMMA ServerStep ==
  ASSUME RunsSafe, NothingUndone, UNCHANGED <<live, started, cli, report>>,
         damaged' \subseteq Items, ruled' \subseteq Items, late' \subseteq Posts
  PROVE  RunsSafe'
  <1>1. started \in Nat /\ started <= started
    BY ClientConstants DEF RunsSafe
  <1>2. \A n \in Runs : ReportHolds(n)'
    BY ReportStays
  <1>3. ASSUME NEW u \in Users PROVE RunHolds(u)'
    <2>1. cli[u] # None =>
            \A w \in Users \ {u} : cli[w] # None => cli[w].run # cli[u].run
      BY DEF RunsSafe, RunHolds
    <2>2. QED
      BY <1>1, <2>1, RunStays
  <1>4. ReportsAreTrue'
    BY <1>2 DEF ReportHolds, ReportsAreTrue
  <1>5. QED
    BY <1>3, <1>4 DEF RunsSafe

\* A run goes on; it may open its session.
LEMMA GoingOn ==
  ASSUME RunsSafe, NothingUndone, NEW u \in Users, cli[u] # None,
         NEW run, run = cli[u].run,
         NEW c \in Invocations, cli' = [cli EXCEPT ![u] = c], c.run = run,
         c.at # "logout" => c.next <= Batch,
         \A i \in c.accepted : Accomplished(c.cmd, i)',
         UNCHANGED <<damaged, ruled, started, report>>,
         live' \subseteq live \cup {run}, late' \subseteq Posts
  PROVE  RunsSafe'
  <1>1. /\ run \in Runs /\ run <= started /\ report[run] = None /\ started \in 0..MaxRuns
        /\ \A v \in Users \ {u} : cli[v] # None => cli[v].run # run
    BY RunTypes DEF RunsSafe, RunHolds
  <1>2. /\ cli' \in [Users -> Invocations \cup {None}] /\ cli'[u] = c
        /\ \A v \in Users \ {u} : cli'[v] = cli[v]
    BY DEF RunsSafe
  <1>3. live' \subseteq 1..started'
    BY <1>1 DEF RunsSafe, Runs
  <1>4. ASSUME NEW n \in Runs PROVE ReportHolds(n)'
    <2>1. report[n] # None => (n \in live' => n \in live)
      BY <1>1
    <2>2. QED
      BY <2>1, ReportStays
  <1>5. RunHolds(u)'
    <2>1. c # None
      BY AbsentRun
    <2>2. c.run <= started' /\ report'[c.run] = None
          /\ \A v \in Users \ {u} : cli'[v] # None => cli'[v].run # c.run
      BY <1>1, <1>2
    <2>3. QED
      BY <1>2, <2>1, <2>2 DEF RunHolds, Accomplished
  <1>6. ASSUME NEW v \in Users \ {u} PROVE RunHolds(v)'
    <2>1. ASSUME cli[v] # None
          PROVE  \A w \in Users \ {v} : cli'[w] # None => cli'[w].run # cli[v].run
      BY <1>1, <1>2, <2>1 DEF RunsSafe, RunHolds
    <2>2. started' \in Nat /\ started <= started' /\ cli'[v] = cli[v] /\ report' = report
      BY <1>1, <1>2
    <2>3. QED
      BY <2>1, <2>2, RunStays
  <1>7. ReportsAreTrue'
    BY <1>4 DEF ReportHolds, ReportsAreTrue
  <1>8. QED
    BY <1>2, <1>3, <1>5, <1>6, <1>7 DEF RunsSafe

\* A run ends, and prints its report.
LEMMA Ending ==
  ASSUME RunsSafe, NothingUndone, NEW u \in Users, cli[u] # None,
         NEW run, run = cli[u].run, cli' = [cli EXCEPT ![u] = None],
         NEW r \in Reports, report' = [report EXCEPT ![run] = r],
         \A i \in r.accepted : Accomplished(r.cmd, i)',
         r.status = "succeeded" => r.accepted = Items /\ run \notin live',
         run \in live' => r.login = "unanswered" \/ r.logout = "failed",
         UNCHANGED <<damaged, ruled, started, late>>, live' \subseteq live \cup {run}
  PROVE  RunsSafe'
  <1>1. /\ run \in Runs /\ run <= started /\ report[run] = None /\ started \in 0..MaxRuns
        /\ \A v \in Users \ {u} : cli[v] # None => cli[v].run # run
    BY RunTypes DEF RunsSafe, RunHolds
  <1>2. /\ cli' \in [Users -> Invocations \cup {None}] /\ cli'[u] = None
        /\ \A v \in Users \ {u} : cli'[v] = cli[v]
    BY DEF RunsSafe
  <1>3. live' \subseteq 1..started'
    BY <1>1 DEF RunsSafe, Runs
  <1>4. /\ report' \in [Runs -> Reports \cup {None}] /\ report'[run] = r /\ r # None
        /\ \A n \in Runs \ {run} : report'[n] = report[n]
    BY <1>1, AbsentRun DEF RunsSafe
  <1>5. ASSUME NEW n \in Runs \ {run} PROVE ReportHolds(n)'
    BY <1>4, ReportStays
  <1>6. ReportHolds(run)'
    BY <1>4 DEF ReportHolds, Accomplished
  <1>7. \A n \in Runs : report'[n] # None => n <= started'
    BY <1>1, <1>4 DEF RunsSafe
  <1>8. ASSUME NEW v \in Users PROVE RunHolds(v)'
    <2>1. CASE v = u
      BY <1>2, <2>1 DEF RunHolds
    <2>2. CASE v # u
      <3>1. ASSUME cli[v] # None
            PROVE  /\ report'[cli[v].run] = report[cli[v].run]
                   /\ \A w \in Users \ {v} : cli'[w] # None => cli'[w].run # cli[v].run
        BY <1>1, <1>2, <1>4, <2>2, <3>1, RunTypes DEF RunHolds
      <3>2. started' \in Nat /\ started <= started' /\ cli'[v] = cli[v]
        BY <1>1, <1>2, <2>2
      <3>3. QED
        BY <3>1, <3>2, RunStays
    <2>3. QED
      BY <2>1, <2>2
  <1>9. ReportsAreTrue'
    BY <1>5, <1>6 DEF ReportHolds, ReportsAreTrue
  <1>10. QED
    BY <1>2, <1>3, <1>4, <1>7, <1>8, <1>9 DEF RunsSafe

LEMMA StartRunKeeps ==
  ASSUME RunsSafe, NEW u \in Users, NEW cmd \in Commands, StartRun(u, cmd)
  PROVE  RunsSafe'
  <1>1. PICK n : n = started + 1
    OBVIOUS
  <1>2. /\ started \in Nat /\ n \in Runs /\ n \in Nat /\ n \in 0..MaxRuns /\ started < n
        /\ started' = n /\ UNCHANGED <<damaged, live, late, ruled, chain, accounts>>
    BY <1>1, ClientConstants DEF StartRun, RunsSafe, Runs, serverVars
  <1>3. NothingUndone
    BY <1>2 DEF NothingUndone
  <1>4. report[n] = None /\ n \notin live /\ live' \subseteq 1..started'
    BY <1>2 DEF RunsSafe
  <1>5. \A v \in Users : cli[v] # None => cli[v].run <= started /\ cli[v].run \in Runs
    BY RunTypes DEF RunHolds
  <1>6. ASSUME NEW v \in Users, cli[v] # None
        PROVE  /\ cli[v].run # n
               /\ \A w \in Users \ {v} : cli[w] # None => cli[w].run # cli[v].run
    BY <1>2, <1>5, <1>6, RunTypes DEF RunHolds, Runs
  <1>7. CASE PreflightPasses(cmd)
    <2>1. PICK c : c = [run |-> n, cmd |-> cmd, at |-> "login", next |-> 1, accepted |-> {}]
      OBVIOUS
    <2>2. /\ cli' = [cli EXCEPT ![u] = c] /\ report' = report /\ cli[u] = None
      BY <1>1, <1>7, <2>1 DEF StartRun
    <2>3. 1 \in 1..(Batch + 1) /\ 1 <= Batch
      BY ClientConstants
    <2>4. c \in Invocations /\ c # None
      BY <1>2, <2>1, <2>3, AbsentRun DEF Invocations
    <2>5. /\ cli' \in [Users -> Invocations \cup {None}] /\ cli'[u] = c
          /\ \A v \in Users \ {u} : cli'[v] = cli[v]
      BY <2>2, <2>4 DEF RunsSafe
    <2>6. RunHolds(u)'
      <3>1. \A v \in Users \ {u} : cli'[v] # None => cli'[v].run # n
        BY <1>6, <2>5
      <3>2. c.run = n /\ c.accepted = {} /\ c.next <= Batch
        BY <2>1, <2>3
      <3>3. n <= started' /\ report'[n] = None
        BY <1>2, <1>4, <2>2
      <3>4. QED
        BY <2>5, <3>1, <3>2, <3>3 DEF RunHolds
    <2>7. ASSUME NEW v \in Users \ {u} PROVE RunHolds(v)'
      <3>1. ASSUME cli[v] # None
            PROVE  \A w \in Users \ {v} : cli'[w] # None => cli'[w].run # cli[v].run
        BY <1>6, <2>1, <2>5, <3>1
      <3>2. started' \in Nat /\ started <= started' /\ cli'[v] = cli[v] /\ report' = report
        BY <1>2, <2>2, <2>5
      <3>3. QED
        BY <1>3, <3>1, <3>2, RunStays
    <2>8. \A k \in Runs : ReportHolds(k)'
      BY <1>2, <1>3, <2>2, ReportStays
    <2>9. ReportsAreTrue' /\ \A k \in Runs : report'[k] # None => k <= started'
      BY <1>2, <2>2, <2>8 DEF ReportHolds, ReportsAreTrue, RunsSafe, Runs
    <2>10. QED
      BY <1>2, <1>4, <2>2, <2>5, <2>6, <2>7, <2>9 DEF RunsSafe
  <1>8. CASE ~PreflightPasses(cmd)
    <2>1. PICK r : r = Blank(cmd)
      OBVIOUS
    <2>2. r \in Reports /\ r # None /\ r.accepted = {} /\ r.status = "failed"
      BY <2>1, AbsentRun DEF Blank, Reports
    <2>3. report' = [report EXCEPT ![n] = r] /\ cli' = cli
      BY <1>1, <1>8, <2>1 DEF StartRun
    <2>4. /\ report' \in [Runs -> Reports \cup {None}] /\ report'[n] = r
          /\ \A k \in Runs \ {n} : report'[k] = report[k]
      BY <1>2, <2>2, <2>3 DEF RunsSafe
    <2>5. ASSUME NEW v \in Users PROVE RunHolds(v)'
      <3>1. ASSUME cli[v] # None
            PROVE  /\ report'[cli[v].run] = report[cli[v].run]
                   /\ \A w \in Users \ {v} : cli'[w] # None => cli'[w].run # cli[v].run
        BY <1>5, <1>6, <2>3, <2>4, <3>1
      <3>2. started' \in Nat /\ started <= started' /\ cli'[v] = cli[v]
        BY <1>2, <2>3
      <3>3. QED
        BY <1>3, <3>1, <3>2, RunStays
    <2>6. ReportHolds(n)'
      BY <1>2, <1>4, <2>2, <2>4 DEF ReportHolds
    <2>7. ASSUME NEW k \in Runs \ {n} PROVE ReportHolds(k)'
      BY <1>2, <1>3, <2>4, ReportStays
    <2>8. ReportsAreTrue'
      BY <2>6, <2>7 DEF ReportHolds, ReportsAreTrue
    <2>9. \A k \in Runs : report'[k] # None => k <= started'
      BY <1>2, <2>4 DEF RunsSafe, Runs
    <2>10. QED
      BY <1>2, <1>4, <2>3, <2>4, <2>5, <2>8, <2>9 DEF RunsSafe
  <1>9. QED
    BY <1>7, <1>8

LEMMA LogInKeeps ==
  ASSUME RunsSafe, NEW u \in Users, LogIn(u)
  PROVE  RunsSafe'
  <1>1. /\ cli[u] # None /\ cli[u].at = "login" /\ live' = live \cup {cli[u].run}
        /\ UNCHANGED <<damaged, chain, ruled, accounts, answers, late, started, report>>
    BY DEF LogIn, InvocationAt
  <1>2. PICK c, run : /\ c = [cli[u] EXCEPT !.at = AfterLogin(u)] /\ run = cli[u].run
    OBVIOUS
  <1>3. AfterLogin(u) \in {"items", "logout"}
    BY DEF AfterLogin
  <1>4. /\ c \in Invocations /\ c.run = run /\ c.cmd = cli[u].cmd /\ c.next = cli[u].next
        /\ c.accepted = cli[u].accepted
    <2>1. cli[u] \in Invocations
      BY <1>1, RunTypes
    <2>2. QED
      BY <1>2, <1>3, <2>1 DEF Invocations
  <1>5. c.next <= Batch /\ \A i \in c.accepted : Accomplished(c.cmd, i)
    <2>1. RunHolds(u)
      BY <1>1, RunTypes
    <2>2. QED
      BY <1>1, <1>4, <2>1 DEF RunHolds, Accomplished
  <1>6. NothingUndone
    BY <1>1 DEF NothingUndone
  <1>7. \A i \in c.accepted : Accomplished(c.cmd, i)'
    BY <1>4, <1>5, <1>6, AccomplishedStays DEF Invocations
  <1>8. cli' = [cli EXCEPT ![u] = c]
    BY <1>2 DEF LogIn
  <1>9. live' \subseteq live \cup {run} /\ late' \subseteq Posts
    BY <1>1, <1>2 DEF RunsSafe
  <1>10. QED
    BY <1>1, <1>2, <1>4, <1>5, <1>6, <1>7, <1>8, <1>9, GoingOn

\* What Printed(u, login, logout) prints.
LEMMA PrintedReport ==
  ASSUME RunsSafe, NEW u \in Users, cli[u] # None, NothingUndone,
         NEW login \in {"succeeded", "failed", "unanswered"},
         NEW logout \in {"not_attempted", "succeeded", "failed"},
         Printed(u, login, logout)
  PROVE  \E r \in Reports :
           /\ report' = [report EXCEPT ![cli[u].run] = r]
           /\ \A i \in r.accepted : Accomplished(r.cmd, i)'
           /\ r.login = login /\ r.logout = logout
           /\ r.status = "succeeded" => r.accepted = Items /\ logout = "succeeded"
  <1>1. PICK c : c = cli[u]
    OBVIOUS
  <1>2. /\ c \in Invocations /\ c.cmd \in Commands /\ c.accepted \subseteq Items
        /\ \A i \in c.accepted : Accomplished(c.cmd, i)
    BY <1>1, RunTypes DEF RunHolds, Accomplished
  <1>3. PICK status :
          status = IF c.accepted = Items /\ logout = "succeeded" /\ login = "succeeded"
                   THEN "succeeded"
                   ELSE IF c.accepted # {} THEN "partial_failure" ELSE "failed"
    OBVIOUS
  <1>4. PICK r : r = [cmd |-> c.cmd, login |-> login, accepted |-> c.accepted,
                      logout |-> logout, status |-> status]
    OBVIOUS
  <1>5. report' = [report EXCEPT ![cli[u].run] = r]
    BY <1>1, <1>3, <1>4 DEF Printed
  <1>6. status \in {"succeeded", "partial_failure", "failed"}
        /\ (status = "succeeded" => c.accepted = Items /\ logout = "succeeded")
    BY <1>3
  <1>7. r \in Reports
    BY <1>2, <1>4, <1>6 DEF Reports
  <1>8. /\ r.cmd = c.cmd /\ r.accepted = c.accepted /\ r.status = status
        /\ r.login = login /\ r.logout = logout
    BY <1>4
  <1>9. \A i \in c.accepted : Accomplished(c.cmd, i)'
    BY <1>2, AccomplishedStays
  <1>10. \A i \in r.accepted : Accomplished(r.cmd, i)'
    BY <1>8, <1>9
  <1>11. QED
    BY <1>5, <1>6, <1>7, <1>8, <1>10

LEMMA UnansweredKeeps ==
  ASSUME RunsSafe, NEW u \in Users, LoginUnanswered(u)
  PROVE  RunsSafe'
  <1>1. /\ cli[u] # None /\ live' \subseteq live \cup {cli[u].run}
        /\ Printed(u, "unanswered", "not_attempted") /\ cli' = [cli EXCEPT ![u] = None]
        /\ UNCHANGED <<damaged, chain, ruled, accounts, answers, late, started>>
    BY DEF LoginUnanswered, InvocationAt
  <1>2. NothingUndone
    BY <1>1 DEF NothingUndone
  <1>3. /\ "unanswered" \in {"succeeded", "failed", "unanswered"}
        /\ "not_attempted" \in {"not_attempted", "succeeded", "failed"}
    OBVIOUS
  <1>4. PICK r \in Reports :
          /\ report' = [report EXCEPT ![cli[u].run] = r]
          /\ \A i \in r.accepted : Accomplished(r.cmd, i)'
          /\ r.login = "unanswered" /\ r.logout = "not_attempted"
          /\ r.status = "succeeded" => r.accepted = Items /\ "not_attempted" = "succeeded"
    BY <1>1, <1>2, <1>3, PrintedReport
  <1>5. r.status # "succeeded"
    BY <1>4
  <1>6. PICK run : run = cli[u].run
    OBVIOUS
  <1>7. QED
    BY <1>1, <1>2, <1>4, <1>5, <1>6, Ending

LEMMA LogOutKeeps ==
  ASSUME RunsSafe, NEW u \in Users, NEW answered \in BOOLEAN, LogOut(u, answered)
  PROVE  RunsSafe'
  <1>1. PICK login, logout, run :
          /\ login = IF RolesExpected(u, cli[u].cmd) THEN "succeeded" ELSE "failed"
          /\ logout = IF answered THEN "succeeded" ELSE "failed"
          /\ run = cli[u].run
    OBVIOUS
  <1>2. /\ cli[u] # None /\ live' \subseteq live
        /\ answered => run \notin live'
        /\ Printed(u, login, logout) /\ cli' = [cli EXCEPT ![u] = None]
        /\ UNCHANGED <<damaged, chain, ruled, accounts, answers, late, started>>
    BY <1>1 DEF LogOut, InvocationAt
  <1>3. NothingUndone
    BY <1>2 DEF NothingUndone
  <1>4. /\ login \in {"succeeded", "failed", "unanswered"}
        /\ logout \in {"not_attempted", "succeeded", "failed"}
        /\ logout = "succeeded" <=> answered
        /\ logout = "failed" <=> ~answered
    BY <1>1
  <1>5. PICK r \in Reports :
          /\ report' = [report EXCEPT ![cli[u].run] = r]
          /\ \A i \in r.accepted : Accomplished(r.cmd, i)'
          /\ r.login = login /\ r.logout = logout
          /\ r.status = "succeeded" => r.accepted = Items /\ logout = "succeeded"
    BY <1>2, <1>3, <1>4, PrintedReport
  <1>6. /\ r.status = "succeeded" => r.accepted = Items /\ run \notin live'
        /\ run \in live' => r.login = "unanswered" \/ r.logout = "failed"
        /\ live' \subseteq live \cup {run}
    BY <1>2, <1>4, <1>5
  <1>7. report' = [report EXCEPT ![run] = r]
    BY <1>1, <1>5
  <1>8. QED
    BY <1>1, <1>2, <1>3, <1>5, <1>6, <1>7, Ending

LEMMA AdvanceTypes ==
  ASSUME NEW c \in Invocations, c.next <= Batch, NEW d, d = Advance(c)
  PROVE  /\ d \in Invocations /\ d.run = c.run /\ d.cmd = c.cmd /\ d.accepted = c.accepted
         /\ d.at # "logout" => d.next <= Batch
  <1>1. PICK n, at : n = c.next + 1 /\ at = IF c.next = Batch THEN "logout" ELSE "items"
    OBVIOUS
  <1>2. /\ c.next \in 1..(Batch + 1) /\ n \in 1..(Batch + 1) /\ at \in {"items", "logout"}
        /\ at # "logout" => n <= Batch
    BY <1>1, ClientConstants DEF Invocations
  <1>3. PICK e : e = [c EXCEPT !.next = n]
    OBVIOUS
  <1>4. /\ e \in Invocations /\ e.run = c.run /\ e.cmd = c.cmd /\ e.accepted = c.accepted
        /\ e.next = n
    BY <1>2, <1>3 DEF Invocations
  <1>5. d = [e EXCEPT !.at = at]
    BY <1>1, <1>3 DEF Advance
  <1>6. QED
    BY <1>2, <1>4, <1>5 DEF Invocations

LEMMA PostKeeps ==
  ASSUME ServerSafe, RunsSafe, NEW u \in Users, PostItem(u)
  PROVE  ServerSafe' /\ RunsSafe'
  <1>1. PICK c, run : c = cli[u] /\ run = cli[u].run
    OBVIOUS
  <1>2. /\ cli[u] # None /\ c.at = "items" /\ Handle(u, c.cmd, c.next)
        /\ cli' = [cli EXCEPT ![u] =
             [Advance(c) EXCEPT !.accepted =
                IF ResponseMatches(u, c.cmd, c.next) THEN @ \cup {c.next} ELSE @]]
        /\ UNCHANGED <<damaged, ruled, live, late, started, report>>
    BY <1>1 DEF PostItem, InvocationAt
  <1>3. /\ c \in Invocations /\ c.cmd \in Commands /\ c.next <= Batch /\ c.next \in Items
        /\ c.accepted \subseteq Items
        /\ \A i \in c.accepted : Accomplished(c.cmd, i)
    <2>1. /\ c \in Invocations /\ c.cmd \in Commands /\ c.accepted \subseteq Items
          /\ c.next \in 1..(Batch + 1) /\ RunHolds(u)
      BY <1>1, <1>2, RunTypes
    <2>2. c.next <= Batch /\ \A i \in c.accepted : Accomplished(c.cmd, i)
      BY <1>1, <1>2, <2>1 DEF RunHolds, Accomplished
    <2>3. QED
      BY <2>1, <2>2, ClientConstants DEF Items
  <1>4. ServerSafe' /\ NothingUndone
    BY <1>2, <1>3, HandleKeeps
  <1>5. PICK more : more = IF ResponseMatches(u, c.cmd, c.next) THEN c.accepted \cup {c.next}
                           ELSE c.accepted
    OBVIOUS
  <1>6. \A i \in more : i \in Items /\ Accomplished(c.cmd, i)'
    <2>1. \A i \in c.accepted : Accomplished(c.cmd, i)'
      BY <1>3, <1>4, AccomplishedStays
    <2>2. ResponseMatches(u, c.cmd, c.next) => Accomplished(c.cmd, c.next)'
      BY <1>2, <1>3, MatchingIsAccomplished
    <2>3. QED
      BY <1>3, <1>5, <2>1, <2>2
  <1>7. PICK d, e : d = Advance(c) /\ e = [d EXCEPT !.accepted = more]
    OBVIOUS
  <1>8. /\ d \in Invocations /\ d.run = c.run /\ d.cmd = c.cmd /\ d.accepted = c.accepted
        /\ d.at # "logout" => d.next <= Batch
    BY <1>3, <1>7, AdvanceTypes
  <1>9. /\ e \in Invocations /\ e.run = run /\ e.cmd = c.cmd /\ e.accepted = more
        /\ e.at # "logout" => e.next <= Batch
    BY <1>1, <1>6, <1>7, <1>8 DEF Invocations
  <1>10. cli' = [cli EXCEPT ![u] = e]
    BY <1>2, <1>5, <1>7, <1>8
  <1>11. \A i \in e.accepted : Accomplished(e.cmd, i)'
    BY <1>6, <1>9
  <1>12. live' \subseteq live \cup {run} /\ late' \subseteq Posts
    BY <1>2 DEF RunsSafe
  <1>13. QED
    BY <1>1, <1>2, <1>4, <1>9, <1>10, <1>11, <1>12, GoingOn

LEMMA TimeOutKeeps ==
  ASSUME RunsSafe, NEW u \in Users, PostTimesOut(u)
  PROVE  RunsSafe'
  <1>1. PICK c, run, d : c = cli[u] /\ run = cli[u].run /\ d = Advance(c)
    OBVIOUS
  <1>2. /\ cli[u] # None /\ c.at = "items" /\ cli' = [cli EXCEPT ![u] = d]
        /\ late' = late \cup {[by |-> u, cmd |-> c.cmd, item |-> c.next, session |-> c.run]}
        /\ UNCHANGED <<damaged, ruled, live, started, report, chain, accounts>>
    BY <1>1 DEF PostTimesOut, InvocationAt, serverVars
  <1>3. /\ c \in Invocations /\ c.cmd \in Commands /\ c.next <= Batch /\ c.next \in Items
        /\ c.run \in Runs /\ c.accepted \subseteq Items
        /\ \A i \in c.accepted : Accomplished(c.cmd, i)
    <2>1. /\ c \in Invocations /\ c.cmd \in Commands /\ c.accepted \subseteq Items
          /\ c.next \in 1..(Batch + 1) /\ RunHolds(u) /\ c.run \in Runs
      BY <1>1, <1>2, RunTypes
    <2>2. c.next <= Batch /\ \A i \in c.accepted : Accomplished(c.cmd, i)
      BY <1>1, <1>2, <2>1 DEF RunHolds, Accomplished
    <2>3. QED
      BY <2>1, <2>2, ClientConstants DEF Items
  <1>4. NothingUndone
    BY <1>2 DEF NothingUndone
  <1>5. \A i \in c.accepted : Accomplished(c.cmd, i)'
    BY <1>3, <1>4, AccomplishedStays
  <1>6. /\ d \in Invocations /\ d.run = run /\ d.cmd = c.cmd /\ d.accepted = c.accepted
        /\ d.at # "logout" => d.next <= Batch
    BY <1>1, <1>3, AdvanceTypes
  <1>7. \A i \in d.accepted : Accomplished(d.cmd, i)'
    BY <1>5, <1>6
  <1>8. late' \subseteq Posts /\ live' \subseteq live \cup {run}
    BY <1>2, <1>3 DEF Posts, RunsSafe
  <1>9. QED
    BY <1>1, <1>2, <1>4, <1>6, <1>7, <1>8, GoingOn

LEMMA ServerInitHolds == ClientInit => ServerSafe
  <1> SUFFICES ASSUME ClientInit PROVE ServerSafe
    OBVIOUS
  <1>1. PICK u \in Operators, registered \in SUBSET Items :
          /\ chain = [i \in Items |->
               IF i \in registered THEN <<[by |-> u, cmd |-> "register"]>> ELSE <<>>]
          /\ answers = [by : {u}, cmd : {"register"}, item : registered, sequence : {1}]
    BY DEF ClientInit
  <1>2. PICK e, s : e = [by |-> u, cmd |-> "register"] /\ s = <<e>>
    OBVIOUS
  <1>3. /\ u \in Users /\ e \in ChainEntries /\ e.cmd = "register" /\ 1 \in 1..MaxChain
    BY <1>2, RoleAssumptions, ClientConstants DEF ChainEntries
  <1>4. /\ s \in Seq(ChainEntries) /\ Len(s) = 1 /\ DOMAIN s = 1..1 /\ s[1] = e
    BY <1>2, <1>3
  <1>5. <<>> \in Seq(ChainEntries) /\ DOMAIN <<>> = {}
    OBVIOUS
  <1>6. \A i \in Items : chain[i] = IF i \in registered THEN s ELSE <<>>
    BY <1>1, <1>2
  <1>7. chain \in [Items -> Seq(ChainEntries)]
    BY <1>1, <1>2, <1>4, <1>5
  <1>8. \A a \in answers : a.by = u /\ a.cmd = "register" /\ a.item \in registered /\ a.sequence = 1
    BY <1>1
  <1>9. answers \subseteq Answers
    BY <1>1, <1>3 DEF Answers
  <1>10. AnswersHold
    <2>1. ASSUME NEW a \in answers
          PROVE  /\ a.sequence \in 1..Len(chain[a.item])
                 /\ chain[a.item][a.sequence] = [by |-> a.by, cmd |-> a.cmd]
      <3>1. chain[a.item] = s
        BY <1>6, <1>8
      <3>2. QED
        BY <1>2, <1>4, <1>8, <3>1
    <2>2. ASSUME NEW a \in answers, NEW b \in answers, a.item = b.item PROVE a = b
      BY <1>1, <2>2
    <2>3. QED
      BY <2>1, <2>2 DEF AnswersHold
  <1>11. ASSUME NEW i \in Items PROVE ChainHolds(i)
    <2>1. CASE i \in registered
      BY <1>2, <1>3, <1>4, <1>6, <2>1 DEF ChainHolds
    <2>2. CASE i \notin registered
      BY <1>5, <1>6, <2>2 DEF ChainHolds
    <2>3. QED
      BY <2>1, <2>2
  <1>12. accounts = {}
    BY DEF ClientInit
  <1>13. QED
    BY <1>7, <1>9, <1>10, <1>11, <1>12 DEF ServerSafe

LEMMA RunsInitHolds == ClientInit => RunsSafe
  <1> SUFFICES ASSUME ClientInit PROVE RunsSafe
    OBVIOUS
  <1>1. /\ damaged \subseteq Items /\ ruled = {} /\ live = {} /\ late = {} /\ started = 0
        /\ cli = [u \in Users |-> None] /\ report = [n \in Runs |-> None]
    BY DEF ClientInit
  <1>2. started \in 0..MaxRuns
    BY <1>1, ClientConstants
  <1>3. QED
    BY <1>1, <1>2 DEF RunsSafe, RunHolds, ReportsAreTrue

LEMMA LateKeeps ==
  ASSUME ServerSafe, RunsSafe, NEW m \in late, HandleLate(m)
  PROVE  ServerSafe' /\ RunsSafe'
  <1>1. m.by \in Users /\ m.cmd \in Commands /\ m.item \in Items
    BY DEF RunsSafe, Posts
  <1>2. ServerSafe' /\ NothingUndone
    BY <1>1, HandleKeeps, ServerUnchanged DEF HandleLate
  <1>3. /\ UNCHANGED <<live, started, cli, report>>
        /\ damaged' \subseteq Items /\ ruled' \subseteq Items /\ late' \subseteq Posts
    BY DEF HandleLate, RunsSafe
  <1>4. QED
    BY <1>2, <1>3, ServerStep

LEMMA OthersKeep ==
  ASSUME ServerSafe, RunsSafe, NEW i \in Items, AmendOtherwise(i) \/ DecideVersion(i)
  PROVE  ServerSafe' /\ RunsSafe'
  <1>1. /\ UNCHANGED <<live, started, cli, report>>
        /\ damaged' \subseteq Items /\ ruled' \subseteq Items /\ late' \subseteq Posts
    BY DEF AmendOtherwise, DecideVersion, RunsSafe
  <1>2. CASE AmendOtherwise(i)
    <2>1. PICK n, e : n = Len(chain[i]) + 1 /\ e = [by |-> None, cmd |-> "other"]
      OBVIOUS
    <2>2. PICK r, new : /\ r = [by |-> e.by, cmd |-> e.cmd, item |-> i, sequence |-> n]
                        /\ new = {}
      OBVIOUS
    <2>3. e \in ChainEntries /\ e.cmd = "other"
      BY <2>1 DEF ChainEntries
    <2>4. new \in SUBSET {r} /\ new \subseteq Answers /\ answers' = answers \cup new
      BY <1>2, <2>2 DEF AmendOtherwise
    <2>5. chain[i] # <<>>
      BY <1>2 DEF AmendOtherwise, ServerSafe
    <2>6. /\ e.cmd = "register" <=> chain[i] = <<>>
          /\ e.cmd = "amend" => new = {r}
          /\ new # {} => Stored(e.by, e.cmd, i) = {}
      BY <2>2, <2>3, <2>5
    <2>7. /\ chain' = [chain EXCEPT ![i] = Append(@, e)] /\ accounts' = accounts
      BY <1>2, <2>1 DEF AmendOtherwise
    <2>8. ServerSafe' /\ NothingUndone
      BY <2>1, <2>2, <2>3, <2>4, <2>6, <2>7, ChainGrows
    <2>9. QED
      BY <1>1, <2>8, ServerStep
  <1>3. CASE DecideVersion(i)
    <2>1. ServerSafe' /\ NothingUndone
      BY <1>3, ServerUnchanged DEF DecideVersion
    <2>2. QED
      BY <1>1, <2>1, ServerStep
  <1>4. QED
    BY <1>2, <1>3

LEMMA ClientNextKeeps ==
  ASSUME ServerSafe, RunsSafe, [ClientNext]_clientVars
  PROVE  ServerSafe' /\ RunsSafe'
  <1>1. CASE UNCHANGED clientVars
    <2>1. ServerSafe' /\ NothingUndone
      BY <1>1, ServerUnchanged DEF clientVars, serverVars
    <2>2. /\ UNCHANGED <<live, started, cli, report>>
          /\ damaged' \subseteq Items /\ ruled' \subseteq Items /\ late' \subseteq Posts
      BY <1>1 DEF clientVars, serverVars, RunsSafe
    <2>3. QED
      BY <2>1, <2>2, ServerStep
  <1>2. ASSUME NEW u \in Users,
               \/ \E cmd \in Commands : StartRun(u, cmd)
               \/ LogIn(u) \/ LoginUnanswered(u) \/ PostTimesOut(u)
               \/ \E answered \in BOOLEAN : LogOut(u, answered)
        PROVE  ServerSafe' /\ RunsSafe'
    <2>1. RunsSafe'
      BY <1>2, StartRunKeeps, LogInKeeps, UnansweredKeeps, TimeOutKeeps, LogOutKeeps
    <2>2. UNCHANGED <<chain, accounts, answers>>
      BY <1>2 DEF StartRun, LogIn, LoginUnanswered, PostTimesOut, LogOut, serverVars
    <2>3. QED
      BY <2>1, <2>2, ServerUnchanged
  <1>3. QED
    BY <1>1, <1>2, LateKeeps, OthersKeep, PostKeeps DEF ClientNext

LEMMA ClientSafety == ClientSpec => []ClientSafe
  <1>1. ClientInit => ClientSafe
    BY ServerInitHolds, RunsInitHolds, ClientParts
  <1>2. ClientSafe /\ [ClientNext]_clientVars => ClientSafe'
    BY ClientNextKeeps, ClientParts, ClientPartsNext
  <1>3. QED
    BY <1>1, <1>2, PTL DEF ClientSpec

\* Every reachable state of the batch commands has the types the module declares.
THEOREM ClientTypeCorrect == ClientSpec => []ClientTypeOK
  <1>1. ClientSafe => ClientTypeOK
    BY DEF ClientSafe
  <1>2. QED
    BY <1>1, ClientSafety, PTL

\* What a batch command reports as accepted is in the database and stays there, and the
\* only session it leaves is one whose login or logout was not answered (the command
\* line tools' reports, against requests that are handled late).
THEOREM ReportsTellTheTruth == ClientSpec => []ReportsAreTrue
  <1>1. ClientSafe => ReportsAreTrue
    BY DEF ClientSafe
  <1>2. QED
    BY <1>1, ClientSafety, PTL

LEMMA AtMostOne ==
  ASSUME NEW S, \A x, y \in S : x = y
  PROVE  Cardinality(S) <= 1
  <1>1. CASE S = {}
    BY <1>1, FS_EmptySet
  <1>2. CASE S # {}
    <2>1. PICK x : S = {x}
      BY <1>2
    <2>2. Cardinality(S) = 1
      BY <2>1, FS_Singleton
    <2>3. QED
      BY <2>2
  <1>3. QED
    BY <1>1, <1>2

\* However often a command is run again, also while a request of an earlier run is still
\* on its way, it amends a version once for each operator and registers it once: the
\* completed record of a request is found by its key (_replay_or_none).
THEOREM RerunsAreIdempotent == ClientSpec => []RerunsAddNothing
  <1>1. ClientSafe => RerunsAddNothing
    <2> SUFFICES ASSUME ClientSafe PROVE RerunsAddNothing
      OBVIOUS
    <2>1. ASSUME NEW i \in Items
          PROVE  /\ \A u \in Users :
                      Cardinality({k \in DOMAIN chain[i] :
                                     chain[i][k] = [by |-> u, cmd |-> "amend"]}) <= 1
                 /\ Cardinality({k \in DOMAIN chain[i] : chain[i][k].cmd = "register"}) <= 1
      <3>1. ChainHolds(i) /\ AnswersHold
        BY DEF ClientSafe
      <3>2. ASSUME NEW u \in Users
            PROVE  Cardinality({k \in DOMAIN chain[i] :
                                  chain[i][k] = [by |-> u, cmd |-> "amend"]}) <= 1
        <4>1. PICK K : K = {k \in DOMAIN chain[i] : chain[i][k] = [by |-> u, cmd |-> "amend"]}
          OBVIOUS
        <4>2. ASSUME NEW k \in K
              PROVE  [by |-> u, cmd |-> "amend", item |-> i, sequence |-> k] \in answers
          <5>1. /\ k \in DOMAIN chain[i] /\ chain[i][k] = [by |-> u, cmd |-> "amend"]
                /\ chain[i][k].by = u /\ chain[i][k].cmd = "amend"
            BY <4>1, <4>2
          <5>2. QED
            BY <3>1, <5>1 DEF ChainHolds
        <4>3. ASSUME NEW k \in K, NEW l \in K PROVE k = l
          <5>1. PICK a, b : /\ a = [by |-> u, cmd |-> "amend", item |-> i, sequence |-> k]
                            /\ b = [by |-> u, cmd |-> "amend", item |-> i, sequence |-> l]
            OBVIOUS
          <5>2. a \in answers /\ b \in answers
            BY <4>2, <5>1
          <5>3. a = b
            BY <3>1, <5>1, <5>2 DEF AnswersHold
          <5>4. QED
            BY <5>1, <5>3
        <4>4. QED
          BY <4>1, <4>3, AtMostOne
      <3>3. \A k, l \in {m \in DOMAIN chain[i] : chain[i][m].cmd = "register"} : k = l
        BY <3>1 DEF ChainHolds
      <3>4. QED
        BY <3>2, <3>3, AtMostOne
    <2>2. QED
      BY <2>1 DEF RerunsAddNothing
  <1>2. QED
    BY <1>1, ClientSafety, PTL

-----------------------------------------------------------------------------
(* AcquisitionStaging: the commands that stage.                             *)

\* The part of the invariant that is about staging.
StagersSafe ==
  /\ payloads \in [Files -> {"absent", "sound", "altered"}]
  /\ ledgers \in [Batches -> Nat] /\ reported \subseteq Batches
  /\ staging \in [Stagers -> Stagings \cup {None}]
  /\ since \subseteq Batches \X Batches
  /\ \A w \in Stagers : StagerHolds(w)
  /\ SinceHolds

\* The part that is about submissions.
SubmittersSafe ==
  /\ submitting \in [Senders -> Submissions \cup {None}]
  /\ sources \subseteq Files
  /\ receipts \subseteq [by : Senders, item : Read]
  /\ \A r \in receipts : r.item \in sources
  /\ \A u \in Senders : SubmissionHolds(u)
  /\ begun \in 0..MaxCommands

LEMMA StagingParts == StagingSafe <=> StagersSafe /\ SubmittersSafe
  <1>1. Files \subseteq Read
    BY DEF Read
  <1>2. QED
    BY <1>1 DEF StagingSafe, StagersSafe, SubmittersSafe, StagingTypeOK

LEMMA StagingPartsNext == StagingSafe' <=> StagersSafe' /\ SubmittersSafe'
  BY StagingParts, PTL

LEMMA StagerTypes ==
  ASSUME StagersSafe, NEW w \in Stagers, staging[w] # None
  PROVE  /\ staging[w] \in Stagings /\ staging[w].batch \in Batches
         /\ staging[w].at \in {"payloads", "exists", "latest", "link", "order", "report"}
         /\ staging[w].new \in BOOLEAN /\ staging[w].previous \in Nat
         /\ staging[w].after \subseteq Batches
  BY DEF StagersSafe, Stagings

\* One command goes on or ends: no ledger becomes older, and what is fixed stays so.
LEMMA StagerStep ==
  ASSUME StagersSafe, NEW w \in Stagers, NEW s \in Stagings \cup {None},
         staging' = [staging EXCEPT ![w] = s],
         payloads' \in [Files -> {"absent", "sound", "altered"}],
         reported' \subseteq Batches,
         ledgers' \in [Batches -> Nat],
         \A c \in Batches : ledgers[c] <= ledgers'[c],
         \A c \in Batches : Fixed(c) => ledgers'[c] = ledgers[c],
         s # None /\ s.new /\ s.at \notin {"payloads", "exists", "report"} => ~Fixed(s.batch),
         s # None /\ s.at = "order" => s.new,
         s # None /\ s.new =>
           \A b \in s.after :
             /\ b # s.batch /\ Fixed(b)
             /\ s.at \in {"link", "order"} => ledgers[b] <= s.previous,
         since' \subseteq Batches \X Batches,
         \A pair \in since' \ since :
           Fixed(pair[1]) /\ ledgers[pair[1]] < ledgers'[pair[2]]
  PROVE  StagersSafe'
  <1>1. /\ staging' \in [Stagers -> Stagings \cup {None}] /\ staging'[w] = s
        /\ \A v \in Stagers \ {w} : staging'[v] = staging[v]
    BY DEF StagersSafe
  <1>2. ASSUME NEW b \in Batches, Fixed(b)
        PROVE  Fixed(b)' /\ ledgers'[b] = ledgers[b]
    <2>1. ledgers'[b] = ledgers[b] /\ ledgers[b] # 0
      BY <1>2 DEF Fixed
    <2>2. ASSUME NEW v \in Stagers, staging'[v] # None, staging'[v].batch = b
          PROVE  ~staging'[v].new \/ staging'[v].at \in {"payloads", "exists", "report"}
      <3>1. CASE v = w
        BY <1>1, <1>2, <2>2, <3>1
      <3>2. CASE v # w
        BY <1>1, <1>2, <2>2, <3>2 DEF Fixed
      <3>3. QED
        BY <3>1, <3>2
    <2>3. QED
      BY <2>1, <2>2 DEF Fixed
  <1>3. ASSUME NEW v \in Stagers PROVE StagerHolds(v)'
    <2>1. CASE v = w
      <3>1. CASE s = None
        BY <1>1, <2>1, <3>1 DEF StagerHolds
      <3>2. CASE s # None
        <4>1. s.after \subseteq Batches
          BY <3>2 DEF Stagings
        <4>2. s.new => \A b \in s.after :
                         /\ b # s.batch /\ Fixed(b)'
                         /\ s.at \in {"link", "order"} => ledgers'[b] <= s.previous
          BY <1>2, <3>2, <4>1
        <4>3. QED
          BY <1>1, <2>1, <3>2, <4>2 DEF StagerHolds
      <3>3. QED
        BY <3>1, <3>2
    <2>2. CASE v # w
      <3>1. staging'[v] = staging[v] /\ StagerHolds(v)
        BY <1>1, <2>2 DEF StagersSafe
      <3>2. CASE staging[v] = None
        BY <3>1, <3>2 DEF StagerHolds
      <3>3. CASE staging[v] # None
        <4>1. PICK r : r = staging[v]
          OBVIOUS
        <4>2. r # None /\ r.after \subseteq Batches
          BY <3>3, <4>1, StagerTypes
        <4>3. /\ r.at = "order" => r.new
              /\ r.new => \A b \in r.after :
                            /\ b # r.batch /\ Fixed(b)
                            /\ r.at \in {"link", "order"} => ledgers[b] <= r.previous
          BY <3>1, <3>3, <4>1 DEF StagerHolds
        <4>4. r.new => \A b \in r.after :
                         /\ b # r.batch /\ Fixed(b)'
                         /\ r.at \in {"link", "order"} => ledgers'[b] <= r.previous
          BY <1>2, <4>2, <4>3
        <4>5. QED
          BY <3>1, <4>1, <4>3, <4>4 DEF StagerHolds
      <3>4. QED
        BY <3>2, <3>3
    <2>3. QED
      BY <2>1, <2>2
  <1>4. SinceHolds'
    <2> SUFFICES ASSUME NEW pair \in since'
                 PROVE  Fixed(pair[1])' /\ ledgers'[pair[1]] < ledgers'[pair[2]]
      BY DEF SinceHolds
    <2>1. PICK b, c : b = pair[1] /\ c = pair[2]
      OBVIOUS
    <2>2. b \in Batches /\ c \in Batches
      BY <2>1
    <2>3. Fixed(b) /\ ledgers[b] < ledgers'[c]
      <3>1. CASE pair \in since
        <4>1. Fixed(b) /\ ledgers[b] < ledgers[c]
          BY <2>1, <3>1 DEF StagersSafe, SinceHolds, Fixed
        <4>2. /\ ledgers[c] <= ledgers'[c] /\ ledgers[b] \in Nat /\ ledgers[c] \in Nat
              /\ ledgers'[c] \in Nat
          BY <2>2 DEF StagersSafe
        <4>3. QED
          BY <4>1, <4>2
      <3>2. CASE pair \notin since
        BY <2>1, <3>2 DEF Fixed
      <3>3. QED
        BY <3>1, <3>2
    <2>4. Fixed(b)' /\ ledgers'[b] = ledgers[b]
      BY <1>2, <2>2, <2>3
    <2>5. QED
      BY <2>1, <2>3, <2>4 DEF Fixed
  <1>5. QED
    BY <1>1, <1>3, <1>4 DEF StagersSafe

\* A command that goes on with no ledger changed, and none put after another.
LEMMA StagerMoves ==
  ASSUME StagersSafe, NEW w \in Stagers, NEW s \in Stagings \cup {None},
         staging' = [staging EXCEPT ![w] = s],
         payloads' \in [Files -> {"absent", "sound", "altered"}],
         reported' \subseteq Batches, UNCHANGED <<ledgers, since>>,
         s # None /\ s.new /\ s.at \notin {"payloads", "exists", "report"} => ~Fixed(s.batch),
         s # None /\ s.at = "order" => s.new,
         s # None /\ s.new =>
           \A b \in s.after :
             /\ b # s.batch /\ Fixed(b)
             /\ s.at \in {"link", "order"} => ledgers[b] <= s.previous
  PROVE  StagersSafe'
  <1>1. /\ ledgers' \in [Batches -> Nat] /\ \A c \in Batches : ledgers[c] <= ledgers'[c]
        /\ \A c \in Batches : ledgers'[c] = ledgers[c]
        /\ since' \subseteq Batches \X Batches /\ since' \ since = {}
    BY DEF StagersSafe
  <1>2. QED
    BY <1>1, StagerStep

LEMMA WritingKeeps ==
  ASSUME StagersSafe, NEW w \in Stagers
  PROVE  /\ \A b \in Batches : Stage(w, b) => StagersSafe'
         /\ WritePayloads(w) \/ WriteReport(w) \/ CrashStaging(w) => StagersSafe'
  <1>1. /\ payloads \in [Files -> {"absent", "sound", "altered"}]
        /\ reported \subseteq Batches /\ staging \in [Stagers -> Stagings \cup {None}]
    BY DEF StagersSafe
  <1>2. ASSUME EndStaging(w), UNCHANGED <<ledgers, since>>, reported' \subseteq Batches,
               payloads' \in [Files -> {"absent", "sound", "altered"}]
        PROVE  StagersSafe'
    BY <1>2, StagerMoves DEF EndStaging
  <1>3. ASSUME NEW b \in Batches, Stage(w, b) PROVE StagersSafe'
    <2>1. PICK s : s = [batch |-> b, at |-> "payloads", new |-> FALSE, previous |-> 0,
                        after |-> {}]
      OBVIOUS
    <2>2. s \in Stagings /\ s.new = FALSE /\ s.at = "payloads"
      BY <2>1 DEF Stagings
    <2>3. /\ staging' = [staging EXCEPT ![w] = s]
          /\ UNCHANGED <<payloads, ledgers, reported, since>>
      BY <1>3, <2>1 DEF Stage
    <2>4. payloads' \in [Files -> {"absent", "sound", "altered"}] /\ reported' \subseteq Batches
      BY <1>1, <2>3
    <2>5. QED
      BY <2>2, <2>3, <2>4, StagerMoves
  <1>4. ASSUME WritePayloads(w) PROVE StagersSafe'
    <2>1. PICK written \in SUBSET PayloadsOf[staging[w].batch] :
            /\ payloads' = [p \in Files |-> IF p \in written THEN "sound" ELSE payloads[p]]
            /\ IF written = PayloadsOf[staging[w].batch] THEN GoesTo(w, "exists")
               ELSE EndStaging(w)
      BY <1>4 DEF WritePayloads
    <2>2. /\ payloads' \in [Files -> {"absent", "sound", "altered"}]
          /\ reported' \subseteq Batches /\ UNCHANGED <<ledgers, since>>
      BY <1>1, <1>4, <2>1 DEF WritePayloads
    <2>3. CASE EndStaging(w)
      BY <1>2, <2>2, <2>3
    <2>4. CASE GoesTo(w, "exists")
      <3>1. staging[w] # None /\ staging[w] \in Stagings /\ StagerHolds(w)
        BY <1>4, StagerTypes DEF WritePayloads, StagerAt, StagersSafe
      <3>2. PICK s : s = [staging[w] EXCEPT !.at = "exists"]
        OBVIOUS
      <3>3. /\ s \in Stagings /\ s.at = "exists" /\ s.new = staging[w].new
            /\ s.batch = staging[w].batch /\ s.after = staging[w].after
        BY <3>1, <3>2 DEF Stagings
      <3>4. s.new => \A b \in s.after : b # s.batch /\ Fixed(b)
        BY <3>1, <3>3 DEF StagerHolds
      <3>5. staging' = [staging EXCEPT ![w] = s]
        BY <2>4, <3>2 DEF GoesTo
      <3>6. QED
        BY <2>2, <3>3, <3>4, <3>5, StagerMoves
    <2>5. QED
      BY <2>1, <2>3, <2>4
  <1>5. ASSUME WriteReport(w) PROVE StagersSafe'
    <2>1. staging[w].batch \in Batches
      BY <1>5, StagerTypes DEF WriteReport, StagerAt
    <2>2. QED
      BY <1>1, <1>2, <1>5, <2>1 DEF WriteReport
  <1>6. ASSUME CrashStaging(w) PROVE StagersSafe'
    BY <1>1, <1>2, <1>6 DEF CrashStaging
  <1>7. QED
    BY <1>3, <1>4, <1>5, <1>6

LEMMA LookKeeps ==
  ASSUME StagersSafe, NEW w \in Stagers, LookForLedger(w)
  PROVE  StagersSafe'
  <1>1. /\ staging[w] # None /\ staging[w] \in Stagings /\ staging[w].batch \in Batches
        /\ UNCHANGED <<payloads, ledgers, reported, since>>
        /\ payloads' \in [Files -> {"absent", "sound", "altered"}] /\ reported' \subseteq Batches
    BY StagerTypes DEF LookForLedger, StagerAt, StagersSafe
  <1>2. PICK new, after : /\ new = (ledgers[staging[w].batch] = 0)
                          /\ after = IF new THEN Settled ELSE {}
    OBVIOUS
  <1>3. new \in BOOLEAN /\ after \subseteq Batches
    BY <1>2 DEF Settled
  <1>4. PICK r : r = [staging[w] EXCEPT !.at = "latest"]
    OBVIOUS
  <1>5. r \in Stagings /\ r.at = "latest" /\ r.batch = staging[w].batch
    BY <1>1, <1>4 DEF Stagings
  <1>6. PICK q : q = [r EXCEPT !.new = new]
    OBVIOUS
  <1>7. q \in Stagings /\ q.at = "latest" /\ q.batch = staging[w].batch /\ q.new = new
    BY <1>3, <1>5, <1>6 DEF Stagings
  <1>8. PICK s : s = [q EXCEPT !.after = after]
    OBVIOUS
  <1>9. /\ s \in Stagings /\ s.at = "latest" /\ s.batch = staging[w].batch /\ s.new = new
        /\ s.after = after
    BY <1>3, <1>7, <1>8 DEF Stagings
  <1>10. staging' = [staging EXCEPT ![w] = s]
    BY <1>2, <1>4, <1>6, <1>8 DEF LookForLedger
  <1>11. s.new => ~Fixed(s.batch)
    BY <1>2, <1>9 DEF Fixed
  <1>12. s.new => \A b \in s.after : b # s.batch /\ Fixed(b)
    <2>1. \A b \in Settled : b # staging[w].batch /\ Fixed(b)
      BY <1>1 DEF Settled, Fixed
    <2>2. QED
      BY <1>2, <1>9, <2>1
  <1>13. QED
    BY <1>1, <1>9, <1>10, <1>11, <1>12, StagerMoves

LEMMA LatestKeeps ==
  ASSUME StagersSafe, NEW w \in Stagers, LatestLedgerMtime(w)
  PROVE  StagersSafe'
  <1>1. /\ staging[w] # None /\ staging[w].at = "latest"
        /\ staging[w] \in Stagings /\ staging[w].batch \in Batches /\ StagerHolds(w)
        /\ staging[w].new \in BOOLEAN /\ staging[w].after \subseteq Batches
        /\ UNCHANGED <<payloads, ledgers, reported, since>>
        /\ payloads' \in [Files -> {"absent", "sound", "altered"}] /\ reported' \subseteq Batches
    BY StagerTypes DEF LatestLedgerMtime, StagerAt, StagersSafe
  <1>2. PICK latest \in {ledgers[b] : b \in Batches} :
          /\ \A b \in Batches : ledgers[b] <= latest
          /\ staging' = [staging EXCEPT ![w].at = "link",
               ![w].previous = IF staging[w].new THEN latest ELSE 0]
    BY DEF LatestLedgerMtime
  <1>3. PICK previous : previous = IF staging[w].new THEN latest ELSE 0
    OBVIOUS
  <1>4. previous \in Nat
    BY <1>3 DEF StagersSafe
  <1>5. PICK r : r = [staging[w] EXCEPT !.at = "link"]
    OBVIOUS
  <1>6. /\ r \in Stagings /\ r.at = "link" /\ r.batch = staging[w].batch
        /\ r.new = staging[w].new /\ r.after = staging[w].after
    BY <1>1, <1>5 DEF Stagings
  <1>7. PICK s : s = [r EXCEPT !.previous = previous]
    OBVIOUS
  <1>8. /\ s \in Stagings /\ s.at = "link" /\ s.batch = staging[w].batch
        /\ s.new = staging[w].new /\ s.after = staging[w].after /\ s.previous = previous
    BY <1>4, <1>6, <1>7 DEF Stagings
  <1>9. staging' = [staging EXCEPT ![w] = s]
    BY <1>2, <1>3, <1>5, <1>7
  <1>10. s.new => ~Fixed(s.batch)
    BY <1>1, <1>8 DEF Fixed
  <1>11. s.new => \A b \in s.after : b # s.batch /\ Fixed(b) /\ ledgers[b] <= s.previous
    <2>1. s.new => \A b \in s.after : b # s.batch /\ Fixed(b)
      BY <1>1, <1>8 DEF StagerHolds
    <2>2. s.new => \A b \in Batches : ledgers[b] <= s.previous
      BY <1>2, <1>3, <1>8
    <2>3. QED
      BY <1>1, <1>8, <2>1, <2>2
  <1>12. QED
    BY <1>1, <1>8, <1>9, <1>10, <1>11, StagerMoves

LEMMA LinkKeeps ==
  ASSUME StagersSafe, NEW w \in Stagers, LinkLedger(w)
  PROVE  StagersSafe'
  <1>1. /\ staging[w] # None /\ staging[w].at = "link"
        /\ staging[w] \in Stagings /\ staging[w].batch \in Batches /\ StagerHolds(w)
        /\ staging[w].new \in BOOLEAN /\ staging[w].after \subseteq Batches
        /\ UNCHANGED <<payloads, reported, since>>
        /\ payloads' \in [Files -> {"absent", "sound", "altered"}] /\ reported' \subseteq Batches
    BY StagerTypes DEF LinkLedger, StagerAt, StagersSafe
  <1>2. PICK now \in Clock :
          ledgers' = [ledgers EXCEPT ![staging[w].batch] = IF @ = 0 THEN now ELSE @]
    BY DEF LinkLedger
  <1>3. ledgers \in [Batches -> Nat] /\ now \in Nat
    BY StagingConstants DEF StagersSafe
  <1>4. /\ ledgers' \in [Batches -> Nat] /\ \A c \in Batches : ledgers[c] <= ledgers'[c]
        /\ \A c \in Batches : ledgers[c] # 0 => ledgers'[c] = ledgers[c]
    BY <1>1, <1>2, <1>3
  <1>5. PICK at : at = IF staging[w].new THEN "order" ELSE "report"
    OBVIOUS
  <1>6. PICK s : s = [staging[w] EXCEPT !.at = at]
    OBVIOUS
  <1>7. /\ s \in Stagings /\ s.at = at /\ s.batch = staging[w].batch
        /\ s.new = staging[w].new /\ s.after = staging[w].after
        /\ s.previous = staging[w].previous
    BY <1>1, <1>5, <1>6 DEF Stagings
  <1>8. staging' = [staging EXCEPT ![w] = s]
    BY <1>5, <1>6 DEF LinkLedger, GoesTo
  <1>9. /\ s.new => ~Fixed(s.batch)
        /\ s.at = "order" => s.new
    BY <1>1, <1>5, <1>7 DEF Fixed
  <1>10. s.new => \A b \in s.after : b # s.batch /\ Fixed(b) /\ ledgers[b] <= s.previous
    BY <1>1, <1>7 DEF StagerHolds
  <1>11. /\ since' \subseteq Batches \X Batches /\ since' \ since = {}
         /\ \A c \in Batches : Fixed(c) => ledgers'[c] = ledgers[c]
    BY <1>1, <1>4 DEF StagersSafe, Fixed
  <1>12. QED
    BY <1>1, <1>4, <1>7, <1>8, <1>9, <1>10, <1>11, StagerStep

LEMMA OrderedFacts ==
  ASSUME NEW time \in Nat, NEW previous \in Nat
  PROVE  /\ Ordered(time, previous) \in Nat
         /\ time <= Ordered(time, previous) /\ previous < Ordered(time, previous)
  BY DEF Ordered

LEMMA OrderKeeps ==
  ASSUME StagersSafe, NEW w \in Stagers, OrderNewLedgerAfter(w)
  PROVE  StagersSafe'
  <1>1. /\ staging[w] # None /\ staging[w].at = "order"
        /\ staging[w] \in Stagings /\ staging[w].batch \in Batches /\ StagerHolds(w)
        /\ staging[w].after \subseteq Batches /\ staging[w].previous \in Nat
        /\ UNCHANGED <<payloads, reported>>
        /\ payloads' \in [Files -> {"absent", "sound", "altered"}] /\ reported' \subseteq Batches
    BY StagerTypes DEF OrderNewLedgerAfter, StagerAt, StagersSafe
  <1>2. /\ staging[w].new
        /\ \A b \in staging[w].after :
             b # staging[w].batch /\ Fixed(b) /\ ledgers[b] <= staging[w].previous
    BY <1>1 DEF StagerHolds
  <1>3. ~Fixed(staging[w].batch)
    BY <1>1, <1>2 DEF Fixed
  <1>4. PICK b, previous, after, time :
          /\ b = staging[w].batch /\ previous = staging[w].previous
          /\ after = staging[w].after /\ time = Ordered(ledgers[b], previous)
    OBVIOUS
  <1>5. /\ ledgers' = [ledgers EXCEPT ![b] = time] /\ since' = since \cup (after \X {b})
    BY <1>4 DEF OrderNewLedgerAfter
  <1>6. /\ ledgers \in [Batches -> Nat] /\ b \in Batches /\ time \in Nat
        /\ ledgers[b] <= time /\ previous < time /\ previous \in Nat
    <2>1. ledgers \in [Batches -> Nat] /\ b \in Batches /\ previous \in Nat
      BY <1>1, <1>4 DEF StagersSafe
    <2>2. ledgers[b] \in Nat
      BY <2>1
    <2>3. QED
      BY <1>4, <2>1, <2>2, OrderedFacts
  <1>7. /\ ledgers' \in [Batches -> Nat] /\ \A c \in Batches : ledgers[c] <= ledgers'[c]
        /\ ledgers'[b] = time
        /\ \A c \in Batches \ {b} : ledgers'[c] = ledgers[c]
    BY <1>5, <1>6
  <1>8. \A c \in Batches : Fixed(c) => ledgers'[c] = ledgers[c]
    BY <1>3, <1>4, <1>7
  <1>9. since' \subseteq Batches \X Batches
    BY <1>1, <1>4, <1>5, <1>6 DEF StagersSafe
  <1>10. ASSUME NEW pair \in since' \ since
         PROVE  Fixed(pair[1]) /\ ledgers[pair[1]] < ledgers'[pair[2]]
    <2>1. PICK a \in after : pair = <<a, b>>
      BY <1>5, <1>10
    <2>2. Fixed(a) /\ ledgers[a] <= previous /\ ledgers[a] \in Nat
      BY <1>1, <1>2, <1>4, <1>6
    <2>3. ledgers[a] < ledgers'[b]
      BY <1>6, <1>7, <2>2
    <2>4. QED
      BY <2>1, <2>2, <2>3
  <1>11. PICK r : r = [staging[w] EXCEPT !.at = "report"]
    OBVIOUS
  <1>12. r \in Stagings /\ r.at = "report"
    BY <1>1, <1>11 DEF Stagings
  <1>13. PICK q : q = [r EXCEPT !.previous = 0]
    OBVIOUS
  <1>14. q \in Stagings /\ q.at = "report"
    BY <1>12, <1>13 DEF Stagings
  <1>15. PICK s : s = [q EXCEPT !.after = {}]
    OBVIOUS
  <1>16. s \in Stagings /\ s.at = "report" /\ s.after = {}
    BY <1>14, <1>15 DEF Stagings
  <1>17. staging' = [staging EXCEPT ![w] = s]
    BY <1>11, <1>13, <1>15 DEF OrderNewLedgerAfter
  <1>18. QED
    BY <1>1, <1>7, <1>8, <1>9, <1>10, <1>16, <1>17, StagerStep

-----------------------------------------------------------------------------
(* AcquisitionStaging: the submissions.                                     *)

LEMMA StagersUnchanged ==
  ASSUME StagersSafe, UNCHANGED directory
  PROVE  StagersSafe'
  BY DEF StagersSafe, directory, StagerHolds, SinceHolds, Fixed

\* What a stager does leaves submissions alone; pairs are only added.
LEMMA SubmittersUnchanged ==
  ASSUME SubmittersSafe, UNCHANGED <<submitting, sources, receipts>>,
         begun' \in 0..MaxCommands, since \subseteq since'
  PROVE  SubmittersSafe'
  <1>1. ASSUME NEW u \in Senders PROVE SubmissionHolds(u)'
    <2>1. SubmissionHolds(u) /\ submitting'[u] = submitting[u]
      BY DEF SubmittersSafe
    <2>2. QED
      BY <2>1 DEF SubmissionHolds
  <1>2. QED
    BY <1>1 DEF SubmittersSafe

\* A step of one submission; Sources and receipts are only added.
LEMMA SubmissionStep ==
  ASSUME SubmittersSafe, UNCHANGED directory, begun' \in 0..MaxCommands,
         NEW u \in Senders, NEW s \in Submissions \cup {None},
         submitting' = [submitting EXCEPT ![u] = s],
         sources \subseteq sources', sources' \subseteq Files,
         receipts' \subseteq [by : Senders, item : Read],
         \A r \in receipts' : r.item \in sources',
         s # None =>
           /\ s.replaced => \E c \in Batches : <<s.ledger, c>> \in since
           /\ s.at \in {"prepare", "send", "done"} => ~s.replaced
           /\ s.items \subseteq PayloadsOf[s.ledger]
           /\ s.accepted \subseteq sources' \cap PayloadsOf[s.ledger]
  PROVE  SubmittersSafe'
  <1>1. /\ submitting' \in [Senders -> Submissions \cup {None}] /\ submitting'[u] = s
        /\ \A v \in Senders \ {u} : submitting'[v] = submitting[v]
    BY DEF SubmittersSafe
  <1>2. since' = since
    BY DEF directory
  <1>3. SubmissionHolds(u)'
    BY <1>1, <1>2 DEF SubmissionHolds
  <1>4. ASSUME NEW v \in Senders \ {u} PROVE SubmissionHolds(v)'
    <2>1. SubmissionHolds(v) /\ submitting'[v] = submitting[v]
      BY <1>1 DEF SubmittersSafe
    <2>2. PICK r : r = submitting[v]
      OBVIOUS
    <2>3. r # None =>
            /\ r.replaced => \E c \in Batches : <<r.ledger, c>> \in since
            /\ r.at \in {"prepare", "send", "done"} => ~r.replaced
            /\ r.items \subseteq PayloadsOf[r.ledger]
            /\ r.accepted \subseteq sources' \cap PayloadsOf[r.ledger]
      BY <2>1, <2>2 DEF SubmissionHolds
    <2>4. QED
      BY <1>2, <2>1, <2>2, <2>3 DEF SubmissionHolds
  <1>5. QED
    BY <1>1, <1>3, <1>4 DEF SubmittersSafe

LEMMA SubmissionTypes ==
  ASSUME SubmittersSafe, NEW u \in Senders, submitting[u] # None
  PROVE  /\ submitting[u] \in Submissions /\ submitting[u].ledger \in Batches
         /\ submitting[u].at \in {"verify", "current", "prepare", "send", "done"}
         /\ submitting[u].items \subseteq Read /\ submitting[u].accepted \subseteq Read
         /\ submitting[u].replaced \in BOOLEAN
         /\ SubmissionHolds(u)
  BY DEF SubmittersSafe, Submissions

\* A submission that is refused, has ended or goes on without sending anything.
LEMMA QuietStep ==
  ASSUME SubmittersSafe, UNCHANGED <<directory, sources, receipts, begun>>, NEW u \in Senders
  PROVE  /\ Refuse(u) => SubmittersSafe'
         /\ \A at \in {"current", "prepare"} :
              /\ GoOn(u, at) /\ submitting[u] # None
              /\ at = "prepare" => ~submitting[u].replaced
              => SubmittersSafe'
  <1>1. /\ begun' \in 0..MaxCommands /\ sources \subseteq sources' /\ sources' \subseteq Files
        /\ receipts' \subseteq [by : Senders, item : Read]
        /\ \A r \in receipts' : r.item \in sources'
        /\ UNCHANGED directory
    BY DEF SubmittersSafe
  <1>2. ASSUME Refuse(u) PROVE SubmittersSafe'
    BY <1>1, <1>2, SubmissionStep DEF Refuse
  <1>3. ASSUME NEW at \in {"current", "prepare"}, GoOn(u, at), submitting[u] # None,
               at = "prepare" => ~submitting[u].replaced
        PROVE  SubmittersSafe'
    <2>1. submitting[u] \in Submissions /\ SubmissionHolds(u)
      BY <1>3, SubmissionTypes
    <2>2. PICK s : s = [submitting[u] EXCEPT !.at = at]
      OBVIOUS
    <2>3. /\ s \in Submissions /\ s.at = at /\ s.ledger = submitting[u].ledger
          /\ s.items = submitting[u].items /\ s.accepted = submitting[u].accepted
          /\ s.replaced = submitting[u].replaced
      BY <2>1, <2>2 DEF Submissions
    <2>4. /\ s.replaced => \E c \in Batches : <<s.ledger, c>> \in since
          /\ s.at \in {"prepare", "send", "done"} => ~s.replaced
          /\ s.items \subseteq PayloadsOf[s.ledger]
          /\ s.accepted \subseteq sources' \cap PayloadsOf[s.ledger]
      BY <1>1, <1>3, <2>1, <2>3 DEF SubmissionHolds
    <2>5. submitting' = [submitting EXCEPT ![u] = s]
      BY <1>3, <2>2 DEF GoOn
    <2>6. QED
      BY <1>1, <2>3, <2>4, <2>5, SubmissionStep
  <1>4. QED
    BY <1>2, <1>3

\* A ledger after which another was staged is older than that one.
LEMMA CheckKeeps ==
  ASSUME StagersSafe, SubmittersSafe, NEW u \in Senders,
         Verify(u) \/ RejectSuperseded(u) \/ EndSubmission(u)
  PROVE  SubmittersSafe'
  <1>1. /\ submitting[u] # None /\ SubmissionHolds(u)
        /\ submitting[u].ledger \in Batches
        /\ UNCHANGED <<directory, sources, receipts, begun>>
    BY SubmissionTypes DEF Verify, RejectSuperseded, EndSubmission, SubmitterAt
  <1>2. CASE Refuse(u)
    BY <1>1, <1>2, QuietStep
  <1>3. CASE Verify(u) /\ GoOn(u, "current")
    <2>1. "current" \in {"current", "prepare"} /\ "current" # "prepare"
      OBVIOUS
    <2>2. QED
      BY <1>1, <1>3, <2>1, QuietStep
  <1>4. CASE RejectSuperseded(u) /\ GoOn(u, "prepare") /\ ~Superseded(submitting[u].ledger)
    <2>1. PICK b : b = submitting[u].ledger
      OBVIOUS
    <2>2. ~submitting[u].replaced
      <3> SUFFICES ASSUME submitting[u].replaced PROVE FALSE
        OBVIOUS
      <3>1. PICK c \in Batches : <<b, c>> \in since
        BY <1>1, <2>1 DEF SubmissionHolds
      <3>2. ledgers[b] < ledgers[c]
        BY <3>1 DEF StagersSafe, SinceHolds
      <3>3. ledgers[b] \in Nat /\ ledgers[c] \in Nat
        BY <1>1, <2>1 DEF StagersSafe
      <3>4. c # b /\ ledgers[c] >= ledgers[b]
        BY <3>2, <3>3
      <3>5. QED
        BY <1>4, <2>1, <3>4 DEF Superseded
    <2>3. "prepare" \in {"current", "prepare"}
      OBVIOUS
    <2>4. QED
      BY <1>1, <1>4, <2>2, <2>3, QuietStep
  <1>5. QED
    BY <1>2, <1>3, <1>4 DEF Verify, RejectSuperseded, EndSubmission

LEMMA SubmitKeeps ==
  ASSUME SubmittersSafe, NEW u \in Senders, NEW b \in Batches, Submit(u, b)
  PROVE  SubmittersSafe'
  <1>1. PICK replaced : replaced = \E c \in Batches : <<b, c>> \in since
    OBVIOUS
  <1>2. PICK s : s = [ledger |-> b, at |-> "verify", items |-> {}, accepted |-> {},
                      replaced |-> replaced]
    OBVIOUS
  <1>3. /\ s \in Submissions /\ s.at = "verify" /\ s.items = {} /\ s.accepted = {}
        /\ s.ledger = b /\ s.replaced = replaced
    <2>1. replaced \in BOOLEAN
      BY <1>1
    <2>2. QED
      BY <1>2, <2>1 DEF Submissions
  <1>4. s.replaced => \E c \in Batches : <<s.ledger, c>> \in since
    BY <1>1, <1>3
  <1>5. /\ submitting' = [submitting EXCEPT ![u] = s] /\ UNCHANGED <<directory, sources, receipts>>
    BY <1>1, <1>2 DEF Submit
  <1>6. /\ begun' \in 0..MaxCommands /\ sources \subseteq sources' /\ sources' \subseteq Files
        /\ receipts' \subseteq [by : Senders, item : Read]
        /\ \A r \in receipts' : r.item \in sources'
        /\ UNCHANGED directory
    BY <1>5, StagingConstants DEF SubmittersSafe, Submit
  <1>7. QED
    BY <1>3, <1>4, <1>5, <1>6, SubmissionStep

\* Only what the second reading found unaltered is prepared.
LEMMA PrepareKeeps ==
  ASSUME SubmittersSafe, NEW u \in Senders, Prepare(u)
  PROVE  SubmittersSafe'
  <1>1. PICK b, items : /\ b = submitting[u].ledger
                        /\ items = {ReadAgain(p) : p \in PayloadsOf[b]}
    OBVIOUS
  <1>2. /\ submitting[u] # None /\ submitting[u].at = "prepare" /\ submitting[u] \in Submissions
        /\ SubmissionHolds(u) /\ b \in Batches
        /\ UNCHANGED <<directory, sources, receipts, begun>>
    BY <1>1, SubmissionTypes DEF Prepare, SubmitterAt
  <1>3. CASE Refuse(u)
    BY <1>2, <1>3, QuietStep
  <1>4. CASE ~Refuse(u)
    <2>1. /\ submitting' = [submitting EXCEPT ![u].at = "send", ![u].items = items]
          /\ \A p \in PayloadsOf[b] : HashMatches(p)
      BY <1>1, <1>4 DEF Prepare
    <2>2. items \subseteq PayloadsOf[b]
      BY <1>1, <2>1 DEF HashMatches, ReadAgain
    <2>3. items \subseteq Read
      BY <1>2, <2>2 DEF Read, Files
    <2>4. PICK r : r = [submitting[u] EXCEPT !.at = "send"]
      OBVIOUS
    <2>5. /\ r \in Submissions /\ r.at = "send" /\ r.ledger = b
          /\ r.accepted = submitting[u].accepted /\ r.replaced = submitting[u].replaced
      BY <1>1, <1>2, <2>4 DEF Submissions
    <2>6. PICK s : s = [r EXCEPT !.items = items]
      OBVIOUS
    <2>7. /\ s \in Submissions /\ s.at = "send" /\ s.ledger = b /\ s.items = items
          /\ s.accepted = submitting[u].accepted /\ s.replaced = submitting[u].replaced
      BY <2>3, <2>5, <2>6 DEF Submissions
    <2>8. submitting' = [submitting EXCEPT ![u] = s]
      BY <2>1, <2>4, <2>6
    <2>9. ~s.replaced /\ s.accepted \subseteq sources' \cap PayloadsOf[b]
      BY <1>1, <1>2, <2>7 DEF SubmissionHolds
    <2>10. /\ begun' \in 0..MaxCommands /\ sources \subseteq sources' /\ sources' \subseteq Files
           /\ receipts' \subseteq [by : Senders, item : Read]
           /\ \A x \in receipts' : x.item \in sources'
           /\ UNCHANGED directory
      BY <1>2 DEF SubmittersSafe
    <2>11. QED
      BY <2>2, <2>7, <2>8, <2>9, <2>10, SubmissionStep
  <1>5. QED
    BY <1>3, <1>4

LEMMA ExecuteKeeps ==
  ASSUME SubmittersSafe, NEW u \in Senders, ExecuteSubmissions(u)
  PROVE  SubmittersSafe'
  <1>1. PICK b, items : b = submitting[u].ledger /\ items = submitting[u].items
    OBVIOUS
  <1>2. /\ submitting[u] # None /\ submitting[u].at = "send" /\ submitting[u] \in Submissions
        /\ SubmissionHolds(u) /\ b \in Batches /\ UNCHANGED <<directory, begun>>
    BY <1>1, SubmissionTypes DEF ExecuteSubmissions, SubmitterAt
  <1>3. items \subseteq PayloadsOf[b] /\ ~submitting[u].replaced
    BY <1>1, <1>2 DEF SubmissionHolds
  <1>4. PayloadsOf[b] \subseteq Files /\ Files \subseteq Read
    BY <1>2 DEF Files, Read
  <1>5. PICK handled \in SUBSET items :
          LET new == {p \in handled : Registers(u, p)}
          IN /\ sources' = sources \cup new
             /\ receipts' = receipts \cup [by : {u}, item : new]
             /\ \E answered \in SUBSET (new \cup {p \in handled : SourceReplays(u, p)}) :
                  submitting' = [submitting EXCEPT ![u].at = "done", ![u].items = {},
                                                   ![u].accepted = answered]
    BY <1>1 DEF ExecuteSubmissions
  <1>6. PICK new : new = {p \in handled : Registers(u, p)}
    OBVIOUS
  <1>7. PICK answered \in SUBSET (new \cup {p \in handled : SourceReplays(u, p)}) :
          submitting' = [submitting EXCEPT ![u].at = "done", ![u].items = {},
                                           ![u].accepted = answered]
    BY <1>5, <1>6
  <1>8. /\ sources' = sources \cup new /\ receipts' = receipts \cup [by : {u}, item : new]
        /\ new \subseteq items
    BY <1>5, <1>6
  <1>9. /\ sources \subseteq sources' /\ sources' \subseteq Files
        /\ \A r \in receipts' : r.item \in sources'
    BY <1>3, <1>4, <1>8 DEF SubmittersSafe
  <1>10. receipts' \subseteq [by : Senders, item : Read]
    BY <1>3, <1>4, <1>8 DEF SubmittersSafe
  <1>11. answered \subseteq sources' \cap PayloadsOf[b]
    <2>1. ASSUME NEW p \in handled, SourceReplays(u, p) PROVE p \in sources
      <3>1. PICK r \in receipts : r = [by |-> u, item |-> p]
        BY <2>1 DEF SourceReplays
      <3>2. r.item = p /\ r.item \in sources
        BY <3>1 DEF SubmittersSafe
      <3>3. QED
        BY <3>2
    <2>2. QED
      BY <1>3, <1>8, <2>1
  <1>12. PICK r : r = [submitting[u] EXCEPT !.at = "done"]
    OBVIOUS
  <1>13. /\ r \in Submissions /\ r.at = "done" /\ r.ledger = b
         /\ r.replaced = submitting[u].replaced
    BY <1>1, <1>2, <1>12 DEF Submissions
  <1>14. PICK q : q = [r EXCEPT !.items = {}]
    OBVIOUS
  <1>15. /\ q \in Submissions /\ q.at = "done" /\ q.ledger = b /\ q.items = {}
         /\ q.replaced = submitting[u].replaced
    BY <1>13, <1>14 DEF Submissions
  <1>16. PICK s : s = [q EXCEPT !.accepted = answered]
    OBVIOUS
  <1>17. /\ s \in Submissions /\ s.at = "done" /\ s.ledger = b /\ s.items = {}
         /\ s.replaced = submitting[u].replaced /\ s.accepted = answered
    <2>1. answered \subseteq Read
      BY <1>4, <1>11
    <2>2. QED
      BY <1>15, <1>16, <2>1 DEF Submissions
  <1>18. submitting' = [submitting EXCEPT ![u] = s]
    BY <1>7, <1>12, <1>14, <1>16
  <1>19. begun' \in 0..MaxCommands /\ UNCHANGED directory
    BY <1>2 DEF SubmittersSafe
  <1>20. QED
    BY <1>3, <1>9, <1>10, <1>11, <1>17, <1>18, <1>19, SubmissionStep

LEMMA StagingInitHolds == StagingInit => StagersSafe /\ SubmittersSafe
  <1> SUFFICES ASSUME StagingInit PROVE StagersSafe /\ SubmittersSafe
    OBVIOUS
  <1>1. PICK old \in {{}} \cup {{b} : b \in {c \in Batches : ~StagingFails(c)}}, then \in Clock :
          /\ payloads = [p \in Files |->
               IF \E b \in old : p \in PayloadsOf[b] THEN "sound" ELSE "absent"]
          /\ ledgers = [b \in Batches |-> IF b \in old THEN then ELSE 0]
          /\ reported = old
    BY DEF StagingInit
  <1>2. old \subseteq Batches /\ then \in Nat
    BY StagingConstants
  <1>3. /\ staging = [w \in Stagers |-> None] /\ submitting = [u \in Senders |-> None]
        /\ sources = {} /\ receipts = {} /\ since = {} /\ begun = 0
    BY DEF StagingInit
  <1>4. StagersSafe
    BY <1>1, <1>2, <1>3 DEF StagersSafe, StagerHolds, SinceHolds
  <1>5. begun \in 0..MaxCommands
    BY <1>3, StagingConstants
  <1>6. SubmittersSafe
    BY <1>3, <1>5 DEF SubmittersSafe, SubmissionHolds
  <1>7. QED
    BY <1>4, <1>6

LEMMA StagingNextKeeps ==
  ASSUME StagersSafe, SubmittersSafe, [StagingNext]_stagingVars
  PROVE  StagersSafe' /\ SubmittersSafe'
  <1>0. begun \in 0..MaxCommands
    BY DEF SubmittersSafe
  <1>1. CASE UNCHANGED stagingVars
    <2>1. UNCHANGED <<directory, submitting, sources, receipts, begun, since>>
      BY <1>1 DEF stagingVars, directory
    <2>2. QED
      BY <1>0, <2>1, StagersUnchanged, SubmittersUnchanged
  <1>2. ASSUME NEW w \in Stagers, NEW b \in Batches, Stage(w, b)
        PROVE  StagersSafe' /\ SubmittersSafe'
    <2>1. StagersSafe'
      BY <1>2, WritingKeeps
    <2>2. /\ UNCHANGED <<submitting, sources, receipts>> /\ since \subseteq since'
          /\ begun' \in 0..MaxCommands
      BY <1>0, <1>2, StagingConstants DEF Stage
    <2>3. QED
      BY <2>1, <2>2, SubmittersUnchanged
  <1>3. ASSUME NEW w \in Stagers,
               \/ WritePayloads(w) \/ LookForLedger(w) \/ LatestLedgerMtime(w)
               \/ LinkLedger(w) \/ OrderNewLedgerAfter(w) \/ WriteReport(w) \/ CrashStaging(w)
        PROVE  StagersSafe' /\ SubmittersSafe'
    <2>1. StagersSafe'
      BY <1>3, WritingKeeps, LookKeeps, LatestKeeps, LinkKeeps, OrderKeeps
    <2>2. UNCHANGED <<submitting, sources, receipts, begun>> /\ since \subseteq since'
      BY <1>3 DEF WritePayloads, LookForLedger, LatestLedgerMtime, LinkLedger,
         OrderNewLedgerAfter, WriteReport, CrashStaging, serverAndClients
    <2>3. QED
      BY <1>0, <2>1, <2>2, SubmittersUnchanged
  <1>4. ASSUME NEW p \in Files, AlterPayload(p)
        PROVE  StagersSafe' /\ SubmittersSafe'
    <2>1. /\ payloads' \in [Files -> {"absent", "sound", "altered"}]
          /\ UNCHANGED <<ledgers, reported, staging, since>>
          /\ UNCHANGED <<submitting, sources, receipts, begun>>
      BY <1>4 DEF AlterPayload, StagersSafe, serverAndClients
    <2>2. StagersSafe'
      BY <2>1 DEF StagersSafe, StagerHolds, SinceHolds, Fixed
    <2>3. QED
      BY <1>0, <2>1, <2>2, SubmittersUnchanged
  <1>5. ASSUME NEW u \in Senders,
               \/ \E b \in Batches : Submit(u, b)
               \/ Verify(u) \/ RejectSuperseded(u) \/ Prepare(u)
               \/ ExecuteSubmissions(u) \/ EndSubmission(u)
        PROVE  StagersSafe' /\ SubmittersSafe'
    <2>1. SubmittersSafe'
      BY <1>5, SubmitKeeps, CheckKeeps, PrepareKeeps, ExecuteKeeps
    <2>2. UNCHANGED directory
      BY <1>5 DEF Submit, Verify, RejectSuperseded, Prepare, ExecuteSubmissions, EndSubmission
    <2>3. QED
      BY <2>1, <2>2, StagersUnchanged
  <1>6. QED
    BY <1>1, <1>2, <1>3, <1>4, <1>5 DEF StagingNext

LEMMA StagingSafety == StagingSpec => []StagingSafe
  <1>1. StagingInit => StagingSafe
    BY StagingInitHolds, StagingParts
  <1>2. StagingSafe /\ [StagingNext]_stagingVars => StagingSafe'
    BY StagingNextKeeps, StagingParts, StagingPartsNext
  <1>3. QED
    BY <1>1, <1>2, PTL DEF StagingSpec

\* Every reachable state of staging and submission has the types the module declares.
THEOREM StagingTypeCorrect == StagingSpec => []StagingTypeOK
  <1>1. StagingSafe => StagingTypeOK
    BY DEF StagingSafe
  <1>2. QED
    BY <1>1, StagingSafety, PTL

\* A ledger that another was staged after is not submitted, whatever the clock shows and
\* wherever other commands are killed (_order_new_ledger_after,
\* _reject_superseded_ledger).
THEOREM SupersededLedgersAreRefused == StagingSpec => []NoSupersededSubmission
  <1>1. StagingSafe => NoSupersededSubmission
    BY DEF StagingSafe, SubmissionHolds, NoSupersededSubmission
  <1>2. QED
    BY <1>1, StagingSafety, PTL

\* Only what a ledger commits to is registered, and only what the confirmed ledger
\* commits to is accepted, though payload files change between two readings
\* (_prepare_payload, _execute_submissions).
THEOREM ConfirmedIsRegistered == StagingSpec => []RegisteredAsConfirmed
  <1>1. StagingSafe => RegisteredAsConfirmed
    BY DEF StagingSafe, SubmissionHolds, RegisteredAsConfirmed
  <1>2. QED
    BY <1>1, StagingSafety, PTL

-----------------------------------------------------------------------------
(* AcquisitionBundle: the orders of the files.                              *)

LEMMA PlacesOfFiles ==
  ASSUME NEW f \in BundleFiles
  PROVE  /\ f = [kind |-> f.kind, of |-> f.of] /\ f.of \in 1..(Len(LockedSet) + 1)
         /\ \/ f.kind \in {"content", "receipt", "payload"} /\ f.of <= Len(LockedSet)
            \/ f.kind \in {"results", "report"} /\ f.of = Len(LockedSet) + 1
         /\ f = Report <=> f.kind = "report"
         /\ f = Results <=> f.kind = "results"
  <1>1. Len(LockedSet) \in Nat /\ DOMAIN LockedSet = 1..Len(LockedSet)
    BY BundleConstants
  <1>2. CASE \E i \in Ready : f \in FilesFor(i)
    <2>1. PICK i \in Ready, kind \in {"content", "receipt", "payload"} : f = [kind |-> kind, of |-> i]
      BY <1>2 DEF FilesFor
    <2>2. i \in 1..Len(LockedSet)
      BY <1>1 DEF Ready, LockedPlaces
    <2>3. f.kind = kind /\ f.of = i
      BY <2>1
    <2>4. f # Report /\ f # Results
      BY <2>3 DEF Report, Results
    <2>5. QED
      BY <1>1, <2>1, <2>2, <2>3, <2>4
  <1>3. CASE f \in {Results, Report}
    BY <1>1, <1>3 DEF Results, Report
  <1>4. (\E i \in Ready : f \in FilesFor(i)) \/ f \in {Results, Report}
    BY DEF BundleFiles
  <1>5. QED
    BY <1>2, <1>3, <1>4

LEMMA LastFiles == Results \in BundleFiles /\ Report \in BundleFiles
  BY DEF BundleFiles

\* No two files are written at the same place, nor read again at the same one.
LEMMA OrdersAreStrict ==
  /\ Written \in [BundleFiles -> Nat]
  /\ \A f, g \in BundleFiles : Written[f] = Written[g] => f = g
  /\ Verified \in [BundleFiles \ {Report} -> Nat]
  /\ \A f, g \in BundleFiles \ {Report} : Verified[f] = Verified[g] => f = g
  /\ \A f \in BundleFiles : Written[f] <= Written[Report]
  <1>1. Len(LockedSet) \in Nat
    BY BundleConstants
  <1>2. ASSUME NEW f \in BundleFiles
        PROVE  /\ Written[f] = 3 * f.of + Rank(f.kind) /\ Rank(f.kind) \in 0..2
               /\ f.of \in Nat /\ f.of >= 1 /\ Written[f] \in Nat /\ Written[f] >= 3
    <2>1. Written[f] = 3 * f.of + Rank(f.kind)
      BY DEF Written
    <2>2. Rank(f.kind) \in 0..2
      BY DEF Rank
    <2>3. f.of \in Nat /\ f.of >= 1
      BY <1>1, PlacesOfFiles
    <2>4. QED
      BY <2>1, <2>2, <2>3
  <1>3. ASSUME NEW f \in BundleFiles, NEW g \in BundleFiles, Written[f] = Written[g]
        PROVE  f = g
    <2>1. f.of = g.of /\ Rank(f.kind) = Rank(g.kind)
      BY <1>2, <1>3
    <2>2. \E kinds \in {{"content", "receipt", "payload"}, {"results", "report"}} :
            f.kind \in kinds /\ g.kind \in kinds
      <3>1. CASE f.of <= Len(LockedSet)
        BY <1>1, <2>1, <3>1, PlacesOfFiles
      <3>2. CASE f.of = Len(LockedSet) + 1
        <4>1. f.kind \in {"results", "report"}
          BY <1>1, <3>2, PlacesOfFiles
        <4>2. g.of = Len(LockedSet) + 1
          BY <2>1, <3>2
        <4>3. g.kind \in {"results", "report"}
          BY <1>1, <4>2, PlacesOfFiles
        <4>4. QED
          BY <4>1, <4>3
      <3>3. QED
        BY <1>1, <3>1, <3>2, PlacesOfFiles
    <2>3. f.kind = g.kind
      BY <2>1, <2>2 DEF Rank
    <2>4. f = [kind |-> f.kind, of |-> f.of] /\ g = [kind |-> g.kind, of |-> g.of]
      BY PlacesOfFiles
    <2>5. QED
      BY <2>1, <2>3, <2>4
  <1>4. Written \in [BundleFiles -> Nat]
    BY <1>2 DEF Written
  <1>5. \A f \in BundleFiles \ {Report} : Verified[f] = IF f = Results THEN 0 ELSE Written[f]
    BY DEF Verified
  <1>6. Verified \in [BundleFiles \ {Report} -> Nat]
    BY <1>4 DEF Verified
  <1>7. ASSUME NEW f \in BundleFiles \ {Report}, NEW g \in BundleFiles \ {Report}, Verified[f] = Verified[g]
        PROVE  f = g
    <2>1. Written[f] \in Nat /\ Written[g] \in Nat /\ Written[f] >= 3 /\ Written[g] >= 3
      BY <1>2
    <2>2. QED
      BY <1>3, <1>5, <1>7, <2>1
  <1>8. ASSUME NEW f \in BundleFiles
        PROVE  Written[f] <= Written[Report]
    <2>1. Report \in BundleFiles /\ Report.of = Len(LockedSet) + 1 /\ Report.kind = "report"
      BY LastFiles DEF Report
    <2>2. Rank(Report.kind) = 1
      BY <2>1 DEF Rank
    <2>3. Written[Report] = 3 * (Len(LockedSet) + 1) + 1
      BY <1>2, <2>1, <2>2
    <2>4. CASE f.of <= Len(LockedSet)
      BY <1>1, <1>2, <2>3, <2>4
    <2>5. CASE f.kind \in {"results", "report"} /\ f.of = Len(LockedSet) + 1
      <3>1. Rank(f.kind) <= 1
        BY <2>5 DEF Rank
      <3>2. QED
        BY <1>1, <1>2, <2>3, <2>5, <3>1
    <2>6. QED
      BY <2>4, <2>5, PlacesOfFiles
  <1>9. QED
    BY <1>3, <1>4, <1>6, <1>7, <1>8

\* What comes before the next file is f or comes before f; and so for what comes before
\* the end.
LEMMA OrderSteps ==
  ASSUME NEW D, NEW order \in [D -> Nat], \A x, y \in D : order[x] = order[y] => x = y,
         NEW f \in D
  PROVE  /\ \A g : IsNext(g, f, order) =>
              \A h \in D : order[h] < order[g] => h = f \/ order[h] < order[f]
         /\ IsLast(f, order) => \A h \in D : h = f \/ order[h] < order[f]
         /\ \A g : IsFirst(g, order) => \A h \in D : ~(order[h] < order[g])
  BY DEF IsNext, IsLast, IsFirst

LEMMA LastWritten ==
  ASSUME NEW f \in BundleFiles, IsLast(f, Written)
  PROVE  f = Report
  <1>1. Report \in BundleFiles /\ DOMAIN Written = BundleFiles
    BY LastFiles DEF Written
  <1>2. Written[Report] <= Written[f] /\ Written[f] <= Written[Report]
    BY <1>1, OrdersAreStrict DEF IsLast
  <1>3. QED
    BY <1>1, <1>2, OrdersAreStrict

-----------------------------------------------------------------------------
(* AcquisitionBundle: the inductive invariant.                              *)

\* The file is as the run's export has it.
Right(f, w) == bundle[f] = Bytes(processing[w].export, f)

\* A run that no other one has disturbed since it began to read again has found every
\* file right up to the one it reads.
ProcessingHolds(w) ==
  processing[w] # None =>
    LET r == processing[w] IN
    /\ Selects(r.export)
    /\ r.at = "verify" => r.next \in BundleFiles \ {Report}
    /\ r.at = "verify" /\ r.steady =>
         \A f \in BundleFiles \ {Report} : Verified[f] < Verified[r.next] => Right(f, w)
    /\ r.at = "done" /\ r.steady => \A f \in BundleFiles \ {Report} : Right(f, w)

\* A run beside which no other one has run writes every file in its turn, from a
\* temporary of its own.
AloneHolds(w) ==
  Running(w) /\ processing[w].alone =>
    LET r == processing[w] IN
    /\ \A v \in Processors \ {w} : ~Running(v)
    /\ r.at # "verify" => \A f \in BundleFiles : Written[f] < Written[r.next] => Right(f, w)
    /\ r.at = "write" => r.holds = "temporary" /\ temps[r.next] = "empty"
    /\ r.at = "replace" => temps[r.next] = Bytes(r.export, r.next)
    /\ r.at = "verify" => \A f \in BundleFiles : Right(f, w)

NeverFails(w) == RunAt(w, "failed") => ~processing[w].alone

BundleSafe ==
  /\ BundleTypeOK
  /\ \A w \in Processors : ProcessingHolds(w) /\ AloneHolds(w) /\ NeverFails(w)

LEMMA ProcessingTypes ==
  ASSUME BundleTypeOK, NEW w \in Processors, processing[w] # None
  PROVE  /\ processing[w] \in Processings
         /\ processing[w].export \in Exports /\ processing[w].next \in BundleFiles
         /\ processing[w].at \in {"open", "write", "replace", "verify", "done", "failed"}
         /\ processing[w].holds \in {"temporary", "final", "neither"}
         /\ processing[w].alone \in BOOLEAN /\ processing[w].steady \in BOOLEAN
  <1>1. processing[w] \in Processings
    BY DEF BundleTypeOK
  <1>2. QED
    BY <1>1 DEF Processings

LEMMA BytesTyped ==
  ASSUME NEW e \in Exports, Selects(e), NEW f \in BundleFiles
  PROVE  Bytes(e, f) \in AllBytes /\ Bytes(e, f) # "absent"
  <1>1. Bytes(e, f) # "absent"
    BY BytesPresent
  <1>2. Bytes(e, f) \in AllBytes
    BY DEF AllBytes
  <1>3. QED
    BY <1>1, <1>2

\* What a step of another run may leave of a run: what it has opened may have moved, and
\* it is no longer undisturbed if a file has changed.
Untroubled(v) ==
  /\ processing[v] = None <=> processing'[v] = None
  /\ processing[v] # None =>
       /\ processing'[v].export = processing[v].export /\ processing'[v].at = processing[v].at
       /\ processing'[v].next = processing[v].next /\ processing'[v].alone = processing[v].alone
       /\ \/ bundle' = bundle /\ processing'[v].steady = processing[v].steady
          \/ ~processing'[v].steady

LEMMA OthersHold ==
  ASSUME BundleSafe, NEW w \in Processors, Running(w), NEW v \in Processors \ {w}, Untroubled(v)
  PROVE  ProcessingHolds(v)' /\ AloneHolds(v)' /\ NeverFails(v)'
  <1>1. ProcessingHolds(v) /\ AloneHolds(v) /\ NeverFails(v)
    BY DEF BundleSafe
  <1>2. ProcessingHolds(v)'
    BY <1>1 DEF ProcessingHolds, Untroubled, Right
  <1>3. AloneHolds(v)'
    BY <1>1 DEF AloneHolds, Untroubled, Running
  <1>4. NeverFails(v)'
    BY <1>1 DEF NeverFails, Untroubled, RunAt
  <1>5. QED
    BY <1>2, <1>3, <1>4

\* A step of a running w: it goes on as r, and the others are left untroubled.
LEMMA RunStep ==
  ASSUME BundleSafe, NEW w \in Processors, Running(w),
         bundle' \in [BundleFiles -> AllBytes], temps' \in [BundleFiles -> AllBytes],
         processing' \in [Processors -> Processings \cup {None}],
         UNCHANGED bundlesBegun,
         \A v \in Processors \ {w} : Untroubled(v),
         ProcessingHolds(w)', AloneHolds(w)', NeverFails(w)'
  PROVE  BundleSafe'
  BY OthersHold DEF BundleSafe, BundleTypeOK

LEMMA RunBegins ==
  ASSUME BundleSafe, NEW w \in Processors, NEW e \in Exports, ProcessSavedExports(w, e)
  PROVE  BundleSafe'
  <1>1. PICK first \in BundleFiles :
          /\ IsFirst(first, Written)
          /\ processing' = [v \in Processors |->
               IF v = w
               THEN [export |-> e, at |-> "open", next |-> first, holds |-> "temporary",
                     alone |-> \A u \in Processors : ~Running(u), steady |-> FALSE]
               ELSE IF Running(v) THEN [processing[v] EXCEPT !.alone = FALSE] ELSE processing[v]]
    BY DEF ProcessSavedExports
  <1>2. processing[w] = None /\ Selects(e) /\ UNCHANGED <<bundle, temps>>
    BY DEF ProcessSavedExports
  <1>3. PICK alone \in BOOLEAN : alone <=> \A u \in Processors : ~Running(u)
    OBVIOUS
  <1>4. (\A u \in Processors : ~Running(u)) = alone
    BY <1>3
  <1>5. PICK r : r = [export |-> e, at |-> "open", next |-> first, holds |-> "temporary",
                      alone |-> alone, steady |-> FALSE]
    OBVIOUS
  <1>6. processing'[w] = r
    BY <1>1, <1>4, <1>5
  <1>7. r \in Processings /\ r # None
    <2>1. r \in Processings
      BY <1>5 DEF Processings
    <2>2. QED
      BY <2>1, AbsentProcessing
  <1>8. ASSUME NEW v \in Processors \ {w}
        PROVE  /\ processing'[v] \in Processings \cup {None}
               /\ ProcessingHolds(v)' /\ AloneHolds(v)' /\ NeverFails(v)'
    <2>1. ProcessingHolds(v) /\ AloneHolds(v) /\ NeverFails(v)
      BY DEF BundleSafe
    <2>2. CASE Running(v)
      <3>1. processing[v] # None /\ processing[v] \in Processings
        BY <2>2, ProcessingTypes DEF Running, BundleSafe
      <3>2. processing'[v] = [processing[v] EXCEPT !.alone = FALSE]
        BY <1>1, <2>2
      <3>3. /\ processing'[v] \in Processings /\ ~processing'[v].alone
            /\ processing'[v].export = processing[v].export /\ processing'[v].at = processing[v].at
            /\ processing'[v].next = processing[v].next /\ processing'[v].steady = processing[v].steady
        BY <3>1, <3>2 DEF Processings
      <3>4. ProcessingHolds(v)'
        BY <1>2, <2>1, <3>1, <3>3 DEF ProcessingHolds, Right
      <3>5. AloneHolds(v)' /\ NeverFails(v)'
        BY <3>3 DEF AloneHolds, NeverFails
      <3>6. QED
        BY <3>3, <3>4, <3>5
    <2>3. CASE ~Running(v)
      <3>1. processing'[v] = processing[v]
        BY <1>1, <2>3
      <3>2. processing[v] \in Processings \cup {None}
        BY DEF BundleSafe, BundleTypeOK
      <3>3. ProcessingHolds(v)' /\ NeverFails(v)'
        BY <1>2, <2>1, <3>1 DEF ProcessingHolds, Right, NeverFails, RunAt
      <3>4. AloneHolds(v)'
        BY <2>3, <3>1 DEF AloneHolds, Running
      <3>5. QED
        BY <3>1, <3>2, <3>3, <3>4
    <2>4. QED
      BY <2>2, <2>3
  <1>9. ProcessingHolds(w)' /\ NeverFails(w)'
    BY <1>2, <1>5, <1>6 DEF ProcessingHolds, NeverFails, RunAt
  <1>10. AloneHolds(w)'
    <2>1. SUFFICES ASSUME alone PROVE AloneHolds(w)'
      BY <1>5, <1>6 DEF AloneHolds
    <2>2. \A v \in Processors \ {w} : processing'[v] = processing[v] /\ ~Running(v)
      BY <1>1, <1>3, <2>1
    <2>3. \A v \in Processors \ {w} : ~Running(v)'
      BY <2>2 DEF Running
    <2>4. \A f \in BundleFiles : ~(Written[f] < Written[first])
      BY <1>1, OrdersAreStrict, OrderSteps
    <2>5. QED
      BY <1>5, <1>6, <2>3, <2>4 DEF AloneHolds
  <1>11. processing' \in [Processors -> Processings \cup {None}]
    BY <1>1, <1>6, <1>7, <1>8
  <1>12. BundleTypeOK'
    <2>1. bundlesBegun' \in 0..MaxBundles
      BY BundleConstants DEF BundleSafe, BundleTypeOK, ProcessSavedExports
    <2>2. QED
      BY <1>2, <1>11, <2>1 DEF BundleSafe, BundleTypeOK
  <1>13. QED
    BY <1>8, <1>9, <1>10, <1>12 DEF BundleSafe

LEMMA TemporaryOpened ==
  ASSUME BundleSafe, NEW w \in Processors, OpenTemporary(w)
  PROVE  BundleSafe'
  <1>1. PICK r : r = processing[w]
    OBVIOUS
  <1>2. PICK f : f = r.next
    OBVIOUS
  <1>3. /\ BundleTypeOK /\ ProcessingHolds(w) /\ AloneHolds(w) /\ r # None /\ r.at = "open"
        /\ r \in Processings /\ f \in BundleFiles /\ Running(w)
    BY <1>1, <1>2, ProcessingTypes DEF BundleSafe, OpenTemporary, RunAt, Running
  <1>4. PICK n : n = [r EXCEPT !.at = "write", !.holds = "temporary"]
    OBVIOUS
  <1>5. /\ n \in Processings /\ n.export = r.export /\ n.next = r.next /\ n.alone = r.alone
        /\ n.steady = r.steady /\ n.at = "write" /\ n.holds = "temporary"
    BY <1>3, <1>4 DEF Processings
  <1>6. /\ processing' = [processing EXCEPT ![w] = n] /\ temps' = [temps EXCEPT ![f] = "empty"]
        /\ UNCHANGED <<bundle, bundlesBegun>>
    BY <1>1, <1>2, <1>4 DEF OpenTemporary, FileOf
  <1>7. /\ processing' \in [Processors -> Processings \cup {None}] /\ processing'[w] = n
        /\ \A v \in Processors \ {w} : processing'[v] = processing[v]
    BY <1>3, <1>5, <1>6 DEF BundleTypeOK
  <1>8. bundle' \in [BundleFiles -> AllBytes] /\ temps' \in [BundleFiles -> AllBytes] /\ temps'[f] = "empty"
    <2>1. "empty" \in AllBytes
      BY DEF AllBytes
    <2>2. QED
      BY <1>3, <1>6, <2>1 DEF BundleTypeOK
  <1>9. \A v \in Processors \ {w} : Untroubled(v)
    BY <1>6, <1>7 DEF Untroubled
  <1>10. ProcessingHolds(w)' /\ NeverFails(w)'
    BY <1>1, <1>3, <1>5, <1>7 DEF ProcessingHolds, NeverFails, RunAt
  <1>11. AloneHolds(w)'
    <2>1. \A v \in Processors \ {w} : Running(v)' <=> Running(v)
      BY <1>7 DEF Running
    <2>2. QED
      BY <1>1, <1>2, <1>3, <1>5, <1>6, <1>7, <1>8, <2>1 DEF AloneHolds, Right
  <1>12. QED
    BY <1>3, <1>6, <1>7, <1>8, <1>9, <1>10, <1>11, RunStep

LEMMA TemporaryWritten ==
  ASSUME BundleSafe, NEW w \in Processors, WriteTemporary(w)
  PROVE  BundleSafe'
  <1>1. PICK r : r = processing[w]
    OBVIOUS
  <1>2. PICK f : f = r.next
    OBVIOUS
  <1>3. /\ BundleTypeOK /\ ProcessingHolds(w) /\ AloneHolds(w) /\ r # None /\ r.at = "write"
        /\ r \in Processings /\ f \in BundleFiles /\ Running(w)
        /\ r.holds \in {"temporary", "final", "neither"} /\ r.export \in Exports
    BY <1>1, <1>2, ProcessingTypes DEF BundleSafe, WriteTemporary, RunAt, Running
  <1>4. PICK new : new = Bytes(r.export, f)
    OBVIOUS
  <1>5. new \in AllBytes
    BY <1>1, <1>3, <1>4, BytesTyped DEF ProcessingHolds
  <1>6. PICK n : n = [r EXCEPT !.at = "replace"]
    OBVIOUS
  <1>7. /\ n \in Processings /\ n.export = r.export /\ n.next = r.next /\ n.alone = r.alone
        /\ n.steady = r.steady /\ n.at = "replace"
    BY <1>3, <1>6 DEF Processings
  <1>8. PICK onward : onward = [processing EXCEPT ![w] = n]
    OBVIOUS
  <1>9. /\ onward \in [Processors -> Processings \cup {None}] /\ onward[w] = n
        /\ \A v \in Processors \ {w} : onward[v] = processing[v]
    BY <1>3, <1>7, <1>8 DEF BundleTypeOK
  <1>10. \A b \in WrittenOver(temps[f], new) \cup WrittenOver(bundle[f], new) : b \in AllBytes
    <2>1. "torn" \in AllBytes
      BY DEF AllBytes
    <2>2. QED
      BY <1>5, <2>1 DEF WrittenOver
  <1>11. \/ /\ r.holds = "temporary" /\ processing' = onward /\ UNCHANGED bundle
            /\ \E b \in WrittenOver(temps[f], new) : temps' = [temps EXCEPT ![f] = b]
         \/ /\ r.holds = "final" /\ processing' = Disturbed(w, onward) /\ UNCHANGED temps
            /\ \E b \in WrittenOver(bundle[f], new) : bundle' = [bundle EXCEPT ![f] = b]
         \/ /\ r.holds = "neither" /\ processing' = onward /\ UNCHANGED <<bundle, temps>>
    <2>1. onward = [processing EXCEPT ![w].at = "replace"]
      BY <1>1, <1>6, <1>8
    <2>2. CASE r.holds = "temporary"
      BY <1>1, <1>2, <1>4, <2>1, <2>2 DEF WriteTemporary, FileOf
    <2>3. CASE r.holds = "final"
      BY <1>1, <1>2, <1>4, <2>1, <2>3 DEF WriteTemporary, FileOf
    <2>4. CASE r.holds = "neither"
      BY <1>1, <1>2, <1>4, <2>1, <2>4 DEF WriteTemporary, FileOf
    <2>5. QED
      BY <1>3, <2>2, <2>3, <2>4
  <1>12. UNCHANGED bundlesBegun
    BY DEF WriteTemporary
  <1>13. bundle' \in [BundleFiles -> AllBytes] /\ temps' \in [BundleFiles -> AllBytes]
    BY <1>3, <1>10, <1>11 DEF BundleTypeOK
  <1>14. CASE processing' = onward /\ UNCHANGED bundle
    <2>1. \A v \in Processors \ {w} : Untroubled(v)
      BY <1>9, <1>14 DEF Untroubled
    <2>2. ProcessingHolds(w)' /\ NeverFails(w)'
      BY <1>1, <1>3, <1>7, <1>9, <1>14 DEF ProcessingHolds, NeverFails, RunAt
    <2>3. AloneHolds(w)'
      <3>1. SUFFICES ASSUME r.alone PROVE AloneHolds(w)'
        BY <1>7, <1>9, <1>14 DEF AloneHolds
      <3>2. r.holds = "temporary" /\ temps[f] = "empty"
        BY <1>1, <1>2, <1>3, <3>1 DEF AloneHolds
      <3>3. temps'[f] = new
        BY <1>3, <1>11, <3>2 DEF WrittenOver, BundleTypeOK
      <3>4. \A v \in Processors \ {w} : Running(v)' <=> Running(v)
        BY <1>9, <1>14 DEF Running
      <3>5. QED
        BY <1>1, <1>2, <1>3, <1>4, <1>7, <1>9, <1>14, <3>1, <3>3, <3>4 DEF AloneHolds, Right
    <2>4. QED
      BY <1>3, <1>9, <1>12, <1>13, <1>14, <2>1, <2>2, <2>3, RunStep
  <1>15. CASE processing' = Disturbed(w, onward) /\ r.holds = "final"
    <2>1. /\ processing'[w] = n
          /\ \A v \in Processors \ {w} :
               processing'[v] = IF processing[v] # None THEN [processing[v] EXCEPT !.steady = FALSE]
                                ELSE processing[v]
      BY <1>9, <1>15 DEF Disturbed
    <2>2. ASSUME NEW v \in Processors \ {w}
          PROVE  processing'[v] \in Processings \cup {None} /\ Untroubled(v)
      <3>1. CASE processing[v] = None
        BY <2>1, <3>1 DEF Untroubled
      <3>2. CASE processing[v] # None
        <4>1. processing[v] \in Processings
          BY <1>3, <3>2, ProcessingTypes
        <4>2. processing'[v] = [processing[v] EXCEPT !.steady = FALSE]
          BY <2>1, <3>2
        <4>3. /\ processing'[v] \in Processings /\ ~processing'[v].steady
              /\ processing'[v].export = processing[v].export /\ processing'[v].at = processing[v].at
              /\ processing'[v].next = processing[v].next /\ processing'[v].alone = processing[v].alone
          BY <4>1, <4>2 DEF Processings
        <4>4. QED
          BY <3>2, <4>3, AbsentProcessing DEF Untroubled
      <3>3. QED
        BY <3>1, <3>2
    <2>3. processing' \in [Processors -> Processings \cup {None}]
      BY <1>7, <1>15, <2>1, <2>2 DEF Disturbed
    <2>4. ProcessingHolds(w)' /\ NeverFails(w)'
      BY <1>1, <1>3, <1>7, <2>1 DEF ProcessingHolds, NeverFails, RunAt
    <2>5. AloneHolds(w)'
      BY <1>1, <1>3, <1>7, <1>15, <2>1 DEF AloneHolds
    <2>6. QED
      BY <1>3, <1>12, <1>13, <2>2, <2>3, <2>4, <2>5, RunStep
  <1>16. QED
    BY <1>11, <1>14, <1>15

\* The run alone: its next file is found right, and what is written before the one after
\* it is right with it.
LEMMA AloneReplaces ==
  ASSUME BundleSafe, NEW w \in Processors, RunAt(w, "replace"), processing[w].alone,
         NEW f, f = processing[w].next,
         bundle' = [bundle EXCEPT ![f] = temps[f]]
  PROVE  /\ temps[f] # "absent"
         /\ \A g : IsNext(g, f, Written) =>
              \A h \in BundleFiles : Written[h] < Written[g] =>
                bundle'[h] = Bytes(processing[w].export, h)
         /\ IsLast(f, Written) =>
              \A h \in BundleFiles : bundle'[h] = Bytes(processing[w].export, h)
  <1>1. PICK r : r = processing[w]
    OBVIOUS
  <1>2. /\ BundleTypeOK /\ ProcessingHolds(w) /\ AloneHolds(w) /\ r # None /\ r.at = "replace"
        /\ f \in BundleFiles /\ Running(w) /\ r.export \in Exports
    BY <1>1, ProcessingTypes DEF BundleSafe, RunAt, Running
  <1>3. /\ temps[f] = Bytes(r.export, f)
        /\ \A h \in BundleFiles : Written[h] < Written[f] => bundle[h] = Bytes(r.export, h)
    BY <1>1, <1>2 DEF AloneHolds, Right
  <1>4. bundle'[f] = temps[f] /\ \A h \in BundleFiles \ {f} : bundle'[h] = bundle[h]
    BY <1>2 DEF BundleTypeOK
  <1>5. temps[f] # "absent"
    BY <1>1, <1>2, <1>3, BytesTyped DEF ProcessingHolds
  <1>6. \A h \in BundleFiles : h = f \/ Written[h] < Written[f] => bundle'[h] = Bytes(r.export, h)
    BY <1>3, <1>4
  <1>7. Written \in [BundleFiles -> Nat] /\ \A x, y \in BundleFiles : Written[x] = Written[y] => x = y
    BY OrdersAreStrict
  <1>8. \A g : IsNext(g, f, Written) =>
          \A h \in BundleFiles : Written[h] < Written[g] => h = f \/ Written[h] < Written[f]
    BY <1>2, <1>7, OrderSteps
  <1>9. IsLast(f, Written) => \A h \in BundleFiles : h = f \/ Written[h] < Written[f]
    BY <1>2, <1>7, OrderSteps
  <1>10. QED
    BY <1>1, <1>5, <1>6, <1>8, <1>9

LEMMA FileReplaced ==
  ASSUME BundleSafe, NEW w \in Processors, ReplaceFile(w), temps[processing[w].next] # "absent"
  PROVE  BundleSafe'
  <1>1. PICK r : r = processing[w]
    OBVIOUS
  <1>2. PICK f : f = r.next
    OBVIOUS
  <1>3. /\ BundleTypeOK /\ ProcessingHolds(w) /\ AloneHolds(w) /\ r # None /\ r.at = "replace"
        /\ r \in Processings /\ f \in BundleFiles /\ Running(w) /\ RunAt(w, "replace")
    BY <1>1, <1>2, ProcessingTypes DEF BundleSafe, ReplaceFile, RunAt, Running
  <1>4. PICK last \in BOOLEAN : last = IsLast(f, Written)
    BY DEF IsLast
  <1>5. PICK g \in BundleFiles :
          /\ IF last THEN IsFirst(g, Verified) ELSE IsNext(g, f, Written)
          /\ processing' = [Disturbed(w, Moved(w)) EXCEPT
               ![w].at = IF last THEN "verify" ELSE "open",
               ![w].next = g,
               ![w].steady = last]
    BY <1>1, <1>2, <1>4 DEF ReplaceFile, FileOf
  <1>6. /\ bundle' = [bundle EXCEPT ![f] = temps[f]] /\ temps' = [temps EXCEPT ![f] = "absent"]
        /\ UNCHANGED bundlesBegun
    BY <1>1, <1>2 DEF ReplaceFile, FileOf, Replaced
  <1>7. bundle' \in [BundleFiles -> AllBytes] /\ temps' \in [BundleFiles -> AllBytes]
    <2>1. "absent" \in AllBytes
      BY DEF AllBytes
    <2>2. QED
      BY <1>3, <1>6, <2>1 DEF BundleTypeOK
  <1>8. PICK at \in {"verify", "open"} : at = IF last THEN "verify" ELSE "open"
    OBVIOUS
  <1>9. PICK n : n = [r EXCEPT !.at = at, !.next = g, !.steady = last]
    OBVIOUS
  <1>10. /\ n \in Processings /\ n.export = r.export /\ n.next = g /\ n.alone = r.alone
         /\ n.at = at /\ n.steady = last
    BY <1>3, <1>9 DEF Processings
  <1>11. \A v \in Processors : Disturbed(w, Moved(w))[v] =
           IF v # w /\ Moved(w)[v] # None THEN [Moved(w)[v] EXCEPT !.steady = FALSE] ELSE Moved(w)[v]
    BY DEF Disturbed
  <1>12. \A v \in Processors : Moved(w)[v] =
           IF v # w /\ RunAt(v, "write") /\ SameFile(v, w)
           THEN [processing[v] EXCEPT !.holds = IF @ = "temporary" THEN "final" ELSE "neither"]
           ELSE processing[v]
    BY DEF Moved
  <1>13. DOMAIN Disturbed(w, Moved(w)) = Processors
    BY DEF Disturbed
  <1>14. Disturbed(w, Moved(w))[w] = r
    BY <1>1, <1>11, <1>12
  <1>15. processing' = [Disturbed(w, Moved(w)) EXCEPT ![w] = n]
    BY <1>5, <1>8, <1>9, <1>14
  <1>16. /\ processing'[w] = n
         /\ \A v \in Processors \ {w} : processing'[v] = Disturbed(w, Moved(w))[v]
    BY <1>13, <1>15
  <1>17. ASSUME NEW v \in Processors \ {w}
         PROVE  processing'[v] \in Processings \cup {None} /\ Untroubled(v)
    <2>1. PICK old : old = processing[v]
      OBVIOUS
    <2>2. CASE old = None
      <3>1. Moved(w)[v] = None
        BY <1>12, <2>1, <2>2 DEF RunAt
      <3>2. processing'[v] = None
        BY <1>11, <1>16, <3>1
      <3>3. QED
        BY <2>1, <2>2, <3>2 DEF Untroubled
    <2>3. CASE old # None
      <3>1. old \in Processings
        BY <1>3, <2>1, <2>3, ProcessingTypes
      <3>2. PICK moved : moved = Moved(w)[v]
        OBVIOUS
      <3>3. moved = old \/ \E holds \in {"final", "neither"} : moved = [old EXCEPT !.holds = holds]
        <4>1. CASE RunAt(v, "write") /\ SameFile(v, w)
          <5>1. moved = [old EXCEPT !.holds = IF old.holds = "temporary" THEN "final" ELSE "neither"]
            BY <1>12, <2>1, <3>2, <4>1
          <5>2. QED
            BY <5>1
        <4>2. CASE ~(RunAt(v, "write") /\ SameFile(v, w))
          BY <1>12, <2>1, <3>2, <4>2
        <4>3. QED
          BY <4>1, <4>2
      <3>4. /\ moved \in Processings /\ moved.export = old.export /\ moved.at = old.at
            /\ moved.next = old.next /\ moved.alone = old.alone
        BY <3>1, <3>3 DEF Processings
      <3>5. processing'[v] = [moved EXCEPT !.steady = FALSE]
        BY <1>11, <1>16, <3>2, <3>4, AbsentProcessing
      <3>6. /\ processing'[v] \in Processings /\ ~processing'[v].steady
            /\ processing'[v].export = moved.export /\ processing'[v].at = moved.at
            /\ processing'[v].next = moved.next /\ processing'[v].alone = moved.alone
        BY <3>4, <3>5 DEF Processings
      <3>7. QED
        BY <2>1, <2>3, <3>4, <3>6, AbsentProcessing DEF Untroubled
    <2>4. QED
      BY <2>2, <2>3
  <1>18. processing' \in [Processors -> Processings \cup {None}]
    <2>1. DOMAIN processing' = Processors
      BY <1>13, <1>15
    <2>2. \A v \in Processors : processing'[v] \in Processings \cup {None}
      BY <1>10, <1>16, <1>17
    <2>3. \E D, values : processing' = [v \in D |-> values[v]]
      BY <1>15
    <2>4. QED
      BY <2>1, <2>2, <2>3
  <1>19. last => /\ g \in BundleFiles \ {Report}
                 /\ \A h \in BundleFiles \ {Report} : ~(Verified[h] < Verified[g])
    <2>1. DOMAIN Verified = BundleFiles \ {Report}
      BY OrdersAreStrict
    <2>2. Verified \in [BundleFiles \ {Report} -> Nat]
      BY OrdersAreStrict
    <2>3. QED
      BY <1>5, <2>1, <2>2 DEF IsFirst
  <1>20. ProcessingHolds(w)' /\ NeverFails(w)'
    BY <1>1, <1>3, <1>8, <1>10, <1>16, <1>19 DEF ProcessingHolds, NeverFails, RunAt
  <1>21. AloneHolds(w)'
    <2>1. SUFFICES ASSUME r.alone PROVE AloneHolds(w)'
      BY <1>10, <1>16 DEF AloneHolds
    <2>2. /\ ~last => \A h \in BundleFiles : Written[h] < Written[g] => bundle'[h] = Bytes(r.export, h)
          /\ last => \A h \in BundleFiles : bundle'[h] = Bytes(r.export, h)
      BY <1>1, <1>2, <1>3, <1>4, <1>5, <1>6, <2>1, AloneReplaces
    <2>3. \A v \in Processors \ {w} : ~Running(v)
      BY <1>1, <1>3, <2>1 DEF AloneHolds
    <2>4. \A v \in Processors \ {w} : ~Running(v)'
      BY <1>17, <2>3 DEF Running, Untroubled
    <2>5. QED
      BY <1>8, <1>10, <1>16, <2>2, <2>4 DEF AloneHolds, Right
  <1>22. QED
    BY <1>3, <1>6, <1>7, <1>17, <1>18, <1>20, <1>21, RunStep

\* The run is at an end that it has not reached before.
LEMMA RunSettles ==
  ASSUME BundleSafe, NEW w \in Processors, Running(w), UNCHANGED <<bundle, temps, bundlesBegun>>,
         NEW n \in Processings, n = [processing[w] EXCEPT !.at = n.at],
         processing' = [processing EXCEPT ![w] = n],
         \/ n.at = "failed" /\ ~processing[w].alone
         \/ n.at = "done" /\ (processing[w].steady =>
              \A f \in BundleFiles \ {Report} : Right(f, w))
  PROVE  BundleSafe'
  <1>1. PICK r : r = processing[w]
    OBVIOUS
  <1>2. BundleTypeOK /\ ProcessingHolds(w) /\ r # None /\ r \in Processings
    BY <1>1, ProcessingTypes DEF BundleSafe, Running
  <1>3. n # None /\ n.export = r.export /\ n.alone = r.alone /\ n.steady = r.steady
    BY <1>1, <1>2, AbsentProcessing DEF Processings
  <1>4. /\ processing' \in [Processors -> Processings \cup {None}] /\ processing'[w] = n
        /\ \A v \in Processors \ {w} : processing'[v] = processing[v]
    BY <1>2 DEF BundleTypeOK
  <1>5. \A v \in Processors \ {w} : Untroubled(v)
    BY <1>4 DEF Untroubled
  <1>6. ProcessingHolds(w)' /\ AloneHolds(w)' /\ NeverFails(w)'
    BY <1>1, <1>2, <1>3, <1>4 DEF ProcessingHolds, AloneHolds, NeverFails, RunAt, Running, Right
  <1>7. bundle' \in [BundleFiles -> AllBytes] /\ temps' \in [BundleFiles -> AllBytes]
    BY <1>2 DEF BundleTypeOK
  <1>8. QED
    BY <1>4, <1>5, <1>6, <1>7, RunStep

LEMMA ReplaceFails ==
  ASSUME BundleSafe, NEW w \in Processors, ReplaceFile(w), temps[processing[w].next] = "absent"
  PROVE  BundleSafe'
  <1>1. PICK r : r = processing[w]
    OBVIOUS
  <1>2. /\ BundleTypeOK /\ ProcessingHolds(w) /\ AloneHolds(w) /\ r # None /\ r.at = "replace"
        /\ r \in Processings /\ r.next \in BundleFiles /\ Running(w) /\ r.export \in Exports
    BY <1>1, ProcessingTypes DEF BundleSafe, ReplaceFile, RunAt, Running
  <1>3. ~r.alone
    BY <1>1, <1>2, BytesTyped DEF AloneHolds, ProcessingHolds
  <1>4. PICK n : n = [r EXCEPT !.at = "failed"]
    OBVIOUS
  <1>5. n \in Processings /\ n.at = "failed"
    BY <1>2, <1>4 DEF Processings
  <1>6. processing' = [processing EXCEPT ![w] = n] /\ UNCHANGED <<bundle, temps, bundlesBegun>>
    BY <1>1, <1>4 DEF ReplaceFile, FileOf
  <1>7. QED
    BY <1>1, <1>2, <1>3, <1>4, <1>5, <1>6, RunSettles

LEMMA FileVerified ==
  ASSUME BundleSafe, NEW w \in Processors, VerifyFile(w)
  PROVE  BundleSafe'
  <1>1. PICK r : r = processing[w]
    OBVIOUS
  <1>2. PICK f : f = r.next
    OBVIOUS
  <1>3. /\ BundleTypeOK /\ ProcessingHolds(w) /\ AloneHolds(w) /\ r # None /\ r.at = "verify"
        /\ r \in Processings /\ Running(w) /\ f \in BundleFiles \ {Report}
        /\ r.steady => \A h \in BundleFiles \ {Report} : Verified[h] < Verified[f] => Right(h, w)
        /\ r.alone => \A h \in BundleFiles : Right(h, w)
    BY <1>1, <1>2, ProcessingTypes DEF BundleSafe, VerifyFile, RunAt, Running, ProcessingHolds, AloneHolds
  <1>4. UNCHANGED <<bundle, temps, bundlesBegun>>
    BY DEF VerifyFile
  <1>5. /\ Verified \in [BundleFiles \ {Report} -> Nat]
        /\ \A x, y \in BundleFiles \ {Report} : Verified[x] = Verified[y] => x = y
    BY OrdersAreStrict
  <1>6. CASE ~Right(f, w) /\ processing' = [processing EXCEPT ![w].at = "failed"]
    <2>1. ~r.alone
      BY <1>3, <1>6
    <2>2. PICK n : n = [r EXCEPT !.at = "failed"]
      OBVIOUS
    <2>3. n \in Processings /\ n.at = "failed" /\ processing' = [processing EXCEPT ![w] = n]
      BY <1>1, <1>3, <1>6, <2>2 DEF Processings
    <2>4. QED
      BY <1>1, <1>3, <1>4, <2>1, <2>2, <2>3, RunSettles
  <1>7. CASE Right(f, w) /\ IsLast(f, Verified) /\ processing' = [processing EXCEPT ![w].at = "done"]
    <2>1. \A h \in BundleFiles \ {Report} : h = f \/ Verified[h] < Verified[f]
      BY <1>3, <1>5, <1>7, OrderSteps
    <2>2. r.steady => \A h \in BundleFiles \ {Report} : Right(h, w)
      BY <1>3, <1>7, <2>1
    <2>3. PICK n : n = [r EXCEPT !.at = "done"]
      OBVIOUS
    <2>4. n \in Processings /\ n.at = "done" /\ processing' = [processing EXCEPT ![w] = n]
      BY <1>1, <1>3, <1>7, <2>3 DEF Processings
    <2>5. QED
      BY <1>1, <1>3, <1>4, <2>2, <2>3, <2>4, RunSettles
  <1>8. ASSUME Right(f, w),
               \E g \in BundleFiles :
                 IsNext(g, f, Verified) /\ processing' = [processing EXCEPT ![w].next = g]
        PROVE  BundleSafe'
    <2>1. PICK g \in BundleFiles :
            IsNext(g, f, Verified) /\ processing' = [processing EXCEPT ![w].next = g]
      BY <1>8
    <2>2. g \in BundleFiles \ {Report}
      BY <1>5, <2>1 DEF IsNext
    <2>3. \A h \in BundleFiles \ {Report} : Verified[h] < Verified[g] => h = f \/ Verified[h] < Verified[f]
      BY <1>3, <1>5, <2>1, OrderSteps
    <2>4. r.steady => \A h \in BundleFiles \ {Report} : Verified[h] < Verified[g] => Right(h, w)
      BY <1>3, <1>8, <2>3
    <2>5. PICK n : n = [r EXCEPT !.next = g]
      OBVIOUS
    <2>6. /\ n \in Processings /\ n.at = "verify" /\ n.export = r.export /\ n.next = g
          /\ n.alone = r.alone /\ n.steady = r.steady /\ processing' = [processing EXCEPT ![w] = n]
      BY <1>1, <1>3, <2>1, <2>5 DEF Processings
    <2>7. /\ processing' \in [Processors -> Processings \cup {None}] /\ processing'[w] = n
          /\ \A v \in Processors \ {w} : processing'[v] = processing[v]
      BY <1>3, <2>6 DEF BundleTypeOK
    <2>8. \A v \in Processors \ {w} : Untroubled(v)
      BY <1>4, <2>7 DEF Untroubled
    <2>9. \A h : Right(h, w)' <=> Right(h, w)
      BY <1>1, <1>4, <2>6, <2>7 DEF Right
    <2>10. ProcessingHolds(w)' /\ NeverFails(w)'
      BY <1>1, <1>3, <2>2, <2>4, <2>6, <2>7, <2>9 DEF ProcessingHolds, NeverFails, RunAt
    <2>11. \A v \in Processors \ {w} : Running(v)' <=> Running(v)
      BY <2>7 DEF Running
    <2>12. AloneHolds(w)'
      BY <1>1, <1>3, <2>6, <2>7, <2>9, <2>11 DEF AloneHolds
    <2>13. bundle' \in [BundleFiles -> AllBytes] /\ temps' \in [BundleFiles -> AllBytes]
      BY <1>3, <1>4 DEF BundleTypeOK
    <2>14. QED
      BY <1>3, <1>4, <2>7, <2>8, <2>10, <2>12, <2>13, RunStep
  <1>9. QED
    BY <1>1, <1>2, <1>6, <1>7, <1>8 DEF VerifyFile, FileOf, Right

LEMMA RunIsOver ==
  ASSUME BundleSafe, NEW w \in Processors, EndRun(w)
  PROVE  BundleSafe'
  <1>1. /\ processing' = [processing EXCEPT ![w] = None] /\ UNCHANGED <<bundle, temps, bundlesBegun>>
        /\ BundleTypeOK
    BY DEF EndRun, BundleSafe
  <1>2. /\ processing' \in [Processors -> Processings \cup {None}] /\ processing'[w] = None
        /\ \A v \in Processors \ {w} : processing'[v] = processing[v]
    BY <1>1 DEF BundleTypeOK
  <1>3. ASSUME NEW v \in Processors \ {w}
        PROVE  ProcessingHolds(v)' /\ AloneHolds(v)' /\ NeverFails(v)'
    <2>1. ProcessingHolds(v) /\ AloneHolds(v) /\ NeverFails(v)
      BY DEF BundleSafe
    <2>2. processing'[v] = processing[v]
      BY <1>2
    <2>3. ProcessingHolds(v)' /\ NeverFails(v)'
      BY <1>1, <2>1, <2>2 DEF ProcessingHolds, NeverFails, RunAt, Right
    <2>4. \A u \in Processors : Running(u)' => Running(u)
      BY <1>2 DEF Running
    <2>5. AloneHolds(v)'
      BY <1>1, <2>1, <2>2, <2>4 DEF AloneHolds, Running, Right
    <2>6. QED
      BY <2>3, <2>5
  <1>4. ProcessingHolds(w)' /\ AloneHolds(w)' /\ NeverFails(w)'
    BY <1>2 DEF ProcessingHolds, AloneHolds, NeverFails, RunAt, Running
  <1>5. BundleTypeOK'
    BY <1>1, <1>2 DEF BundleTypeOK
  <1>6. QED
    BY <1>3, <1>4, <1>5 DEF BundleSafe

LEMMA BundleInitHolds == BundleInit => BundleSafe
  <1> SUFFICES ASSUME BundleInit PROVE BundleSafe
    OBVIOUS
  <1>1. PICK e \in {x \in Exports : Selects(x)}, last \in BundleFiles,
             at \in {"before", "opened", "written"} :
          /\ bundle = [f \in BundleFiles |->
               IF Written[f] < Written[last] \/ (f = last /\ at = "written")
               THEN Bytes(e, f) ELSE "absent"]
          /\ temps = [f \in BundleFiles |->
               IF f = last /\ at = "opened" THEN "empty" ELSE "absent"]
    BY DEF BundleInit
  <1>2. "absent" \in AllBytes /\ "empty" \in AllBytes
    BY DEF AllBytes
  <1>3. \A f \in BundleFiles : Bytes(e, f) \in AllBytes
    BY <1>1, BytesTyped
  <1>4. bundle \in [BundleFiles -> AllBytes] /\ temps \in [BundleFiles -> AllBytes]
    BY <1>1, <1>2, <1>3
  <1>5. processing = [w \in Processors |-> None] /\ bundlesBegun = 0
    BY DEF BundleInit
  <1>6. BundleTypeOK
    BY <1>4, <1>5, BundleConstants DEF BundleTypeOK
  <1>7. \A w \in Processors : ProcessingHolds(w) /\ AloneHolds(w) /\ NeverFails(w)
    BY <1>5 DEF ProcessingHolds, AloneHolds, NeverFails, RunAt, Running
  <1>8. QED
    BY <1>6, <1>7 DEF BundleSafe

LEMMA BundleNextHolds == BundleSafe /\ [BundleNext]_bundleVars => BundleSafe'
  <1> SUFFICES ASSUME BundleSafe, [BundleNext]_bundleVars PROVE BundleSafe'
    OBVIOUS
  <1>1. CASE BundleNext
    BY <1>1, RunBegins, TemporaryOpened, TemporaryWritten, FileReplaced, ReplaceFails,
       FileVerified, RunIsOver DEF BundleNext
  <1>2. CASE UNCHANGED bundleVars
    <2>1. UNCHANGED <<bundle, temps, processing, bundlesBegun>>
      BY <1>2 DEF bundleVars
    <2>2. BundleTypeOK'
      BY <2>1 DEF BundleSafe, BundleTypeOK
    <2>3. \A w \in Processors : ProcessingHolds(w)' /\ AloneHolds(w)' /\ NeverFails(w)'
      BY <2>1 DEF BundleSafe, ProcessingHolds, AloneHolds, NeverFails, RunAt, Running, Right
    <2>4. QED
      BY <2>2, <2>3 DEF BundleSafe
  <1>3. QED
    BY <1>1, <1>2

LEMMA BundleSafety == BundleSpec => []BundleSafe
  BY BundleInitHolds, BundleNextHolds, PTL DEF BundleSpec

\* Every reachable state of the directory, its temporaries and the runs over them has
\* the declared types.
THEOREM BundlesAreTyped == BundleSpec => []BundleTypeOK
  <1>1. BundleSafe => BundleTypeOK
    BY DEF BundleSafe
  <1>2. QED
    BY <1>1, BundleSafety, PTL

\* What a run reports is true of the directory: for any locked set and exports, and
\* however many runs share the directory and its temporaries, a run with no other beside
\* it never fails, and one that succeeds undisturbed since it reads again leaves every
\* file that its results commit to as its export has it.
THEOREM OutcomesAreSound == BundleSpec => []OutcomesAreTrue
  <1>1. BundleSafe => OutcomesAreTrue
    BY DEF BundleSafe, OutcomesAreTrue, NeverFails, ProcessingHolds, Right, RunAt
  <1>2. QED
    BY <1>1, BundleSafety, PTL
=============================================================================
