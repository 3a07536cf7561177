------------------------ MODULE BootstrapRunner_proofs ------------------------
(***************************************************************************)
(* Machine-checked facts about the prepared inputs of BootstrapRunner, its *)
(* types, and the agreement of a candidate's files with each other and     *)
(* with what a run reports, for any ledgers, audits, directories,          *)
(* candidates, proposals, threads and number of runs.                      *)
(***************************************************************************)
EXTENDS BootstrapRunner, FiniteSetTheorems, TLAPS

\* What the command that prepares batches has done: the files before the one at hand are
\* those of its ledger and audit, and it got past the first because both are sound.
WritesInOrder ==
  preparing # None /\ preparing.file > 1 =>
    /\ preparing.todo # <<>> /\ BatchSound(Ledger, Audit)
    /\ \A i \in 1..(preparing.file - 1) :
         inputs[Ledger][InputFiles[i]] = InputBytes(Ledger, Audit, InputFiles[i])

\* The inductive invariant.
Written == InputTypeOK /\ WritesInOrder /\ PreparedInputsVerify

\* A batch at hand is of a ledger and an audit.
LEMMA BatchAtHand ==
  ASSUME InputTypeOK, AtHand
  PROVE  /\ preparing \in Preparations
         /\ Ledger \in Ledgers /\ Audit \in Audits
         /\ File \in FileNames /\ preparing.file \in 1..4
  <1>1. preparing \in Preparations
    BY DEF InputTypeOK, AtHand
  <1>2. preparing.file \in 1..4 /\ File \in FileNames
    BY <1>1 DEF Preparations, File, InputFiles, FileNames
  <1>3. preparing.todo \in Seq(Ledgers \X Audits) /\ preparing.todo # <<>>
    BY <1>1 DEF Preparations, AtHand
  <1>4. preparing.todo[1] \in Ledgers \X Audits
    BY <1>3
  <1>5. QED
    BY <1>1, <1>2, <1>4 DEF Ledger, Audit

\* Of a file that is there nothing is another audit's, and no bytes stand for no file.
LEMMA BytesAreSomething ==
  ASSUME NEW l \in Ledgers, NEW a \in Audits, NEW f \in FileNames
  PROVE  InputBytes(l, a, f) \in Ledgers \cup Audits /\ InputBytes(l, a, f) \notin {None, Torn}
  BY InputAssumptions DEF InputBytes

LEMMA InputInitOK == ASSUME InputInit PROVE Written
  <1>1. InputTypeOK
    BY DEF InputInit, InputTypeOK
  <1>2. PreparedInputsVerify
    BY InputAssumptions DEF InputInit, PreparedInputsVerify, FileNames
  <1>3. QED
    BY <1>1, <1>2 DEF InputInit, Written, WritesInOrder

\* A file that is created where none was, in a batch whose manifest was not there yet or
\* is what is created, leaves every committed batch as it was.
LEMMA FileCreated ==
  ASSUME InputTypeOK, PreparedInputsVerify, NEW l \in Ledgers, NEW f \in FileNames,
         NEW bytes \in {Torn} \cup Ledgers \cup Audits, inputs[l][f] = None,
         inputs' = [inputs EXCEPT ![l][f] = bytes], f = "manifest" => bytes \notin Audits
  PROVE  PreparedInputsVerify'
  <1> SUFFICES ASSUME NEW k \in Ledgers, inputs'[k]["manifest"] \in Audits
               PROVE  Verifies(k)' /\ BatchSound(k, inputs'[k]["manifest"])
    BY DEF PreparedInputsVerify
  <1>1. inputs'[k]["manifest"] = inputs[k]["manifest"]
    BY DEF InputTypeOK, FileNames
  <1>2. Verifies(k) /\ BatchSound(k, inputs[k]["manifest"])
    BY <1>1 DEF PreparedInputsVerify
  <1>3. k # l
    BY <1>1, <1>2, BytesAreSomething DEF Verifies
  <1>4. inputs'[k] = inputs[k]
    BY <1>3 DEF InputTypeOK
  <1>5. QED
    BY <1>1, <1>2, <1>4 DEF Verifies

LEMMA EndOK == ASSUME Written, EndPreparation PROVE Written'
  <1>1. CASE UNCHANGED inputs
    BY <1>1 DEF Written, EndPreparation, InputTypeOK, WritesInOrder, PreparedInputsVerify, Verifies
  <1>2. CASE AtHand /\ inputs[Ledger][File] = None /\ inputs' = [inputs EXCEPT ![Ledger][File] = Torn]
    <2>1. Ledger \in Ledgers /\ File \in FileNames
      BY <1>2, BatchAtHand DEF Written
    <2>2. PreparedInputsVerify'
      BY <1>2, <2>1, FileCreated, InputAssumptions DEF Written
    <2>3. InputTypeOK'
      BY <1>2, <2>1 DEF Written, InputTypeOK, EndPreparation
    <2>4. QED
      BY <2>2, <2>3 DEF Written, WritesInOrder, EndPreparation
  <1>3. QED
    BY <1>1, <1>2 DEF EndPreparation

\* Nothing of the batches changes, and the command is no further than it was.
LEMMA PreparationLeft ==
  ASSUME Written, UNCHANGED inputs, preparing' = None
  PROVE  Written'
  BY DEF Written, InputTypeOK, WritesInOrder, PreparedInputsVerify, Verifies

LEMMA StartOK ==
  ASSUME Written, NEW u \in PreparedRuns, StartPreparation(u.todo, u.execute)
  PROVE  Written'
  <1>1. u.todo \in Seq(Ledgers \X Audits) /\ u.execute \in BOOLEAN
    BY RunnerAssumptions
  <1>2. preparing' \in Preparations
    BY <1>1 DEF StartPreparation, Preparations, InputFiles
  <1>3. InputTypeOK'
    BY <1>2 DEF Written, InputTypeOK, StartPreparation
  <1>4. WritesInOrder'
    BY DEF StartPreparation, WritesInOrder
  <1>5. PreparedInputsVerify'
    BY DEF Written, StartPreparation, PreparedInputsVerify, Verifies
  <1>6. QED
    BY <1>3, <1>4, <1>5 DEF Written

\* The file at hand is there afterwards, and is what it should be.
LEMMA FileWritten ==
  ASSUME InputTypeOK, WriteImmutable
  PROVE  /\ inputs'[Ledger][File] = InputBytes(Ledger, Audit, File)
         /\ \A l \in Ledgers, f \in FileNames :
              l # Ledger \/ f # File => inputs'[l][f] = inputs[l][f]
         /\ inputs' \in [Ledgers -> [FileNames -> {None, Torn} \cup Ledgers \cup Audits]]
  <1>1. Ledger \in Ledgers /\ Audit \in Audits /\ File \in FileNames
    BY BatchAtHand DEF WriteImmutable
  <1>2. InputBytes(Ledger, Audit, File) \in Ledgers \cup Audits
    BY <1>1, BytesAreSomething
  <1>3. inputs[Ledger][File] \in {None, InputBytes(Ledger, Audit, File)}
    BY DEF WriteImmutable, Conflicts
  <1>4. inputs' = [inputs EXCEPT ![Ledger][File] = InputBytes(Ledger, Audit, File)]
    BY <1>1, <1>3 DEF WriteImmutable, InputTypeOK
  <1>5. QED
    BY <1>1, <1>2, <1>4 DEF InputTypeOK

\* The manifest is written when the three files before it are there.
LEMMA ManifestWritten ==
  ASSUME Written, WriteImmutable, File = "manifest", NEW l \in Ledgers, l = Ledger
  PROVE  Verifies(l)' /\ BatchSound(l, inputs'[l]["manifest"])
  <1>1. Audit \in Audits /\ File \in FileNames /\ preparing.file \in 1..4
    BY BatchAtHand DEF WriteImmutable, Written
  <1>2. preparing.file = 4
    BY <1>1 DEF File, InputFiles
  <1>3. \A f \in FileNames \ {File} : inputs[l][f] = InputBytes(l, Audit, f)
    <2>1. \A i \in 1..3 : inputs[l][InputFiles[i]] = InputBytes(l, Audit, InputFiles[i])
      BY <1>2 DEF WriteImmutable, AtHand, Written, WritesInOrder
    <2>2. QED
      BY <2>1 DEF InputFiles, FileNames
  <1>4. \A f \in FileNames : inputs'[l][f] = InputBytes(l, Audit, f)
    BY <1>1, <1>3, FileWritten DEF Written
  <1>5. inputs'[l]["manifest"] = Audit
    BY <1>4 DEF InputBytes, FileNames
  <1>6. QED
    BY <1>1, <1>4, <1>5 DEF Verifies, WriteImmutable

LEMMA WriteOK == ASSUME Written, WriteImmutable PROVE Written'
  <1>1. /\ preparing \in Preparations
        /\ Ledger \in Ledgers /\ Audit \in Audits /\ File \in FileNames
        /\ preparing.file \in 1..4
    BY BatchAtHand DEF WriteImmutable, Written
  <1>2. preparing' \in Preparations
    <2>1. CASE preparing.file < Len(InputFiles)
      BY <1>1, <2>1 DEF WriteImmutable, Preparations, InputFiles
    <2>2. CASE ~(preparing.file < Len(InputFiles))
      <3>1. Tail(preparing.todo) \in Seq(Ledgers \X Audits)
        BY <1>1 DEF WriteImmutable, AtHand, Preparations
      <3>2. Append(preparing.prepared, Ledger) \in Seq(Ledgers)
        BY <1>1 DEF Preparations
      <3>3. preparing' = [preparing EXCEPT !.file = 1, !.todo = Tail(preparing.todo),
                            !.prepared = Append(preparing.prepared, Ledger)]
        BY <2>2 DEF WriteImmutable
      <3>4. preparing' = [todo |-> Tail(preparing.todo), file |-> 1, execute |-> preparing.execute,
                            prepared |-> Append(preparing.prepared, Ledger)]
        BY <1>1, <3>3 DEF Preparations
      <3>5. 1 \in 1..Len(InputFiles) /\ preparing.execute \in BOOLEAN
        BY <1>1 DEF InputFiles, Preparations
      <3>6. QED
        BY <3>1, <3>2, <3>4, <3>5 DEF Preparations
    <2>3. QED
      BY <2>1, <2>2
  <1>3. InputTypeOK'
    BY <1>2, FileWritten DEF Written, InputTypeOK
  <1>4. WritesInOrder'
    <2>1. CASE preparing.file < Len(InputFiles)
      <3>1. /\ preparing' = [preparing EXCEPT !.file = @ + 1]
            /\ BatchSound(Ledger, Audit) /\ preparing.todo # <<>>
        BY <2>1 DEF WriteImmutable, AtHand
      <3>2. /\ preparing'.file = preparing.file + 1 /\ preparing'.todo = preparing.todo
            /\ Ledger' = Ledger /\ Audit' = Audit
        BY <1>1, <3>1 DEF Preparations, Ledger, Audit
      <3>3. ASSUME NEW i \in 1..preparing.file
            PROVE  inputs'[Ledger][InputFiles[i]] = InputBytes(Ledger, Audit, InputFiles[i])
        <4>1. CASE i = preparing.file
          BY <4>1, FileWritten DEF Written, File
        <4>2. CASE i < preparing.file
          <5>1. inputs[Ledger][InputFiles[i]] = InputBytes(Ledger, Audit, InputFiles[i])
            BY <1>1, <3>3, <4>2 DEF Written, WritesInOrder, WriteImmutable, AtHand
          <5>2. InputFiles[i] # File /\ InputFiles[i] \in FileNames
            BY <1>1, <3>3, <4>2 DEF File, InputFiles, FileNames
          <5>3. QED
            BY <1>1, <5>1, <5>2, FileWritten DEF Written
        <4>3. QED
          BY <1>1, <3>3, <4>1, <4>2
      <3>4. QED
        BY <1>1, <3>1, <3>2, <3>3 DEF WritesInOrder
    <2>2. CASE ~(preparing.file < Len(InputFiles))
      <3>1. preparing'.file = 1
        BY <1>1, <2>2 DEF WriteImmutable, Preparations
      <3>2. QED
        BY <3>1 DEF WritesInOrder
    <2>3. QED
      BY <2>1, <2>2
  <1>5. PreparedInputsVerify'
    <2>1. CASE File = "manifest"
      <3>1. ASSUME NEW l \in Ledgers, inputs'[l]["manifest"] \in Audits
            PROVE  Verifies(l)' /\ BatchSound(l, inputs'[l]["manifest"])
        <4>1. CASE l = Ledger
          BY <2>1, <4>1, ManifestWritten
        <4>2. CASE l # Ledger
          <5>1. \A f \in FileNames : inputs'[l][f] = inputs[l][f]
            BY <4>2, FileWritten DEF Written
          <5>2. QED
            BY <3>1, <5>1 DEF Written, PreparedInputsVerify, Verifies, FileNames
        <4>3. QED
          BY <4>1, <4>2
      <3>2. QED
        BY <3>1 DEF PreparedInputsVerify
    <2>2. CASE File # "manifest" /\ inputs[Ledger][File] = None
      <3>1. inputs' = [inputs EXCEPT ![Ledger][File] = InputBytes(Ledger, Audit, File)]
        BY <1>1, <2>2 DEF WriteImmutable, Written, InputTypeOK
      <3>2. QED
        BY <1>1, <2>2, <3>1, FileCreated, BytesAreSomething DEF Written
    <2>3. CASE inputs[Ledger][File] # None
      <3>1. inputs' = inputs
        BY <1>1, <2>3 DEF WriteImmutable, Written, InputTypeOK
      <3>2. QED
        BY <3>1 DEF Written, PreparedInputsVerify, Verifies
    <2>4. QED
      BY <2>1, <2>2, <2>3
  <1>6. QED
    BY <1>3, <1>4, <1>5 DEF Written

LEMMA Unprepared ==
  ASSUME Written, UNCHANGED inputVars
  PROVE  Written'
  BY DEF Written, inputVars, InputTypeOK, WritesInOrder, PreparedInputsVerify, Verifies, Ledger, Audit

LEMMA RunnerNextOK == ASSUME Written, [RunnerNext]_runnerVars PROVE Written'
  <1>1. ASSUME NEW u \in PreparedRuns, PrepareBatches(u.todo, u.execute) PROVE Written'
    BY <1>1, StartOK DEF PrepareBatches
  <1>2. CASE PreparationStep
    <2>1. CASE RefusePreparation
      BY <2>1, PreparationLeft DEF RefusePreparation
    <2>2. QED
      BY <1>2, <2>1, WriteOK, EndOK DEF PreparationStep
  <1>3. CASE ExecutePrepared
    BY <1>3, PreparationLeft DEF ExecutePrepared
  <1>4. ASSUME NEW c \in Candidates, CandidateStep(c) PROVE Written'
    BY <1>4, Unprepared
       DEF CandidateStep, RecordUnavailable, CacheTorn, ReuseCached, Attempt, ExtractionFails,
           ExtractionSucceeds, WriteArtifact
  <1>5. ASSUME NEW u \in DirectRuns, RunDirectly(u.dirs, u.forced, u.ingest) PROVE Written'
    BY <1>5, Unprepared DEF RunDirectly
  <1>6. CASE WriteRegistry \/ WriteManifest \/ Ingest \/ IngestFails \/ EndRunner \/ KillRunner
    BY <1>6, Unprepared
       DEF WriteRegistry, WriteManifest, Ingest, IngestFails, EndRunner, KillRunner
  <1>7. CASE UNCHANGED runnerVars
    BY <1>7, Unprepared DEF runnerVars
  <1>8. QED
    BY <1>1, <1>2, <1>3, <1>4, <1>5, <1>6, <1>7 DEF RunnerNext

LEMMA WrittenInvariant == RunnerSpec => []Written
  <1>1. RunnerInit => Written
    BY InputInitOK DEF RunnerInit
  <1>2. Written /\ [RunnerNext]_runnerVars => Written'
    BY RunnerNextOK
  <1>3. QED
    BY <1>1, <1>2, PTL DEF RunnerSpec

\* A prepared batch whose manifest is there verifies against one sound audit, whatever
\* kills, other audits and runs its preparation met (_write_immutable).
THEOREM PreparedBatchesVerify == RunnerSpec => []PreparedInputsVerify
  <1>1. Written => PreparedInputsVerify
    BY DEF Written
  <1>2. QED
    BY <1>1, WrittenInvariant, PTL

-----------------------------------------------------------------------------
(* The inputs of a run.                                                     *)

\* Of any places of a sequence one is the first, and one the last.
LEMMA FirstPlace ==
  ASSUME NEW S \in SUBSET Nat, S # {}
  PROVE  \E n \in S : \A m \in S : n <= m
  <1> DEFINE T == {0..n : n \in S}
  <1>1. T \subseteq FiniteSubsetsOf(Nat) /\ T # {}
    <2>1. ASSUME NEW n \in S PROVE 0..n \in FiniteSubsetsOf(Nat)
      <3>1. IsFiniteSet(0..n)
        BY FS_Interval
      <3>2. QED
        BY <3>1 DEF FiniteSubsetsOf
    <2>2. QED
      BY <2>1
  <1>2. \E x \in T : \A y \in T : <<y, x>> \notin StrictSubsetOrdering(Nat)
    BY <1>1, FS_StrictSubsetOrderingWellFounded, WFMin, Zenon
  <1>3. PICK n \in S : \A y \in T : <<y, 0..n>> \notin StrictSubsetOrdering(Nat)
    BY <1>2
  <1>4. ASSUME NEW m \in S, m < n PROVE FALSE
    <2>1. 0..m \in T /\ 0..m \in SUBSET Nat /\ 0..n \in SUBSET Nat
      BY <1>4
    <2>2. 0..m \subseteq 0..n /\ 0..m # 0..n
      <3>1. n \in 0..n /\ n \notin 0..m
        BY <1>4
      <3>2. QED
        BY <1>4, <3>1
    <2>3. <<0..m, 0..n>> \in StrictSubsetOrdering(Nat)
      BY <2>1, <2>2 DEF StrictSubsetOrdering
    <2>4. QED
      BY <2>1, <2>3, <1>3
  <1>5. QED
    BY <1>4

LEMMA LastPlace ==
  ASSUME NEW b \in Nat, NEW S \in SUBSET (1..b), S # {}
  PROVE  \E n \in S : \A m \in S : m <= n
  <1> DEFINE R == {b - n : n \in S}
  <1>1. R \in SUBSET Nat /\ R # {}
    <2>1. ASSUME NEW n \in S PROVE b - n \in Nat
      OBVIOUS
    <2>2. QED
      BY <2>1
  <1>2. PICK r \in R : \A q \in R : r <= q
    <2> HIDE DEF R
    <2> QED
      BY <1>1, FirstPlace
  <1>3. PICK n \in S : r = b - n
    OBVIOUS
  <1>4. ASSUME NEW m \in S PROVE m <= n
    <2>1. b - m \in R
      OBVIOUS
    <2>2. b - n <= b - m /\ m \in 1..b /\ n \in 1..b
      BY <1>2, <1>3, <2>1
    <2>3. QED
      BY <2>2
  <1>5. QED
    BY <1>4

LEMMA DirectoryAt ==
  ASSUME NEW dirs \in Seq(Directories)
  PROVE  /\ \A d \in ToSet(dirs) : d \in Directories
         /\ \A i \in DOMAIN dirs : dirs[i] \in ToSet(dirs)
         /\ DOMAIN dirs = 1..Len(dirs) /\ Len(dirs) \in Nat
  BY DEF ToSet

LEMMA EntryTypes ==
  ASSUME NEW d \in Directories, NEW e \in EntriesIn(d)
  PROVE  /\ e.id \in Candidates /\ e.text \in Texts \cup {None}
         /\ d \in Ledgers => e.text \in Texts /\ e.text # None
  <1>1. CASE d \in OldRuns
    BY <1>1, RunnerAssumptions, EntryAssumptions DEF EntriesIn
  <1>2. CASE d \notin OldRuns
    <2>1. PICK x \in PreparedEntries(d) :
            e = [id |-> x.id, url |-> x.url, category |-> LaneOf[d], text |-> x.payload.text]
      BY <1>2 DEF EntriesIn
    <2>2. d \in Ledgers
      BY <1>2 DEF Directories
    <2>3. QED
      BY <2>1, <2>2, EntryAssumptions
  <1>3. QED
    BY <1>1, <1>2

LEMMA EntryFound ==
  ASSUME NEW dirs \in Seq(Directories), NEW c \in CandidatesIn(dirs)
  PROVE  /\ \E d \in ToSet(dirs) : EntryOf(dirs, c) \in EntriesIn(d)
         /\ EntryOf(dirs, c).id = c
  <1> DEFINE found(i) == {e \in EntriesIn(dirs[i]) : e.id = c}
             S == {i \in DOMAIN dirs : found(i) # {}}
             isFirst(i) == found(i) # {} /\ \A j \in 1..(i - 1) : found(j) = {}
             first == CHOOSE i \in DOMAIN dirs : isFirst(i)
  <1>1. S # {} /\ S \in SUBSET Nat /\ DOMAIN dirs = 1..Len(dirs)
    <2>1. PICK d \in ToSet(dirs) : \E e \in EntriesIn(d) : e.id = c
      BY DEF CandidatesIn
    <2>2. PICK i \in DOMAIN dirs : d = dirs[i]
      BY DEF ToSet
    <2>3. QED
      BY <2>1, <2>2
  <1>2. PICK i \in S : \A j \in S : i <= j
    <2> HIDE DEF S
    <2> QED
      BY <1>1, FirstPlace
  <1>3. isFirst(i)
    <2>1. ASSUME NEW j \in 1..(i - 1) PROVE found(j) = {}
      <3>1. j \in DOMAIN dirs /\ ~(i <= j)
        BY <1>1
      <3>2. QED
        BY <3>1, <1>2
    <2>2. QED
      BY <2>1
  <1>4. first \in DOMAIN dirs /\ isFirst(first)
    <2> HIDE DEF isFirst
    <2> QED
      BY <1>3
  <1>5. EntryOf(dirs, c) = CHOOSE e \in found(first) : TRUE
    BY DEF EntryOf
  <1>6. EntryOf(dirs, c) \in found(first)
    BY <1>4, <1>5
  <1>7. QED
    BY <1>4, <1>6, DirectoryAt

\* A policy of a directory that was prepared, for one of its entries.
LEMMA PolicyOfEntry ==
  ASSUME NEW d \in Directories, NEW q \in PoliciesIn(d)
  PROVE  /\ d \in Ledgers /\ q.lane \in {"practitioner", "academic"}
         /\ q.id \in Candidates /\ q.text \in Texts
         /\ q = [id |-> q.id, lane |-> q.lane, roles |-> q.roles, text |-> q.text]
  <1>1. d \in Ledgers /\ inputs[d]["policies"] # None
    BY DEF PoliciesIn
  <1>2. PICK e \in PreparedEntries(d) : \E roles :
          q = [id |-> e.id, lane |-> LaneOf[d], roles |-> roles, text |-> e.payload.text]
    BY <1>1 DEF PoliciesIn
  <1>3. QED
    BY <1>1, <1>2, EntryAssumptions, RunnerAssumptions

LEMMA PolicyFound ==
  ASSUME NEW dirs \in Seq(Directories), NEW c, PoliciesSound(dirs)
  PROVE  PolicyFor(dirs, c) \in ClaimPolicies \cup {None}
  <1> DEFINE all == UNION {PoliciesIn(d) : d \in ToSet(dirs)}
  <1>1. CASE PolicyFor(dirs, c) = None
    BY <1>1
  <1>2. CASE PolicyFor(dirs, c) # None
    <2>1. PICK q \in all : q = PolicyFor(dirs, c)
      BY <1>2 DEF PolicyFor
    <2>2. PICK d \in ToSet(dirs) : q \in PoliciesIn(d)
      OBVIOUS
    <2>3. d \in Directories
      BY DirectoryAt
    <2>4. q.roles \subseteq PractitionerRoles \cup AcademicRoles
      BY DEF PoliciesSound
    <2>5. q \in ClaimPolicies
      BY <2>2, <2>3, <2>4, PolicyOfEntry DEF ClaimPolicies
    <2>6. QED
      BY <2>1, <2>5
  <1>3. QED
    BY <1>1, <1>2

LEMMA AcquiredIsText ==
  ASSUME NEW dirs \in Seq(Directories), NEW c, NEW x \in AcquiredTexts(dirs, c), x # None
  PROVE  x \in Texts /\ ProposalsFor[x] \subseteq AllProposals
  <1>1. PICK r \in ContentsIn(dirs) : x = r.text
    BY DEF AcquiredTexts
  <1>2. PICK i \in DOMAIN dirs : \E e \in EntriesIn(dirs[i]) : x = e.text
    BY <1>1 DEF ContentsIn
  <1>3. x \in Texts
    BY <1>2, DirectoryAt, EntryTypes
  <1>4. QED
    BY <1>3 DEF Texts, AllProposals, Range

\* What is acquired of prepared batches is what their policies commit to.
LEMMA AcquiredIsCommitted ==
  ASSUME InputsAgree, NEW dirs \in Seq(Directories), NEW c \in CandidatesIn(dirs),
         \A d \in ToSet(dirs) : d \in Ledgers /\ Verifies(d),
         PoliciesSound(dirs), NEW x \in AcquiredTexts(dirs, c)
  PROVE  x = PolicyFor(dirs, c).text
  <1> DEFINE all == UNION {PoliciesIn(d) : d \in ToSet(dirs)}
  <1>1. PICK entry : entry = EntryOf(dirs, c)
    OBVIOUS
  <1>2. PICK d \in ToSet(dirs) : entry \in EntriesIn(d) /\ entry.id = c
    BY <1>1, EntryFound
  <1>3. d \in Ledgers /\ d \in Directories /\ d \notin OldRuns /\ inputs[d]["policies"] # None
    BY InputAssumptions, RunnerAssumptions DEF Verifies, FileNames, InputBytes, Directories
  <1>4. PICK e \in PreparedEntries(d) :
          entry = [id |-> e.id, url |-> e.url, category |-> LaneOf[d], text |-> e.payload.text]
    BY <1>2, <1>3 DEF EntriesIn
  <1>5. \E q \in PoliciesIn(d) : q.id = c /\ q.text = entry.text
    <2>1. [id |-> e.id, lane |-> LaneOf[d], roles |-> RolesFor(d, e), text |-> e.payload.text]
            \in PoliciesIn(d)
      BY <1>3 DEF PoliciesIn
    <2>2. e.id = c /\ e.payload.text = entry.text
      BY <1>2, <1>4
    <2>3. QED
      BY <2>1, <2>2
  <1>6. PICK q \in all : q.id = c /\ q.text = entry.text
    BY <1>5
  <1>7. PolicyFor(dirs, c) = q
    <2>1. \A r, s \in all : r.id = s.id => r = s
      BY DEF PoliciesSound, OneEach
    <2>2. PolicyFor(dirs, c) \in {r \in all : r.id = c}
      BY <1>6 DEF PolicyFor
    <2>3. QED
      BY <2>1, <2>2, <1>6
  <1>8. ASSUME NEW r \in ContentsIn(dirs), r.url = entry.url PROVE r.text = entry.text
    <2>1. PICK i \in DOMAIN dirs : \E f \in EntriesIn(dirs[i]) : r = [url |-> f.url, text |-> f.text]
      BY DEF ContentsIn
    <2>2. dirs[i] \in Ledgers
      BY DirectoryAt
    <2>3. QED
      BY <1>2, <1>3, <1>8, <2>1, <2>2 DEF InputsAgree
  <1>9. \E r \in ContentsIn(dirs) : r.url = entry.url
    <2> DEFINE found(i) ==
                 {[url |-> f.url, text |-> f.text] : f \in {y \in EntriesIn(dirs[i]) : y.text # None}}
               S == {i \in DOMAIN dirs : \E r \in found(i) : r.url = entry.url}
    <2>1. S \in SUBSET (1..Len(dirs)) /\ Len(dirs) \in Nat /\ S # {}
      <3>1. PICK i \in DOMAIN dirs : d = dirs[i]
        BY DEF ToSet
      <3>2. entry.text # None
        BY <1>2, <1>3, EntryTypes
      <3>3. [url |-> entry.url, text |-> entry.text] \in found(i)
        BY <1>2, <3>1, <3>2
      <3>4. i \in S
        BY <3>3
      <3>5. QED
        BY <3>4, DirectoryAt
    <2>2. PICK i \in S : \A j \in S : j <= i
      <3> HIDE DEF S
      <3> QED
        BY <2>1, LastPlace
    <2>3. PICK r \in found(i) : r.url = entry.url
      OBVIOUS
    <2>4. ASSUME NEW j \in DOMAIN dirs, j > i, NEW s \in found(j) PROVE s.url # r.url
      <3>1. j \notin S
        BY <2>1, <2>2, <2>4
      <3>2. QED
        BY <3>1, <2>3
    <2>5. r \in ContentsIn(dirs)
      BY <2>4 DEF ContentsIn
    <2>6. QED
      BY <2>3, <2>5
  <1>10. x = entry.text
    BY <1>1, <1>8, <1>9 DEF AcquiredTexts
  <1>11. QED
    BY <1>6, <1>7, <1>10

-----------------------------------------------------------------------------
(* What is made of a proposal.                                              *)

\* Whatever is in `items` has support, all of it in `cards`.
Rests(cards, items) == \A i \in items : i.support # {} /\ i.support \subseteq cards

LEMMA SupportedRest ==
  ASSUME NEW cards \in SUBSET Cards,
         NEW items, items \subseteq NodeCandidates \/ items \subseteq LinkCandidates
  PROVE  /\ Rests(cards, Supported(items, cards))
         /\ items \subseteq NodeCandidates => Supported(items, cards) \subseteq NodeCandidates
         /\ items \subseteq LinkCandidates => Supported(items, cards) \subseteq LinkCandidates
  <1>1. ASSUME NEW s \in Supported(items, cards)
        PROVE  /\ s.support # {} /\ s.support \subseteq cards
               /\ items \subseteq NodeCandidates => s \in NodeCandidates
               /\ items \subseteq LinkCandidates => s \in LinkCandidates
    <2>1. PICK i \in items : i.support \cap cards # {} /\ s = [i EXCEPT !.support = i.support \cap cards]
      BY DEF Supported
    <2>2. i.support \cap cards \in SUBSET Cards
      OBVIOUS
    <2>3. ASSUME items \subseteq NodeCandidates
          PROVE  s \in NodeCandidates /\ s.support = i.support \cap cards
      BY <2>1, <2>2, <2>3 DEF NodeCandidates
    <2>4. ASSUME items \subseteq LinkCandidates
          PROVE  s \in LinkCandidates /\ s.support = i.support \cap cards
      BY <2>1, <2>2, <2>4 DEF LinkCandidates
    <2>5. QED
      BY <2>1, <2>3, <2>4
  <1>2. QED
    BY <1>1 DEF Rests

LEMMA OriginGiven ==
  ASSUME NEW i, i \in NodeCandidates \/ i \in LinkCandidates
  PROVE  /\ WithOrigin(i).support = i.support
         /\ i \in NodeCandidates => WithOrigin(i) \in NodeCandidates
         /\ i \in LinkCandidates => WithOrigin(i) \in LinkCandidates
  <1> DEFINE origins == {CardOf[c].origin : c \in i.support}
             o == IF Cardinality(origins) = 1 THEN CHOOSE x \in origins : TRUE
                  ELSE "personal_interpretation"
  <1>1. i.support \subseteq Cards
    BY DEF NodeCandidates, LinkCandidates
  <1>2. o \in Origins
    <2>1. CASE Cardinality(origins) = 1
      <3>1. origins # {}
        <4>1. Cardinality({}) = 0
          BY FS_EmptySet
        <4> HIDE DEF origins
        <4>2. QED
          BY <2>1, <4>1
      <3>2. o \in origins
        BY <2>1, <3>1
      <3>3. QED
        BY <1>1, <3>2, ProposalAssumptions
    <2>2. QED
      BY <2>1 DEF Origins
  <1>3. WithOrigin(i) = [i EXCEPT !.origin = o]
    BY DEF WithOrigin
  <1> HIDE DEF o
  <1>4. ASSUME i \in NodeCandidates PROVE WithOrigin(i) \in NodeCandidates /\ WithOrigin(i).support = i.support
    BY <1>2, <1>3, <1>4 DEF NodeCandidates
  <1>5. ASSUME i \in LinkCandidates PROVE WithOrigin(i) \in LinkCandidates /\ WithOrigin(i).support = i.support
    BY <1>2, <1>3, <1>5 DEF LinkCandidates
  <1>6. QED
    BY <1>4, <1>5

LEMMA YieldTypes ==
  ASSUME NEW m \in Yields
  PROVE  /\ m.from \in AllProposals \cup {None} /\ m.cards \in SUBSET Cards
         /\ m.nodes \in SUBSET NodeCandidates /\ m.links \in SUBSET LinkCandidates
  BY DEF Yields

LEMMA MadeIsYield ==
  ASSUME NEW from \in AllProposals \cup {None}, NEW cards \in SUBSET Cards,
         NEW nodes \in SUBSET NodeCandidates, NEW links \in SUBSET LinkCandidates
  PROVE  /\ Made(from, cards, nodes, links) \in Yields
         /\ Made(from, cards, nodes, links).from = from
         /\ Made(from, cards, nodes, links).cards = cards
         /\ Made(from, cards, nodes, links).nodes = nodes
         /\ Made(from, cards, nodes, links).links = links
  BY DEF Made, Yields

LEMMA NothingIsYield == Nothing \in Yields /\ Nothing.from = None
  BY MadeIsYield DEF Nothing

LEMMA PermittedAgain ==
  ASSUME NEW cards, NEW policy
  PROVE  /\ Permitted(cards, policy) \subseteq cards
         /\ Permitted(Permitted(cards, policy), policy) = Permitted(cards, policy)
  BY DEF Permitted

\* The filter takes nodes and links, and leaves the cards and the origin.
LEMMA FilterKeeps ==
  ASSUME NEW m \in Yields
  PROVE  /\ FilterUnsupported(m) \in Yields
         /\ FilterUnsupported(m).from = m.from /\ FilterUnsupported(m).cards = m.cards
         /\ FilterUnsupported(m).nodes \subseteq m.nodes
         /\ FilterUnsupported(m).links \subseteq m.links
  <1> DEFINE nodes == {n \in m.nodes : n.entity \in Constructs =>
                         \E c \in n.support \cap m.cards : n.entity \in CardOf[c].names}
             links == Linked(m.links, nodes)
  <1>1. nodes \subseteq m.nodes
    OBVIOUS
  <1>2. links \subseteq m.links
    BY DEF Linked
  <1>3. FilterUnsupported(m) = Made(m.from, m.cards, nodes, links)
    BY DEF FilterUnsupported
  <1> HIDE DEF nodes, links
  <1>4. QED
    BY <1>1, <1>2, <1>3, YieldTypes, MadeIsYield

LEMMA RestsShrink ==
  ASSUME NEW cards, NEW items, NEW fewer, fewer \subseteq items, Rests(cards, items)
  PROVE  Rests(cards, fewer)
  BY DEF Rests

\* A fresh extraction has only what the policy permits, and what rests on it.
LEMMA AssembleSound ==
  ASSUME NEW p \in AllProposals, NEW policy, NEW m, m = Assemble(p, policy)
  PROVE  /\ m \in Yields /\ m.from = p
         /\ m.cards = Permitted(m.cards, policy)
         /\ Rests(m.cards, m.nodes \cup m.links)
  <1> DEFINE cards == Permitted(p.cards, policy)
             nodes == {WithOrigin(n) : n \in Supported(p.nodes, cards)}
             links == {WithOrigin(k) : k \in Supported(p.links, cards)}
  <1>1. p.cards \subseteq Cards /\ p.nodes \subseteq NodeCandidates /\ p.links \subseteq LinkCandidates
    BY ProposalAssumptions
  <1>2. cards \in SUBSET Cards
    BY <1>1, PermittedAgain
  <1>3. nodes \in SUBSET NodeCandidates /\ Rests(cards, nodes)
    <2>1. Supported(p.nodes, cards) \subseteq NodeCandidates /\ Rests(cards, Supported(p.nodes, cards))
      BY <1>1, <1>2, SupportedRest
    <2>2. QED
      BY <2>1, OriginGiven DEF Rests
  <1>4. links \in SUBSET LinkCandidates /\ Rests(cards, links)
    <2>1. Supported(p.links, cards) \subseteq LinkCandidates /\ Rests(cards, Supported(p.links, cards))
      BY <1>1, <1>2, SupportedRest
    <2>2. QED
      BY <2>1, OriginGiven DEF Rests
  <1>5. m = FilterUnsupported(Made(p, cards, nodes, Linked(links, nodes)))
    BY DEF Assemble
  <1>6. cards = Permitted(cards, policy)
    BY PermittedAgain
  <1> HIDE DEF cards, nodes, links
  <1>7. PICK full : full = Made(p, cards, nodes, Linked(links, nodes))
    OBVIOUS
  <1>8. Linked(links, nodes) \subseteq links
    BY DEF Linked
  <1>9. full \in Yields /\ full.from = p /\ full.cards = cards
        /\ full.nodes = nodes /\ full.links \subseteq links
    BY <1>2, <1>3, <1>4, <1>7, <1>8, MadeIsYield
  <1>10. m \in Yields /\ m.from = p /\ m.cards = cards /\ m.nodes \subseteq nodes /\ m.links \subseteq links
    BY <1>5, <1>7, <1>9, FilterKeeps
  <1>11. QED
    BY <1>3, <1>4, <1>6, <1>10 DEF Rests

LEMMA RetainSound ==
  ASSUME NEW m \in Yields, NEW kept \in SUBSET Cards, NEW origins, NEW r, r = Retain(m, kept, origins)
  PROVE  r \in Yields /\ r.from = m.from /\ r.cards = kept /\ Rests(kept, r.nodes \cup r.links)
  <1> DEFINE nodes == {n \in Supported(m.nodes, kept) : n.origin \in origins}
             links == {k \in Supported(m.links, kept) : k.origin \in origins}
  <1>1. nodes \in SUBSET NodeCandidates /\ Rests(kept, nodes)
    <2>1. Supported(m.nodes, kept) \subseteq NodeCandidates /\ Rests(kept, Supported(m.nodes, kept))
      BY YieldTypes, SupportedRest
    <2>2. QED
      BY <2>1 DEF Rests
  <1>2. links \in SUBSET LinkCandidates /\ Rests(kept, links)
    <2>1. Supported(m.links, kept) \subseteq LinkCandidates /\ Rests(kept, Supported(m.links, kept))
      BY YieldTypes, SupportedRest
    <2>2. QED
      BY <2>1 DEF Rests
  <1>3. r = Made(m.from, kept, nodes, Linked(links, nodes))
    BY DEF Retain
  <1> HIDE DEF nodes, links
  <1>4. Linked(links, nodes) \subseteq links
    BY DEF Linked
  <1>5. /\ r \in Yields /\ r.from = m.from /\ r.cards = kept
        /\ r.nodes = nodes /\ r.links = Linked(links, nodes)
    BY <1>1, <1>2, <1>3, <1>4, YieldTypes, MadeIsYield
  <1>6. QED
    BY <1>1, <1>2, <1>4, <1>5 DEF Rests

Freed(category, policy) == category = "practitioner" \/ policy # None

\* What may be expected of m once it is freed of what is no longer admitted.  Its nodes
\* rest on the cards that stay if anything is taken at all, or if they did before.
Migrated(m, category, policy, new) ==
  /\ new \in Yields /\ new.from = m.from
  /\ new.cards = Permitted(new.cards, policy)
  /\ Freed(category, policy) \/ Rests(m.cards, m.nodes \cup m.links) =>
       Rests(new.cards, new.nodes \cup new.links)
  /\ ~Freed(category, policy) => new.cards = m.cards

LEMMA MigrateSound ==
  ASSUME NEW m \in Yields, NEW category, NEW policy, NEW new, new = Migrate(m, category, policy)
  PROVE  Migrated(m, category, policy, new)
  <1> DEFINE kept == {c \in m.cards : CardOf[c].origin # "scientific_evidence"}
             unleaked == IF category = "practitioner" THEN Retain(m, kept, Origins) ELSE m
             left == IF policy = None THEN unleaked
                     ELSE Retain(unleaked, Permitted(unleaked.cards, policy), {OriginOf(policy.lane)})
  <1>1. new = FilterUnsupported(left)
    BY DEF Migrate
  <1>2. kept \in SUBSET Cards
    BY YieldTypes
  <1>3. /\ unleaked \in Yields /\ unleaked.from = m.from
        /\ category = "practitioner" \/ Rests(m.cards, m.nodes \cup m.links) =>
             Rests(unleaked.cards, unleaked.nodes \cup unleaked.links)
        /\ category # "practitioner" => unleaked.cards = m.cards
    <2>1. CASE category = "practitioner"
      <3>1. unleaked = Retain(m, kept, Origins)
        BY <2>1
      <3> HIDE DEF kept, unleaked
      <3>2. unleaked \in Yields /\ unleaked.from = m.from
            /\ Rests(kept, unleaked.nodes \cup unleaked.links) /\ unleaked.cards = kept
        BY <1>2, <3>1, RetainSound
      <3>3. QED
        BY <2>1, <3>2
    <2>2. CASE category # "practitioner"
      BY <2>2
    <2>3. QED
      BY <2>1, <2>2
  <1> HIDE DEF unleaked
  <1>4. Permitted(unleaked.cards, policy) \in SUBSET Cards
    BY <1>3, YieldTypes, PermittedAgain
  <1>5. /\ left \in Yields /\ left.from = m.from
        /\ left.cards = Permitted(left.cards, policy)
        /\ policy # None => Rests(left.cards, left.nodes \cup left.links)
        /\ policy = None => left = unleaked
    <2>1. CASE policy = None
      BY <1>3, <2>1 DEF Permitted
    <2>2. CASE policy # None
      <3>1. PICK admitted \in SUBSET Cards : admitted = Permitted(unleaked.cards, policy)
        BY <1>4
      <3>2. PICK origins : left = Retain(unleaked, admitted, origins)
        BY <2>2, <3>1
      <3> HIDE DEF left
      <3>3. /\ left \in Yields /\ left.from = unleaked.from /\ left.cards = admitted
            /\ Rests(admitted, left.nodes \cup left.links)
        <4>1. PICK u \in Yields : u = unleaked
          BY <1>3
        <4>2. PICK l : l = left
          OBVIOUS
        <4>3. l = Retain(u, admitted, origins)
          BY <3>2, <4>1, <4>2
        <4>4. l \in Yields /\ l.from = u.from /\ l.cards = admitted
              /\ Rests(admitted, l.nodes \cup l.links)
          BY <4>3, RetainSound
        <4>5. QED
          BY <4>1, <4>2, <4>4
      <3>4. Permitted(admitted, policy) = admitted
        BY <3>1, PermittedAgain
      <3>5. QED
        BY <1>3, <2>2, <3>3, <3>4
    <2>3. QED
      BY <2>1, <2>2
  <1> HIDE DEF left
  <1>6. /\ new \in Yields /\ new.from = left.from /\ new.cards = left.cards
        /\ new.nodes \subseteq left.nodes /\ new.links \subseteq left.links
    BY <1>1, <1>5, FilterKeeps
  <1>7. Rests(left.cards, left.nodes \cup left.links) => Rests(new.cards, new.nodes \cup new.links)
    BY <1>6 DEF Rests
  <1>8. QED
    BY <1>3, <1>5, <1>6, <1>7 DEF Freed, Migrated

-----------------------------------------------------------------------------
(* The files of a candidate: a are those of c, p is its policy in the run   *)
(* at hand, and x whether that run executes prepared batches.               *)

ResultFiles == {"claims", "cards", "nodes"}
IsCompleted(r) == r \notin {None, Torn} /\ r.status = "completed"

\* The candidates that some directory lists as a practitioner's.
Practitioners ==
  {e.id : e \in {f \in UNION {EntriesIn(d) : d \in Directories} : f.category = "practitioner"}}

\* A completed record vouches for the files beside it that can be read: they are of one
\* extraction, of the text of the policy if prepared batches were executed.  A migration
\* that was killed may have left nodes whose cards are gone, but only where the next one
\* takes them: under a policy, and of practitioners.
Whole(c, a) ==
  IsCompleted(a["record"]) =>
    /\ \A f \in ResultFiles : a[f] # None
    /\ \A f, g \in ResultFiles : a[f] # Torn /\ a[g] # Torn => a[f].from = a[g].from
    /\ InputsAgree =>
         /\ a["record"].executed => \A f \in ResultFiles :
              a[f] # Torn => a[f].from \in ProposalsFor[a["record"].policy.text]
         /\ a["record"].policy = None /\ c \notin Practitioners /\ a["cards"] # Torn /\ a["nodes"] # Torn =>
              Rests(a["cards"].cards, a["nodes"].nodes \cup a["nodes"].links)

\* What a thread that counts m leaves in each file.
Wanted(f, p, executed, m) ==
  CASE f = "record" -> SourceRecord("completed", p, executed)
    [] f = "claims" -> ClaimsFile(m)
    [] f = "cards" -> CardsFile(m)
    [] f = "nodes" -> NodesFile(m)

Counted(p, executed, m) ==
  /\ m.cards = Permitted(m.cards, p)
  /\ InputsAgree => /\ Rests(m.cards, m.nodes \cup m.links)
                    /\ executed => m.from \in ProposalsFor[p.text]

\* Each file is as it should be in the end, or will be written so.
Remaining(a, writes, p, executed, m) ==
  /\ \A i \in DOMAIN writes : writes[i].value = Wanted(writes[i].file, p, executed, m)
  /\ \A f \in ArtifactFiles :
       (\A i \in DOMAIN writes : writes[i].file # f) => a[f] = Wanted(f, p, executed, m)

Marking(writes, p, x) ==
  \E s \in {"not_extracted", "attempted"} : writes = <<To("record", SourceRecord(s, p, x))>>

Failing(a, writes, p, x) ==
  /\ writes # <<>> /\ ~IsCompleted(a["record"])
  /\ \A i \in DOMAIN writes :
       writes[i] \in {To("record", SourceRecord("failed", p, x)), To("claims", [from |-> None])}

\* The record comes last, and was not complete before.
Extracting(a, writes, p, x, m) ==
  /\ writes # <<>> /\ ~IsCompleted(a["record"])
  /\ \A i \in DOMAIN writes : writes[i].file = "record" <=> i = Len(writes)
  /\ Remaining(a, writes, p, x, m) /\ Counted(p, x, m)

\* The record is complete, and all files are of the extraction that is reused.
Reusing(c, a, writes, p, m) ==
  \E executed \in BOOLEAN :
    /\ writes # <<>> /\ Remaining(a, writes, p, executed, m) /\ Counted(p, executed, m)
    /\ IsCompleted(a["record"]) /\ a["record"].policy = p /\ a["record"].executed = executed
    /\ \A f \in ResultFiles : a[f] \notin {None, Torn} /\ a[f].from = m.from
    /\ p = None /\ c \notin Practitioners => a["cards"].cards = m.cards

Ended(a, p, m) ==
  m.from # None => \E executed \in BOOLEAN :
    Counted(p, executed, m) /\ \A f \in ArtifactFiles : a[f] = Wanted(f, p, executed, m)

ThreadHolds(c, a, w, p, x) ==
  /\ w.at = "writes" =>
       \/ w.made.from = None /\ (Marking(w.writes, p, x) \/ Failing(a, w.writes, p, x))
       \/ Extracting(a, w.writes, p, x, w.made)
       \/ Reusing(c, a, w.writes, p, w.made)
  /\ w.at = "asks" => ~IsCompleted(a["record"])
  /\ w.at = "done" => Ended(a, p, w.made)

LEMMA TheFiles ==
  /\ "record" \in ArtifactFiles /\ "claims" \in ArtifactFiles
  /\ "cards" \in ArtifactFiles /\ "nodes" \in ArtifactFiles
  /\ "cards" \in ResultFiles /\ "nodes" \in ResultFiles /\ "claims" \in ResultFiles
  /\ \A f \in ResultFiles : f \in ArtifactFiles /\ f # "record"
  BY DEF ArtifactFiles, ResultFiles

LEMMA FileTypes ==
  ASSUME NEW a \in ArtifactSets
  PROVE  /\ \A f \in ArtifactFiles : a[f] \in FilesOf(f) \cup {None, Torn}
         /\ a["record"] \notin {None, Torn} => a["record"] \in Records
         /\ a["claims"] \notin {None, Torn} => a["claims"] = [from |-> a["claims"].from]
         /\ a["cards"] \notin {None, Torn} =>
              /\ a["cards"].from \in AllProposals \cup {None} /\ a["cards"].cards \in SUBSET Cards
              /\ a["cards"] = [from |-> a["cards"].from, cards |-> a["cards"].cards]
         /\ a["nodes"] \notin {None, Torn} =>
              /\ a["nodes"].nodes \in SUBSET NodeCandidates
              /\ a["nodes"].links \in SUBSET LinkCandidates
              /\ a["nodes"] = [from |-> a["nodes"].from, nodes |-> a["nodes"].nodes,
                               links |-> a["nodes"].links]
  <1>1. \A f \in ArtifactFiles : a[f] \in FilesOf(f) \cup {None, Torn}
    BY DEF ArtifactSets
  <1>2. /\ a["record"] \in Records \cup {None, Torn}
        /\ a["claims"] \in [from : AllProposals \cup {None}] \cup {None, Torn}
        /\ a["cards"] \in [from : AllProposals \cup {None}, cards : SUBSET Cards] \cup {None, Torn}
        /\ a["nodes"] \in [from : AllProposals \cup {None}, nodes : SUBSET NodeCandidates,
                           links : SUBSET LinkCandidates] \cup {None, Torn}
    BY <1>1 DEF ArtifactFiles, FilesOf
  <1>3. QED
    BY <1>1, <1>2

LEMMA ValueTypes ==
  ASSUME NEW f \in ArtifactFiles, NEW v \in FilesOf(f)
  PROVE  v \in FileValues /\ v \notin {None, Torn}
  <1>1. v \in FileValues
    BY DEF ArtifactFiles, FileValues
  <1>2. QED
    BY <1>1, AbsentFile

LEMMA ValueIsWrite ==
  ASSUME NEW f \in ArtifactFiles, NEW v \in FilesOf(f)
  PROVE  To(f, v) \in Writes
  BY ValueTypes DEF To, Writes

LEMMA RecordIsWrite ==
  ASSUME NEW r \in Records
  PROVE  To("record", r) \in Writes
  <1>1. r \in FilesOf("record") /\ "record" \in ArtifactFiles
    BY TheFiles DEF FilesOf
  <1>2. QED
    BY <1>1, ValueIsWrite

LEMMA WantedTypes ==
  ASSUME NEW p \in ClaimPolicies \cup {None}, NEW executed \in BOOLEAN, NEW m \in Yields,
         NEW f \in ArtifactFiles, NEW v, v = Wanted(f, p, executed, m)
  PROVE  /\ v \in FilesOf(f) /\ v \in FileValues /\ v \notin {None, Torn}
         /\ f \in ResultFiles => v.from = m.from
         /\ f = "record" => /\ IsCompleted(v) /\ v.policy = p /\ v.executed = executed
                            /\ v # SourceRecord("attempted", p, executed)
         /\ f = "cards" => v.cards = m.cards
         /\ f = "nodes" => v.nodes = m.nodes /\ v.links = m.links
  <1>1. v \in FilesOf(f)
    <2>1. CASE f = "record"
      BY <2>1 DEF Wanted, FilesOf, SourceRecord, Records, Version
    <2>2. CASE f = "claims"
      BY <2>2, YieldTypes DEF Wanted, FilesOf, ClaimsFile
    <2>3. CASE f = "cards"
      BY <2>3, YieldTypes DEF Wanted, FilesOf, CardsFile
    <2>4. CASE f = "nodes"
      BY <2>4, YieldTypes DEF Wanted, FilesOf, NodesFile
    <2>5. QED
      BY <2>1, <2>2, <2>3, <2>4 DEF ArtifactFiles
  <1>2. v \in FileValues /\ v \notin {None, Torn}
    BY <1>1, ValueTypes
  <1>3. f \in ResultFiles => v.from = m.from
    BY DEF Wanted, ClaimsFile, CardsFile, NodesFile, ResultFiles
  <1>4. f = "cards" => v.cards = m.cards
    BY DEF Wanted, CardsFile
  <1>5. f = "nodes" => v.nodes = m.nodes /\ v.links = m.links
    BY DEF Wanted, NodesFile
  <1>6. f = "record" => v.status = "completed" /\ v.policy = p /\ v.executed = executed
    BY DEF Wanted, SourceRecord
  <1>7. f = "record" => v # SourceRecord("attempted", p, executed)
    BY <1>6 DEF SourceRecord
  <1>8. QED
    BY <1>1, <1>2, <1>3, <1>4, <1>5, <1>6, <1>7 DEF IsCompleted

\* The same of all files that are wanted.
LEMMA WantedFiles ==
  ASSUME NEW p \in ClaimPolicies \cup {None}, NEW e \in BOOLEAN, NEW m \in Yields
  PROVE  /\ IsCompleted(Wanted("record", p, e, m)) /\ Wanted("record", p, e, m).policy = p
         /\ Wanted("record", p, e, m).executed = e
         /\ \A f \in ResultFiles :
              Wanted(f, p, e, m) \notin {None, Torn} /\ Wanted(f, p, e, m).from = m.from
         /\ Wanted("cards", p, e, m).cards = m.cards
         /\ Wanted("nodes", p, e, m).nodes = m.nodes /\ Wanted("nodes", p, e, m).links = m.links
  <1>1. \A f \in ResultFiles : f \in ArtifactFiles
    BY DEF ResultFiles, ArtifactFiles
  <1>2. "record" \in ArtifactFiles /\ "cards" \in ArtifactFiles /\ "nodes" \in ArtifactFiles
    BY DEF ArtifactFiles
  <1>3. ASSUME NEW f \in ResultFiles
        PROVE  Wanted(f, p, e, m) \notin {None, Torn} /\ Wanted(f, p, e, m).from = m.from
    BY <1>1, WantedTypes
  <1>4. PICK v : v = Wanted("record", p, e, m)
    OBVIOUS
  <1>5. IsCompleted(v) /\ v.policy = p /\ v.executed = e
    BY <1>2, <1>4, WantedTypes
  <1>6. PICK u : u = Wanted("cards", p, e, m)
    OBVIOUS
  <1>7. u.cards = m.cards
    BY <1>2, <1>6, WantedTypes
  <1>8. PICK n : n = Wanted("nodes", p, e, m)
    OBVIOUS
  <1>9. n.nodes = m.nodes /\ n.links = m.links
    BY <1>2, <1>8, WantedTypes
  <1>10. QED
    BY <1>3, <1>4, <1>5, <1>6, <1>7, <1>8, <1>9

LEMMA FirstWrite ==
  ASSUME NEW s \in Seq(Writes), s # <<>>
  PROVE  /\ s[1].file \in ArtifactFiles /\ s[1].value \in FilesOf(s[1].file)
         /\ s[1].value \in FileValues /\ s[1].value \notin {None, Torn}
         /\ s[1] = To(s[1].file, s[1].value)
         /\ Len(s) \in Nat /\ Len(s) >= 1 /\ DOMAIN s = 1..Len(s)
         /\ Tail(s) \in Seq(Writes) /\ DOMAIN Tail(s) = 1..(Len(s) - 1) /\ Len(Tail(s)) = Len(s) - 1
         /\ \A i \in 1..(Len(s) - 1) : Tail(s)[i] = s[i + 1]
         /\ (Len(s) > 1) = (Tail(s) # <<>>)
         /\ Len(s) <= 1 => Len(s) = 1
  <1>1. s[1] \in Writes /\ Len(s) \in Nat /\ Len(s) >= 1 /\ DOMAIN s = 1..Len(s)
    OBVIOUS
  <1>2. s[1].file \in ArtifactFiles /\ s[1].value \in FilesOf(s[1].file)
        /\ s[1] = To(s[1].file, s[1].value)
    BY <1>1 DEF Writes, To
  <1>3. s[1].value \in FileValues /\ s[1].value \notin {None, Torn}
    BY <1>2, ValueTypes
  <1>4. Tail(s) \in Seq(Writes) /\ DOMAIN Tail(s) = 1..(Len(s) - 1) /\ Len(Tail(s)) = Len(s) - 1
        /\ \A i \in 1..(Len(s) - 1) : Tail(s)[i] = s[i + 1]
    OBVIOUS
  <1>5. (Len(s) > 1) = (Tail(s) # <<>>)
    <2>1. CASE Tail(s) = <<>>
      <3>1. \A u : u = <<>> => Len(u) = 0
        OBVIOUS
      <3>2. PICK u, n : u = Tail(s) /\ n = Len(s) - 1 /\ Len(u) = n /\ u = <<>>
        BY <1>4, <2>1
      <3>3. n = 0
        BY <3>1, <3>2
      <3>4. QED
        BY <1>1, <2>1, <3>2, <3>3
    <2>2. CASE Tail(s) # <<>>
      <3>1. Len(Tail(s)) # 0 /\ Len(Tail(s)) \in Nat
        BY <1>4, <2>2
      <3>2. QED
        BY <1>1, <1>4, <2>2, <3>1
    <2>3. QED
      BY <2>1, <2>2
  <1>6. QED
    BY <1>1, <1>2, <1>3, <1>4, <1>5

Changed(a, f, v) == [a EXCEPT ![f] = v]

\* One file of a is rewritten, or torn.
LEMMA FileChanged ==
  ASSUME NEW a \in ArtifactSets, NEW f \in ArtifactFiles, NEW v \in FilesOf(f) \cup {Torn},
         NEW b, b = Changed(a, f, v)
  PROVE  b \in ArtifactSets /\ b[f] = v /\ \A g \in ArtifactFiles \ {f} : b[g] = a[g]
  <1>1. v \in FileValues \cup {Torn}
    BY ValueTypes
  <1>2. a \in [ArtifactFiles -> FileValues \cup {None, Torn}]
        /\ \A g \in ArtifactFiles : a[g] \in FilesOf(g) \cup {None, Torn}
    BY DEF ArtifactSets
  <1>3. b \in [ArtifactFiles -> FileValues \cup {None, Torn}]
        /\ b[f] = v /\ \A g \in ArtifactFiles \ {f} : b[g] = a[g]
    BY <1>1, <1>2 DEF Changed
  <1>4. \A g \in ArtifactFiles : b[g] \in FilesOf(g) \cup {None, Torn}
    BY <1>2, <1>3
  <1>5. QED
    BY <1>3, <1>4 DEF ArtifactSets

\* The first of the writes is made.
LEMMA NextFile ==
  ASSUME NEW a \in ArtifactSets, NEW s \in Seq(Writes), s # <<>>,
         NEW b, b = Changed(a, s[1].file, s[1].value)
  PROVE  /\ b \in ArtifactSets /\ b[s[1].file] = s[1].value
         /\ \A g \in ArtifactFiles \ {s[1].file} : b[g] = a[g]
  <1>1. PICK f \in ArtifactFiles, v \in FileValues : f = s[1].file /\ v = s[1].value
    BY FirstWrite
  <1>2. v \in FilesOf(f) \cup {Torn}
    BY <1>1, FirstWrite
  <1>3. b = Changed(a, f, v)
    BY <1>1
  <1>4. b \in ArtifactSets /\ b[f] = v /\ \A g \in ArtifactFiles \ {f} : b[g] = a[g]
    BY <1>2, <1>3, FileChanged
  <1>5. QED
    BY <1>1, <1>4

LEMMA RemainingShrinks ==
  ASSUME NEW a \in ArtifactSets, NEW s \in Seq(Writes), s # <<>>, NEW p, NEW x, NEW m,
         NEW b, b = Changed(a, s[1].file, s[1].value), Remaining(a, s, p, x, m)
  PROVE  /\ s[1].value = Wanted(s[1].file, p, x, m)
         /\ Remaining(b, Tail(s), p, x, m)
         /\ Len(s) = 1 => \A f \in ArtifactFiles : b[f] = Wanted(f, p, x, m)
  <1>1. \A i \in 1..Len(s) : s[i].value = Wanted(s[i].file, p, x, m)
    BY FirstWrite DEF Remaining
  <1>2. s[1].value = Wanted(s[1].file, p, x, m)
    BY <1>1, FirstWrite
  <1>3. ASSUME NEW i \in DOMAIN Tail(s)
        PROVE  Tail(s)[i].value = Wanted(Tail(s)[i].file, p, x, m)
    <2>1. i \in 1..(Len(s) - 1) /\ Tail(s)[i] = s[i + 1] /\ i + 1 \in 1..Len(s)
      BY FirstWrite
    <2>2. QED
      BY <1>1, <2>1
  <1>4. ASSUME NEW f \in ArtifactFiles, \A i \in DOMAIN Tail(s) : Tail(s)[i].file # f
        PROVE  b[f] = Wanted(f, p, x, m)
    <2>1. CASE f = s[1].file
      BY <1>2, <2>1, NextFile
    <2>2. CASE f # s[1].file
      <3>1. ASSUME NEW i \in DOMAIN s PROVE s[i].file # f
        <4>1. CASE i = 1
          BY <2>2, <4>1
        <4>2. CASE i # 1
          <5>1. i - 1 \in 1..(Len(s) - 1) /\ i - 1 \in DOMAIN Tail(s) /\ (i - 1) + 1 = i
            BY <4>2, FirstWrite
          <5>2. Tail(s)[i - 1] = s[i]
            BY <5>1, FirstWrite
          <5>3. QED
            BY <1>4, <5>1, <5>2
        <4>3. QED
          BY <4>1, <4>2
      <3>2. a[f] = Wanted(f, p, x, m)
        BY <3>1 DEF Remaining
      <3>3. b[f] = a[f]
        BY <2>2, NextFile
      <3>4. QED
        BY <3>2, <3>3
    <2>3. QED
      BY <2>1, <2>2
  <1>5. Remaining(b, Tail(s), p, x, m)
    BY <1>3, <1>4 DEF Remaining
  <1>6. ASSUME Len(s) = 1, NEW f \in ArtifactFiles PROVE b[f] = Wanted(f, p, x, m)
    <2>1. DOMAIN Tail(s) = 1..(Len(s) - 1)
      BY FirstWrite
    <2>2. QED
      BY <1>4, <1>6, <2>1
  <1>7. QED
    BY <1>2, <1>5, <1>6

\* A thread that writes, before and after its next file.
Writing(c, a, w, p, x) ==
  /\ c \in Candidates /\ a \in ArtifactSets /\ w \in Works
  /\ p \in ClaimPolicies \cup {None} /\ x \in BOOLEAN
  /\ w.at = "writes" /\ Whole(c, a)

Onward(w, p, x) ==
  [at |-> IF Len(w.writes) > 1 THEN "writes"
          ELSE IF w.writes[1] = To("record", SourceRecord("attempted", p, x)) THEN "asks" ELSE "done",
   writes |-> Tail(w.writes), made |-> w.made]

LEMMA MarkingOnward ==
  ASSUME NEW c, NEW a, NEW w, NEW p, NEW x, Writing(c, a, w, p, x),
         w.made.from = None, Marking(w.writes, p, x),
         NEW b, b = Changed(a, w.writes[1].file, w.writes[1].value)
  PROVE  Whole(c, b) /\ ThreadHolds(c, b, Onward(w, p, x), p, x)
  <1>1. PICK s \in {"not_extracted", "attempted"} : w.writes = <<To("record", SourceRecord(s, p, x))>>
    BY DEF Marking
  <1>2. w.writes[1] = To("record", SourceRecord(s, p, x)) /\ Len(w.writes) = 1
    BY <1>1
  <1>3. b = [a EXCEPT !["record"] = SourceRecord(s, p, x)]
    BY <1>2 DEF To, Changed
  <1>4. b["record"] = SourceRecord(s, p, x)
    BY <1>3 DEF Writing, ArtifactSets, ArtifactFiles
  <1>5. ~IsCompleted(b["record"])
    BY <1>4 DEF IsCompleted, SourceRecord
  <1>6. /\ Onward(w, p, x).at \in {"asks", "done"}
        /\ Onward(w, p, x).made = w.made
    BY <1>2 DEF Onward
  <1>7. QED
    BY <1>5, <1>6 DEF Whole, ThreadHolds, Ended

LEMMA FailingOnward ==
  ASSUME NEW c, NEW a, NEW w, NEW p, NEW x, Writing(c, a, w, p, x),
         w.made.from = None, Failing(a, w.writes, p, x),
         NEW b, b = Changed(a, w.writes[1].file, w.writes[1].value)
  PROVE  Whole(c, b) /\ ThreadHolds(c, b, Onward(w, p, x), p, x)
  <1>1. w.writes \in Seq(Writes) /\ w.writes # <<>>
    BY DEF Writing, Works, Failing
  <1>2. \A i \in 1..Len(w.writes) :
          w.writes[i] \in {To("record", SourceRecord("failed", p, x)), To("claims", [from |-> None])}
    BY <1>1 DEF Failing
  <1>3. w.writes[1] \in {To("record", SourceRecord("failed", p, x)), To("claims", [from |-> None])}
    BY <1>1, <1>2, FirstWrite
  <1>4. ~IsCompleted(b["record"])
    <2>1. CASE w.writes[1] = To("record", SourceRecord("failed", p, x))
      <3>1. b = [a EXCEPT !["record"] = SourceRecord("failed", p, x)]
        BY <2>1 DEF To, Changed
      <3>2. b["record"] = SourceRecord("failed", p, x)
        BY <3>1 DEF Writing, ArtifactSets, ArtifactFiles
      <3>3. QED
        BY <3>2 DEF IsCompleted, SourceRecord
    <2>2. CASE w.writes[1] = To("claims", [from |-> None])
      <3>1. b = [a EXCEPT !["claims"] = [from |-> None]]
        BY <2>2 DEF To, Changed
      <3>2. b["record"] = a["record"]
        BY <3>1 DEF Writing, ArtifactSets, ArtifactFiles
      <3>3. QED
        BY <3>2 DEF Failing
    <2>3. QED
      BY <1>3, <2>1, <2>2
  <1>5. w.writes[1] # To("record", SourceRecord("attempted", p, x))
    BY <1>3 DEF To, SourceRecord
  <1>6. /\ Onward(w, p, x).at \in {"writes", "done"} /\ Onward(w, p, x).made = w.made
        /\ Onward(w, p, x).writes = Tail(w.writes)
        /\ Onward(w, p, x).at = "writes" => Len(w.writes) > 1
    BY <1>5 DEF Onward
  <1>7. ASSUME Len(w.writes) > 1 PROVE Failing(b, Tail(w.writes), p, x)
    <2>1. Tail(w.writes) # <<>>
      BY <1>1, <1>7, FirstWrite
    <2>2. \A i \in DOMAIN Tail(w.writes) :
            Tail(w.writes)[i] \in {To("record", SourceRecord("failed", p, x)), To("claims", [from |-> None])}
      BY <1>1, <1>2, FirstWrite
    <2>3. QED
      BY <1>4, <2>1, <2>2 DEF Failing
  <1>8. QED
    BY <1>4, <1>6, <1>7 DEF Whole, ThreadHolds, Ended

LEMMA ExtractingOnward ==
  ASSUME NEW c, NEW a, NEW w, NEW p, NEW x, Writing(c, a, w, p, x),
         Extracting(a, w.writes, p, x, w.made),
         NEW b, b = Changed(a, w.writes[1].file, w.writes[1].value)
  PROVE  Whole(c, b) /\ ThreadHolds(c, b, Onward(w, p, x), p, x)
  <1>1. PICK s \in Seq(Writes), m \in Yields : s = w.writes /\ m = w.made
    BY DEF Writing, Works
  <1>2. /\ s # <<>> /\ ~IsCompleted(a["record"])
        /\ \A i \in DOMAIN s : s[i].file = "record" <=> i = Len(s)
        /\ Remaining(a, s, p, x, m) /\ Counted(p, x, m)
    BY <1>1 DEF Extracting
  <1>3. /\ a \in ArtifactSets /\ p \in ClaimPolicies \cup {None} /\ x \in BOOLEAN
        /\ b = Changed(a, s[1].file, s[1].value)
    BY <1>1 DEF Writing
  <1>4. b \in ArtifactSets /\ b[s[1].file] = s[1].value
        /\ \A g \in ArtifactFiles \ {s[1].file} : b[g] = a[g]
    BY <1>2, <1>3, NextFile
  <1>5. /\ s[1].value = Wanted(s[1].file, p, x, m) /\ Remaining(b, Tail(s), p, x, m)
        /\ Len(s) = 1 => \A f \in ArtifactFiles : b[f] = Wanted(f, p, x, m)
    BY <1>2, <1>3, RemainingShrinks
  <1>6. /\ Onward(w, p, x).made = m /\ Onward(w, p, x).writes = Tail(s)
        /\ Len(s) > 1 => Onward(w, p, x).at = "writes"
        /\ Len(s) <= 1 /\ s[1] # To("record", SourceRecord("attempted", p, x)) => Onward(w, p, x).at = "done"
    BY <1>1, <1>2, FirstWrite DEF Onward
  <1>7. CASE Len(s) > 1
    <2>1. s[1].file # "record" /\ "record" \in ArtifactFiles
      BY <1>2, <1>7, FirstWrite DEF ArtifactFiles
    <2>2. ~IsCompleted(b["record"])
      BY <1>2, <1>4, <2>1
    <2>3. Tail(s) # <<>>
      BY <1>2, <1>7, FirstWrite
    <2>4. ASSUME NEW i \in DOMAIN Tail(s)
          PROVE  Tail(s)[i].file = "record" <=> i = Len(Tail(s))
      <3>1. /\ i \in 1..(Len(s) - 1) /\ Tail(s)[i] = s[i + 1] /\ Len(Tail(s)) = Len(s) - 1
            /\ DOMAIN s = 1..Len(s) /\ Len(s) \in Nat
        BY <1>2, FirstWrite
      <3>2. i + 1 \in DOMAIN s
        BY <3>1
      <3>3. s[i + 1].file = "record" <=> i + 1 = Len(s)
        BY <1>2, <3>2
      <3>4. QED
        BY <3>1, <3>3
    <2>5. Extracting(b, Tail(s), p, x, m)
      BY <1>2, <1>5, <2>2, <2>3, <2>4 DEF Extracting
    <2>6. QED
      BY <1>6, <1>7, <2>2, <2>5 DEF Whole, ThreadHolds
  <1>8. CASE Len(s) <= 1
    <2>1. Len(s) = 1 /\ s[1].file = "record"
      BY <1>2, <1>8, FirstWrite
    <2>2. \A f \in ArtifactFiles : b[f] = Wanted(f, p, x, m)
      BY <1>5, <2>1
    <2>3. Ended(b, p, m)
      BY <1>2, <1>3, <2>2 DEF Ended
    <2>4. Whole(c, b)
      <3>1. /\ b["record"].policy = p /\ b["record"].executed = x
            /\ \A f \in ResultFiles : b[f] \notin {None, Torn} /\ b[f].from = m.from
            /\ b["cards"].cards = m.cards /\ b["nodes"].nodes = m.nodes /\ b["nodes"].links = m.links
        BY <1>3, <2>2, WantedFiles, TheFiles
      <3>2. QED
        BY <1>2, <3>1 DEF Whole, Counted
    <2>5. s[1] # To("record", SourceRecord("attempted", p, x))
      <3>1. IsCompleted(s[1].value)
        BY <1>3, <1>5, <2>1, WantedFiles
      <3>2. QED
        BY <3>1 DEF IsCompleted, SourceRecord, To
    <2>6. QED
      BY <1>6, <1>8, <2>3, <2>4, <2>5 DEF ThreadHolds
  <1>9. QED
    BY <1>2, <1>7, <1>8, FirstWrite

LEMMA ReusingOnward ==
  ASSUME NEW c, NEW a, NEW w, NEW p, NEW x, Writing(c, a, w, p, x),
         Reusing(c, a, w.writes, p, w.made),
         NEW b, b = Changed(a, w.writes[1].file, w.writes[1].value)
  PROVE  Whole(c, b) /\ ThreadHolds(c, b, Onward(w, p, x), p, x)
  <1>1. PICK s \in Seq(Writes), m \in Yields : s = w.writes /\ m = w.made
    BY DEF Writing, Works
  <1>2. PICK e \in BOOLEAN :
          /\ s # <<>> /\ Remaining(a, s, p, e, m) /\ Counted(p, e, m)
          /\ IsCompleted(a["record"]) /\ a["record"].policy = p /\ a["record"].executed = e
          /\ \A f \in ResultFiles : a[f] \notin {None, Torn} /\ a[f].from = m.from
          /\ p = None /\ c \notin Practitioners => a["cards"].cards = m.cards
    BY <1>1 DEF Reusing
  <1>3. /\ a \in ArtifactSets /\ p \in ClaimPolicies \cup {None} /\ x \in BOOLEAN /\ Whole(c, a)
        /\ b = Changed(a, s[1].file, s[1].value)
    BY <1>1 DEF Writing
  <1>4. b \in ArtifactSets /\ b[s[1].file] = s[1].value
        /\ \A g \in ArtifactFiles \ {s[1].file} : b[g] = a[g]
    BY <1>2, <1>3, NextFile
  <1>5. /\ s[1].value = Wanted(s[1].file, p, e, m) /\ Remaining(b, Tail(s), p, e, m)
        /\ Len(s) = 1 => \A f \in ArtifactFiles : b[f] = Wanted(f, p, e, m)
    BY <1>2, <1>3, RemainingShrinks
  <1>6. /\ Onward(w, p, x).made = m /\ Onward(w, p, x).writes = Tail(s)
        /\ Len(s) > 1 => Onward(w, p, x).at = "writes"
        /\ Len(s) <= 1 /\ s[1] # To("record", SourceRecord("attempted", p, x)) => Onward(w, p, x).at = "done"
    BY <1>1, <1>2, FirstWrite DEF Onward
  <1>7. ASSUME NEW g \in ArtifactFiles PROVE b[g] = a[g] \/ b[g] = Wanted(g, p, e, m)
    BY <1>4, <1>5
  <1>8. IsCompleted(b["record"]) /\ b["record"].policy = p /\ b["record"].executed = e
    <2>1. PICK r : r = Wanted("record", p, e, m)
      OBVIOUS
    <2>2. IsCompleted(r) /\ r.policy = p /\ r.executed = e
      BY <1>3, <2>1, WantedFiles
    <2>3. b["record"] = a["record"] \/ b["record"] = r
      BY <1>7, <2>1, TheFiles
    <2>4. CASE b["record"] = a["record"]
      BY <1>2, <2>4
    <2>5. CASE b["record"] = r
      BY <2>2, <2>5
    <2>6. QED
      BY <2>3, <2>4, <2>5
  <1>9. ASSUME NEW f \in ResultFiles PROVE b[f] \notin {None, Torn} /\ b[f].from = m.from
    <2>1. b[f] = a[f] \/ b[f] = Wanted(f, p, e, m)
      BY <1>7, TheFiles
    <2>2. Wanted(f, p, e, m) \notin {None, Torn} /\ Wanted(f, p, e, m).from = m.from
      BY <1>3, WantedFiles
    <2>3. QED
      BY <1>2, <2>1, <2>2
  <1>10. ASSUME p = None, c \notin Practitioners PROVE b["cards"].cards = m.cards
    <2>1. b["cards"] = a["cards"] \/ b["cards"] = Wanted("cards", p, e, m)
      BY <1>7, TheFiles
    <2>2. Wanted("cards", p, e, m).cards = m.cards
      BY <1>3, WantedFiles
    <2>3. QED
      BY <1>2, <1>10, <2>1, <2>2
  <1>11. Whole(c, b)
    <2>1. ASSUME InputsAgree, e, NEW f \in ResultFiles
          PROVE  b[f].from \in ProposalsFor[p.text]
      BY <1>2, <1>9, <2>1 DEF Counted
    <2>2. ASSUME InputsAgree, p = None, c \notin Practitioners
          PROVE  Rests(b["cards"].cards, b["nodes"].nodes \cup b["nodes"].links)
      <3>1. a["cards"].cards = m.cards /\ b["cards"].cards = m.cards
        BY <1>2, <1>10, <2>2
      <3>2. Rests(m.cards, a["nodes"].nodes \cup a["nodes"].links)
        BY <1>2, <1>3, <2>2, <3>1 DEF Whole, ResultFiles
      <3>3. Rests(m.cards, m.nodes \cup m.links)
        BY <1>2, <2>2 DEF Counted
      <3>4. CASE b["nodes"] = a["nodes"]
        BY <3>1, <3>2, <3>4
      <3>5. CASE b["nodes"] = Wanted("nodes", p, e, m)
        <4>1. b["nodes"].nodes = m.nodes /\ b["nodes"].links = m.links
          BY <1>3, <3>5, WantedFiles
        <4>2. QED
          BY <3>1, <3>3, <4>1
      <3>6. QED
        BY <1>7, <3>4, <3>5 DEF ArtifactFiles
    <2>3. QED
      BY <1>8, <1>9, <2>1, <2>2 DEF Whole
  <1>12. CASE Len(s) > 1
    <2>1. Tail(s) # <<>>
      BY <1>2, <1>12, FirstWrite
    <2>2. Reusing(c, b, Tail(s), p, m)
      BY <1>2, <1>5, <1>8, <1>9, <1>10, <2>1 DEF Reusing
    <2>3. QED
      BY <1>6, <1>11, <1>12, <2>2 DEF ThreadHolds
  <1>13. CASE Len(s) <= 1
    <2>1. Len(s) = 1
      BY <1>2, <1>13, FirstWrite
    <2>2. Ended(b, p, m)
      BY <1>2, <1>5, <2>1 DEF Ended
    <2>3. s[1] # To("record", SourceRecord("attempted", p, x))
      <3>1. SUFFICES ASSUME s[1].file = "record", s[1].value = SourceRecord("attempted", p, x) PROVE FALSE
        BY DEF To
      <3>2. IsCompleted(s[1].value)
        BY <1>3, <1>5, <3>1, WantedFiles
      <3>3. QED
        BY <3>1, <3>2 DEF IsCompleted, SourceRecord
    <2>4. QED
      BY <1>6, <1>11, <1>13, <2>2, <2>3 DEF ThreadHolds
  <1>14. QED
    BY <1>2, <1>12, <1>13, FirstWrite

\* The next file, as the thread writes it.
LEMMA WriteOnward ==
  ASSUME NEW c, NEW a, NEW w, NEW p, NEW x, Writing(c, a, w, p, x), ThreadHolds(c, a, w, p, x),
         NEW b, b = Changed(a, w.writes[1].file, w.writes[1].value)
  PROVE  /\ b \in ArtifactSets /\ Onward(w, p, x) \in Works
         /\ Whole(c, b) /\ ThreadHolds(c, b, Onward(w, p, x), p, x)
  <1>1. w.writes \in Seq(Writes) /\ w.made \in Yields /\ w.at = "writes" /\ a \in ArtifactSets
    BY DEF Writing, Works
  <1>2. \/ w.made.from = None /\ (Marking(w.writes, p, x) \/ Failing(a, w.writes, p, x))
        \/ Extracting(a, w.writes, p, x, w.made) \/ Reusing(c, a, w.writes, p, w.made)
    BY <1>1 DEF ThreadHolds
  <1>3. w.writes # <<>>
    BY <1>2 DEF Marking, Failing, Extracting, Reusing
  <1>4. Whole(c, b) /\ ThreadHolds(c, b, Onward(w, p, x), p, x)
    BY <1>2, MarkingOnward, FailingOnward, ExtractingOnward, ReusingOnward
  <1>5. b \in ArtifactSets
    <2>1. PICK s \in Seq(Writes) : s = w.writes
      BY <1>1
    <2>2. s # <<>> /\ b = Changed(a, s[1].file, s[1].value)
      BY <1>3, <2>1
    <2>3. QED
      BY <1>1, <2>2, NextFile
  <1>6. Onward(w, p, x) \in Works
    BY <1>1, <1>3, FirstWrite DEF Onward, Works
  <1>7. QED
    BY <1>4, <1>5, <1>6

\* A kill tears the file that the thread is writing.
LEMMA TornOnward ==
  ASSUME NEW c, NEW a, NEW w, NEW p, NEW x, Writing(c, a, w, p, x), ThreadHolds(c, a, w, p, x),
         NEW b, b = Changed(a, w.writes[1].file, Torn)
  PROVE  b \in ArtifactSets /\ Whole(c, b)
  <1>1. w.writes \in Seq(Writes) /\ w.made \in Yields /\ w.at = "writes" /\ a \in ArtifactSets
    BY DEF Writing, Works
  <1>2. \/ Marking(w.writes, p, x) \/ Failing(a, w.writes, p, x)
        \/ Extracting(a, w.writes, p, x, w.made) \/ Reusing(c, a, w.writes, p, w.made)
    BY <1>1 DEF ThreadHolds
  <1>3. w.writes # <<>>
    BY <1>2 DEF Marking, Failing, Extracting, Reusing
  <1>4. PICK f \in ArtifactFiles : f = w.writes[1].file
    BY <1>1, <1>3, FirstWrite
  <1>5. b \in ArtifactSets /\ b[f] = Torn /\ \A g \in ArtifactFiles \ {f} : b[g] = a[g]
    <2>1. b = Changed(a, f, Torn) /\ Torn \in FilesOf(f) \cup {Torn}
      BY <1>4
    <2>2. QED
      BY <1>1, <2>1, FileChanged
  <1>6. CASE f = "record"
    BY <1>5, <1>6 DEF Whole, IsCompleted
  <1>7. CASE f # "record"
    <2>1. b["record"] = a["record"] /\ Whole(c, a)
      BY <1>5, <1>7 DEF ArtifactFiles, Writing
    <2>2. \A g \in ResultFiles : b[g] = a[g] \/ b[g] = Torn
      BY <1>5 DEF ArtifactFiles, ResultFiles
    <2>3. Whole(c, b)
      BY <2>1, <2>2, InputAssumptions DEF Whole, ResultFiles
    <2>4. QED
      BY <1>5, <2>3
  <1>8. QED
    BY <1>5, <1>6, <1>7

-----------------------------------------------------------------------------
(* What a run has read stays as it was read while the run lasts.            *)

LEMMA PolicyKept ==
  ASSUME inputs' = inputs, job'.dirs = job.dirs, NEW c
  PROVE  Policy(c)' = Policy(c)
  BY DEF Policy, PolicyFor, PoliciesIn, RolesFor, Policies

LEMMA VerifiesKept ==
  ASSUME inputs' = inputs, NEW d, Verifies(d)
  PROVE  Verifies(d)'
  BY DEF Verifies, Ledger, Audit

LEMMA ExtractedKept ==
  ASSUME job'.work = job.work
  PROVE  Extracted' = Extracted
  BY DEF Extracted

\* What the directories of a run say is sound as long as they are not written.
LEMMA SoundThen ==
  ASSUME inputs' = inputs, NEW dirs, job'.dirs = dirs, PoliciesSound(dirs)
  PROVE  PoliciesSound(job.dirs)'
  <1> DEFINE all == UNION {PoliciesIn(d) : d \in ToSet(dirs)}
             fits(p) == /\ "context_only" \in p.roles
                        /\ p.roles \subseteq
                             IF p.lane = "practitioner" THEN PractitionerRoles ELSE AcademicRoles
  <1>1. all' = all
    BY DEF PoliciesIn, RolesFor, Policies
  <1>2. (UNION {PoliciesIn(d) : d \in ToSet(job.dirs)})' = all'
    OBVIOUS
  <1>3. \A p, q \in all : p.id = q.id => p = q
    BY DEF PoliciesSound, OneEach
  <1>4. \A p \in all : fits(p) /\ p.id \in CandidatesIn(dirs)
    BY DEF PoliciesSound
  <1>5. \A p, q \in (UNION {PoliciesIn(d) : d \in ToSet(job.dirs)})' : p.id = q.id => p = q
    <2> HIDE DEF all
    <2> QED
      BY <1>1, <1>2, <1>3
  <1>6. \A p \in (UNION {PoliciesIn(d) : d \in ToSet(job.dirs)})' :
          fits(p) /\ p.id \in CandidatesIn(job.dirs)'
    <2>1. CandidatesIn(job.dirs)' = CandidatesIn(dirs)
      OBVIOUS
    <2> HIDE DEF all, fits
    <2> QED
      BY <1>1, <1>2, <1>4, <2>1
  <1>7. QED
    BY <1>5, <1>6 DEF PoliciesSound, OneEach

LEMMA SoundKept ==
  ASSUME inputs' = inputs, job'.dirs = job.dirs, PoliciesSound(job.dirs)
  PROVE  PoliciesSound(job.dirs)'
  <1>1. PICK dirs : dirs = job.dirs
    OBVIOUS
  <1>2. job'.dirs = dirs /\ PoliciesSound(dirs)
    BY <1>1
  <1>3. QED
    BY <1>2, SoundThen

-----------------------------------------------------------------------------
(* A thread begins to write.                                                *)

LEMMA MarkingBegins ==
  ASSUME NEW c, NEW a \in ArtifactSets, NEW p \in ClaimPolicies \cup {None}, NEW x \in BOOLEAN,
         NEW s \in {"not_extracted", "attempted"},
         NEW w, w = [at |-> "writes", writes |-> <<To("record", SourceRecord(s, p, x))>>,
                     made |-> Nothing]
  PROVE  w \in Works /\ ThreadHolds(c, a, w, p, x)
  <1>1. SourceRecord(s, p, x) \in Records
    BY DEF SourceRecord, Records, Version
  <1>2. To("record", SourceRecord(s, p, x)) \in Writes
    BY <1>1, TheFiles, RecordIsWrite
  <1>3. w \in Works
    BY <1>2, NothingIsYield DEF Works
  <1>4. w.at = "writes" /\ w.made.from = None /\ Marking(w.writes, p, x)
    BY NothingIsYield DEF Marking
  <1>5. QED
    BY <1>3, <1>4 DEF ThreadHolds

LEMMA FailingBegins ==
  ASSUME NEW c, NEW a \in ArtifactSets, NEW p \in ClaimPolicies \cup {None}, NEW x \in BOOLEAN,
         ~IsCompleted(a["record"]),
         NEW w, w = [at |-> "writes",
                     writes |-> <<To("record", SourceRecord("failed", p, x)),
                                  To("claims", [from |-> None])>>,
                     made |-> Nothing]
  PROVE  w \in Works /\ ThreadHolds(c, a, w, p, x)
  <1>1. SourceRecord("failed", p, x) \in Records
    BY DEF SourceRecord, Records, Version
  <1>2. To("record", SourceRecord("failed", p, x)) \in Writes
    BY <1>1, RecordIsWrite
  <1>3. To("claims", [from |-> None]) \in Writes
    <2>1. [from |-> None] \in FilesOf("claims")
      BY DEF FilesOf
    <2>2. QED
      BY <2>1, ValueIsWrite, TheFiles
  <1>4. PICK r, k : r = To("record", SourceRecord("failed", p, x)) /\ k = To("claims", [from |-> None])
    OBVIOUS
  <1>5. w = [at |-> "writes", writes |-> <<r, k>>, made |-> Nothing] /\ r \in Writes /\ k \in Writes
    BY <1>2, <1>3, <1>4
  <1>6. w \in Works
    BY <1>5, NothingIsYield DEF Works
  <1>7. w.at = "writes" /\ w.made.from = None /\ w.writes = <<r, k>>
    BY <1>5, NothingIsYield
  <1>8. Failing(a, w.writes, p, x)
    BY <1>4, <1>7 DEF Failing
  <1>9. QED
    BY <1>6, <1>7, <1>8 DEF ThreadHolds

LEMMA ExtractionBegins ==
  ASSUME NEW c, NEW a \in ArtifactSets, NEW p \in ClaimPolicies \cup {None}, NEW x \in BOOLEAN,
         ~IsCompleted(a["record"]),
         NEW q \in AllProposals, InputsAgree /\ x => q \in ProposalsFor[p.text],
         NEW m, m = Assemble(q, p),
         NEW w, w = [at |-> "writes",
                     writes |-> <<To("claims", ClaimsFile(m)), To("cards", CardsFile(m)),
                                  To("nodes", NodesFile(m)),
                                  To("record", SourceRecord("completed", p, x))>>,
                     made |-> m]
  PROVE  w \in Works /\ ThreadHolds(c, a, w, p, x)
  <1>1. m \in Yields /\ Counted(p, x, m)
    BY AssembleSound DEF Counted
  <1>2. PICK k, d, n, r : /\ k = To("claims", ClaimsFile(m)) /\ d = To("cards", CardsFile(m))
                          /\ n = To("nodes", NodesFile(m))
                          /\ r = To("record", SourceRecord("completed", p, x))
    OBVIOUS
  <1>3. /\ k.file = "claims" /\ k.value = Wanted("claims", p, x, m) /\ k \in Writes
        /\ d.file = "cards" /\ d.value = Wanted("cards", p, x, m) /\ d \in Writes
        /\ n.file = "nodes" /\ n.value = Wanted("nodes", p, x, m) /\ n \in Writes
        /\ r.file = "record" /\ r.value = Wanted("record", p, x, m) /\ r \in Writes
    <2>1. /\ k = To("claims", Wanted("claims", p, x, m)) /\ d = To("cards", Wanted("cards", p, x, m))
          /\ n = To("nodes", Wanted("nodes", p, x, m)) /\ r = To("record", Wanted("record", p, x, m))
      BY <1>2 DEF Wanted
    <2>2. ASSUME NEW f \in ArtifactFiles PROVE To(f, Wanted(f, p, x, m)) \in Writes
      BY <1>1, WantedTypes, ValueIsWrite
    <2>3. QED
      BY <2>1, <2>2, TheFiles DEF To
  <1>4. w.at = "writes" /\ w.made = m /\ w.writes = <<k, d, n, r>>
    BY <1>2
  <1>5. w \in Works
    <2>1. w.writes \in Seq(Writes)
      BY <1>3, <1>4
    <2>2. QED
      BY <1>1, <1>4, <2>1 DEF Works
  <1>6. DOMAIN w.writes = 1..4 /\ w.writes # <<>> /\ Len(w.writes) = 4
    BY <1>4
  <1>7. /\ w.writes[1] = k /\ w.writes[2] = d /\ w.writes[3] = n /\ w.writes[4] = r
    BY <1>4
  <1>8. ASSUME NEW i \in DOMAIN w.writes
        PROVE  /\ w.writes[i].value = Wanted(w.writes[i].file, p, x, m)
               /\ w.writes[i].file = "record" <=> i = Len(w.writes)
    <2>1. i = 1 \/ i = 2 \/ i = 3 \/ i = 4
      BY <1>6
    <2>2. QED
      BY <1>3, <1>6, <1>7, <2>1
  <1>9. ASSUME NEW f \in ArtifactFiles PROVE \E i \in DOMAIN w.writes : w.writes[i].file = f
    BY <1>3, <1>6, <1>7 DEF ArtifactFiles
  <1>10. Extracting(a, w.writes, p, x, m)
    BY <1>1, <1>6, <1>8, <1>9 DEF Extracting, Remaining
  <1>11. QED
    BY <1>4, <1>5, <1>10 DEF ThreadHolds

\* Who the directories of a run say a candidate is.
LEMMA CategoryOf ==
  ASSUME InputsAgree, NEW dirs \in Seq(Directories), NEW c \in CandidatesIn(dirs)
  PROVE  c \in Practitioners <=> EntryOf(dirs, c).category = "practitioner"
  <1>1. PICK entry : entry = EntryOf(dirs, c)
    OBVIOUS
  <1>2. PICK d \in Directories : entry \in EntriesIn(d) /\ entry.id = c
    BY <1>1, EntryFound, DirectoryAt
  <1>3. ASSUME entry.category = "practitioner" PROVE c \in Practitioners
    BY <1>2, <1>3 DEF Practitioners
  <1>4. ASSUME c \in Practitioners PROVE entry.category = "practitioner"
    <2>1. PICK f : /\ f \in UNION {EntriesIn(b) : b \in Directories}
                   /\ f.category = "practitioner" /\ c = f.id
      BY <1>4 DEF Practitioners
    <2>2. PICK b \in Directories : f \in EntriesIn(b)
      BY <2>1
    <2>3. QED
      BY <1>2, <2>1, <2>2 DEF InputsAgree
  <1>5. QED
    BY <1>1, <1>3, <1>4

LEMMA CategoryListed ==
  ASSUME NEW dirs \in Seq(Directories), NEW c \in CandidatesIn(dirs),
         EntryOf(dirs, c).category = "practitioner"
  PROVE  c \in Practitioners
  <1>1. PICK entry : entry = EntryOf(dirs, c)
    OBVIOUS
  <1>2. PICK d \in Directories : entry \in EntriesIn(d) /\ entry.id = c
    BY <1>1, EntryFound, DirectoryAt
  <1>3. QED
    BY <1>1, <1>2 DEF Practitioners

LEMMA MigrateMade ==
  ASSUME NEW from \in AllProposals \cup {None}, NEW cards \in SUBSET Cards,
         NEW nodes \in SUBSET NodeCandidates, NEW links \in SUBSET LinkCandidates,
         NEW category, NEW policy, NEW m, m = Migrate(Made(from, cards, nodes, links), category, policy)
  PROVE  Migrated(Made(from, cards, nodes, links), category, policy, m)
  BY MadeIsYield, MigrateSound

\* What is reused is of the extraction that the record vouches for, freed of what is no
\* longer admitted.
LEMMA ReusedSound ==
  ASSUME NEW dirs \in Seq(Directories), NEW c \in CandidatesIn(dirs),
         NEW a \in ArtifactSets, NEW p,
         Whole(c, a), IsCompleted(a["record"]), a["record"].policy = p,
         \A f \in ResultFiles : a[f] \notin {None, Torn},
         NEW m,
         m = Migrate(Made(a["cards"].from, a["cards"].cards, a["nodes"].nodes, a["nodes"].links),
                     EntryOf(dirs, c).category, p)
  PROVE  /\ a["record"].executed \in BOOLEAN /\ m \in Yields
         /\ \A f \in ResultFiles : a[f].from = m.from
         /\ Counted(p, a["record"].executed, m)
         /\ p = None /\ c \notin Practitioners => a["cards"].cards = m.cards
  <1>1. PICK e \in BOOLEAN : e = a["record"].executed
    BY FileTypes DEF IsCompleted, Records
  <1>2. PICK category : category = EntryOf(dirs, c).category
    OBVIOUS
  <1>3. PICK from \in AllProposals \cup {None}, cards \in SUBSET Cards,
            nodes \in SUBSET NodeCandidates, links \in SUBSET LinkCandidates :
          /\ from = a["cards"].from /\ cards = a["cards"].cards
          /\ nodes = a["nodes"].nodes /\ links = a["nodes"].links
    BY FileTypes, TheFiles
  <1>4. m = Migrate(Made(from, cards, nodes, links), category, p)
    BY <1>2, <1>3
  <1>5. /\ m \in Yields /\ m.from = from /\ m.cards = Permitted(m.cards, p)
        /\ Freed(category, p) \/ Rests(cards, nodes \cup links) => Rests(m.cards, m.nodes \cup m.links)
        /\ ~Freed(category, p) => m.cards = cards
    <2>1. Migrated(Made(from, cards, nodes, links), category, p, m)
      BY <1>4, MigrateMade
    <2>2. QED
      BY <2>1 DEF Migrated, Made
  <1>6. \A f \in ResultFiles : a[f].from = m.from
    BY <1>3, <1>5, TheFiles DEF Whole
  <1>7. Counted(p, e, m)
    <2>1. ASSUME InputsAgree PROVE Rests(m.cards, m.nodes \cup m.links)
      <3>1. CASE ~Freed(category, p)
        <4>1. c \notin Practitioners
          BY <1>2, <2>1, <3>1, CategoryOf DEF Freed
        <4>2. Rests(cards, nodes \cup links)
          BY <1>3, <2>1, <3>1, <4>1, TheFiles DEF Whole, Freed
        <4>3. QED
          BY <1>5, <4>2
      <3>2. QED
        BY <1>5, <3>1
    <2>2. ASSUME InputsAgree, e PROVE m.from \in ProposalsFor[p.text]
      BY <1>1, <1>6, <2>2, TheFiles DEF Whole
    <2>3. QED
      BY <1>5, <2>1, <2>2 DEF Counted
  <1>8. p = None /\ c \notin Practitioners => a["cards"].cards = m.cards
    BY <1>2, <1>3, <1>5, CategoryListed DEF Freed
  <1>9. QED
    BY <1>1, <1>5, <1>6, <1>7, <1>8

LEMMA ReuseBegins ==
  ASSUME NEW dirs \in Seq(Directories), NEW c \in CandidatesIn(dirs),
         NEW a \in ArtifactSets, NEW p \in ClaimPolicies \cup {None}, NEW x \in BOOLEAN,
         Whole(c, a), IsCompleted(a["record"]), a["record"].policy = p,
         \A f \in ResultFiles : a[f] \notin {None, Torn},
         NEW was, was = Made(a["cards"].from, a["cards"].cards, a["nodes"].nodes, a["nodes"].links),
         NEW m, m = Migrate(was, EntryOf(dirs, c).category, p),
         NEW w, w = [at |-> "writes",
                     writes |-> <<To("record", [a["record"] EXCEPT !.version = Version]),
                                  To("cards", CardsFile(m)),
                                  To("nodes", [NodesFile(m) EXCEPT !.from = a["nodes"].from]),
                                  To("claims", a["claims"])>>,
                     made |-> m]
  PROVE  w \in Works /\ ThreadHolds(c, a, w, p, x)
  <1>1. PICK e : e = a["record"].executed
    OBVIOUS
  <1>2. m = Migrate(Made(a["cards"].from, a["cards"].cards, a["nodes"].nodes, a["nodes"].links),
                    EntryOf(dirs, c).category, p)
    OBVIOUS
  <1>4. /\ a["record"].executed \in BOOLEAN /\ m \in Yields
        /\ \A f \in ResultFiles : a[f].from = m.from
        /\ Counted(p, a["record"].executed, m)
        /\ p = None /\ c \notin Practitioners => a["cards"].cards = m.cards
    BY <1>2, ReusedSound
  <1>5. e \in BOOLEAN /\ m \in Yields
    BY <1>1, <1>4
  <1>6. \A f \in ResultFiles : a[f].from = m.from
    BY <1>4
  <1>7. Counted(p, e, m)
    BY <1>1, <1>4
  <1>8. p = None /\ c \notin Practitioners => a["cards"].cards = m.cards
    BY <1>4
  <1>9. PICK r, d, n, k : /\ r = To("record", [a["record"] EXCEPT !.version = Version])
                          /\ d = To("cards", CardsFile(m))
                          /\ n = To("nodes", [NodesFile(m) EXCEPT !.from = a["nodes"].from])
                          /\ k = To("claims", a["claims"])
    OBVIOUS
  <1>10. /\ r.file = "record" /\ r.value = Wanted("record", p, e, m) /\ r \in Writes
         /\ d.file = "cards" /\ d.value = Wanted("cards", p, e, m) /\ d \in Writes
         /\ n.file = "nodes" /\ n.value = Wanted("nodes", p, e, m) /\ n \in Writes
         /\ k.file = "claims" /\ k.value = Wanted("claims", p, e, m) /\ k \in Writes
    <2>1. [a["record"] EXCEPT !.version = Version] = SourceRecord("completed", p, e)
      <3>1. a["record"] \in Records /\ a["record"].status = "completed"
        BY FileTypes DEF IsCompleted
      <3>2. PICK u \in Records : u = a["record"]
        BY <3>1
      <3>3. [u EXCEPT !.version = Version] = SourceRecord("completed", p, e)
        BY <1>1, <1>5, <3>1, <3>2 DEF Records, SourceRecord
      <3>4. QED
        BY <3>2, <3>3
    <2>2. [NodesFile(m) EXCEPT !.from = a["nodes"].from] = NodesFile(m)
      BY <1>6, TheFiles DEF NodesFile
    <2>3. a["claims"] = ClaimsFile(m)
      BY <1>6, FileTypes, TheFiles DEF ClaimsFile
    <2>4. /\ k = To("claims", Wanted("claims", p, e, m)) /\ d = To("cards", Wanted("cards", p, e, m))
          /\ n = To("nodes", Wanted("nodes", p, e, m)) /\ r = To("record", Wanted("record", p, e, m))
      BY <1>9, <2>1, <2>2, <2>3 DEF Wanted
    <2>5. ASSUME NEW f \in ArtifactFiles PROVE To(f, Wanted(f, p, e, m)) \in Writes
      BY <1>5, WantedTypes, ValueIsWrite
    <2>6. QED
      BY <2>4, <2>5, TheFiles DEF To
  <1>11. w.at = "writes" /\ w.made = m /\ w.writes = <<r, d, n, k>>
    BY <1>9
  <1>12. w \in Works
    <2>1. w.writes \in Seq(Writes)
      <3>1. r \in Writes /\ d \in Writes /\ n \in Writes /\ k \in Writes
        BY <1>10
      <3>2. <<r, d, n, k>> \in Seq(Writes)
        BY <3>1
      <3>3. QED
        BY <1>11, <3>2
    <2>2. w = [at |-> "writes", writes |-> w.writes, made |-> m]
      BY <1>11
    <2>3. QED
      BY <1>5, <2>1, <2>2 DEF Works
  <1>13. DOMAIN w.writes = 1..4 /\ w.writes # <<>>
    BY <1>11
  <1>14. /\ w.writes[1] = r /\ w.writes[2] = d /\ w.writes[3] = n /\ w.writes[4] = k
    BY <1>11
  <1>15. ASSUME NEW i \in DOMAIN w.writes
         PROVE  w.writes[i].value = Wanted(w.writes[i].file, p, e, m)
    <2>1. i = 1 \/ i = 2 \/ i = 3 \/ i = 4
      BY <1>13
    <2>2. QED
      BY <1>10, <1>14, <2>1
  <1>16. ASSUME NEW f \in ArtifactFiles PROVE \E i \in DOMAIN w.writes : w.writes[i].file = f
    BY <1>10, <1>13, <1>14 DEF ArtifactFiles
  <1>17. Reusing(c, a, w.writes, p, m)
    <2>1. Remaining(a, w.writes, p, e, m)
      BY <1>15, <1>16 DEF Remaining
    <2>2. QED
      BY <1>1, <1>5, <1>6, <1>7, <1>8, <1>13, <2>1 DEF Reusing
  <1>18. QED
    BY <1>11, <1>12, <1>17 DEF ThreadHolds

-----------------------------------------------------------------------------
(* The invariant of the runner.                                             *)

JobHolds ==
  job # None =>
    /\ PoliciesSound(job.dirs)
    /\ job.executed => \A d \in ToSet(job.dirs) : d \in Ledgers /\ Verifies(d)
    /\ job.at \in {"ingest", "report"} =>
         /\ \A c \in DOMAIN job.work : job.work[c].at = "done"
         /\ outputs["manifest"] = Points(Extracted) \/ Points(Extracted) = {}

FilesHold == \A c \in Candidates : Whole(c, artifacts[c])

ThreadsHold ==
  job # None =>
    \A c \in DOMAIN job.work : ThreadHolds(c, artifacts[c], job.work[c], Policy(c), job.executed)

\* GLM is asked, or about to be, of a text only.
Asking(w, p, x) ==
  \/ w.at = "asks"
  \/ w.at = "writes" /\ \E i \in DOMAIN w.writes :
                         w.writes[i] = To("record", SourceRecord("attempted", p, x))

TextsHold ==
  job # None =>
    \A c \in DOMAIN job.work :
      Asking(job.work[c], Policy(c), job.executed) => None \notin AcquiredTexts(job.dirs, c)

RunnerSafe == RunnerTypeOK /\ JobHolds /\ FilesHold /\ ThreadsHold /\ TextsHold

LEMMA CandidatesKnown ==
  ASSUME NEW dirs \in Seq(Directories)
  PROVE  CandidatesIn(dirs) \in SUBSET Candidates
  <1>1. ASSUME NEW c \in CandidatesIn(dirs) PROVE c \in Candidates
    <2>1. PICK d \in ToSet(dirs) : \E e \in EntriesIn(d) : e.id = c
      BY DEF CandidatesIn
    <2>2. QED
      BY <2>1, DirectoryAt, EntryTypes
  <1>2. QED
    BY <1>1

LEMMA JobTypes ==
  ASSUME RunnerSafe, job # None
  PROVE  /\ job.dirs \in Seq(Directories) /\ job.executed \in BOOLEAN
         /\ job \in Jobs(DOMAIN job.work) /\ DOMAIN job.work \in SUBSET Candidates
         /\ DOMAIN job.work = CandidatesIn(job.dirs)
         /\ preparing = None
         /\ \A c \in DOMAIN job.work :
              /\ c \in Candidates /\ job.work[c] \in Works /\ artifacts[c] \in ArtifactSets
              /\ Policy(c) \in ClaimPolicies \cup {None} /\ Whole(c, artifacts[c])
              /\ ThreadHolds(c, artifacts[c], job.work[c], Policy(c), job.executed)
  <1>1. PICK S : S = CandidatesIn(job.dirs)
    OBVIOUS
  <1>2. job \in Jobs(S) /\ preparing = None /\ artifacts \in [Candidates -> ArtifactSets]
    BY <1>1 DEF RunnerSafe, RunnerTypeOK
  <1>3. job.dirs \in Seq(Directories) /\ job.executed \in BOOLEAN
        /\ DOMAIN job.work = S /\ \A c \in S : job.work[c] \in Works
    BY <1>2 DEF Jobs
  <1>4. PICK dirs \in Seq(Directories) : dirs = job.dirs
    BY <1>3
  <1>5. S \in SUBSET Candidates
    BY <1>1, <1>4, CandidatesKnown
  <1>6. ASSUME NEW c \in S PROVE Policy(c) \in ClaimPolicies \cup {None}
    <2>1. PoliciesSound(dirs)
      BY <1>4 DEF RunnerSafe, JobHolds
    <2>2. PolicyFor(dirs, c) \in ClaimPolicies \cup {None}
      BY <2>1, PolicyFound
    <2>3. QED
      BY <1>4, <2>2 DEF Policy
  <1>7. ASSUME NEW c \in S
        PROVE  Whole(c, artifacts[c])
               /\ ThreadHolds(c, artifacts[c], job.work[c], Policy(c), job.executed)
    BY <1>3, <1>5, <1>7 DEF RunnerSafe, FilesHold, ThreadsHold
  <1>8. QED
    BY <1>1, <1>2, <1>3, <1>5, <1>6, <1>7

LEMMA TurnTyped ==
  ASSUME NEW S, NEW j \in Jobs(S), NEW c \in S, NEW w \in Works,
         NEW k, k = [j EXCEPT !.work[c] = w]
  PROVE  /\ k \in Jobs(S) /\ k.dirs = j.dirs /\ k.executed = j.executed /\ k.at = j.at
         /\ DOMAIN k.work = S /\ k.work[c] = w /\ \A b \in S \ {c} : k.work[b] = j.work[b]
  <1>1. PICK f \in [S -> Works] : f = j.work
    BY DEF Jobs
  <1>2. PICK g \in [S -> Works] : g = [f EXCEPT ![c] = w]
    OBVIOUS
  <1>3. k = [j EXCEPT !.work = g]
    BY <1>1, <1>2
  <1>4. k \in Jobs(S) /\ k.dirs = j.dirs /\ k.executed = j.executed /\ k.at = j.at /\ k.work = g
    BY <1>3 DEF Jobs
  <1>5. QED
    BY <1>1, <1>2, <1>4

\* A thread's turn disturbs nothing but the thread and its files.
LEMMA ThreadTurn ==
  ASSUME RunnerSafe, job # None, NEW c \in DOMAIN job.work, job.work[c].at # "done",
         NEW w \in Works, NEW a \in ArtifactSets,
         job' = [job EXCEPT !.work[c] = w], artifacts' = [artifacts EXCEPT ![c] = a],
         Whole(c, a), ThreadHolds(c, a, w, Policy(c), job.executed),
         Asking(w, Policy(c), job.executed) => None \notin AcquiredTexts(job.dirs, c),
         UNCHANGED <<inputVars, outputs, jobsBegun>>
  PROVE  RunnerSafe'
  <1>1. PICK S, j : S = DOMAIN job.work /\ j = job
    OBVIOUS
  <1>2. j \in Jobs(S) /\ S \in SUBSET Candidates /\ c \in S
    BY <1>1, JobTypes
  <1>3. /\ job' \in Jobs(S) /\ job'.dirs = job.dirs /\ job'.executed = job.executed /\ job'.at = job.at
        /\ DOMAIN job'.work = S /\ job'.work[c] = w /\ \A b \in S \ {c} : job'.work[b] = job.work[b]
    <2>1. PICK k : k = job'
      OBVIOUS
    <2>2. k = [j EXCEPT !.work[c] = w]
      BY <1>1, <2>1
    <2>3. QED
      BY <1>1, <1>2, <2>1, <2>2, TurnTyped
  <1>4. /\ artifacts \in [Candidates -> ArtifactSets]
        /\ artifacts' \in [Candidates -> ArtifactSets] /\ artifacts'[c] = a
        /\ \A b \in Candidates \ {c} : artifacts'[b] = artifacts[b]
    BY <1>2 DEF RunnerSafe, RunnerTypeOK
  <1>5. job' # None
    BY <1>2, <1>3, AbsentJob
  <1>6. S = CandidatesIn(job.dirs) /\ preparing = None
    BY <1>1, JobTypes
  <1>7. CandidatesIn(job.dirs)' = CandidatesIn(job.dirs)
    BY <1>3 DEF CandidatesIn, EntriesIn
  <1>8. inputs' = inputs /\ preparing' = preparing /\ outputs' = outputs /\ jobsBegun' = jobsBegun
    BY DEF inputVars
  <1>9. RunnerTypeOK'
    <2>1. InputTypeOK'
      BY <1>8 DEF RunnerSafe, RunnerTypeOK, InputTypeOK
    <2>2. QED
      BY <1>3, <1>4, <1>6, <1>7, <1>8, <2>1 DEF RunnerSafe, RunnerTypeOK
  <1>10. JobHolds'
    <2>1. PoliciesSound(job.dirs) /\ (job.executed => \A d \in ToSet(job.dirs) : d \in Ledgers /\ Verifies(d))
          /\ job.at \notin {"ingest", "report"}
      BY DEF RunnerSafe, JobHolds
    <2>2. PoliciesSound(job.dirs)'
      BY <1>3, <1>8, <2>1, SoundKept
    <2>3. (job.executed => \A d \in ToSet(job.dirs) : d \in Ledgers /\ Verifies(d))'
      BY <1>3, <1>8, <2>1, VerifiesKept
    <2>4. QED
      BY <1>3, <2>1, <2>2, <2>3 DEF JobHolds
  <1>11. FilesHold'
    BY <1>4 DEF RunnerSafe, FilesHold
  <1>12. ThreadsHold'
    <2>1. ASSUME NEW b \in S
          PROVE  ThreadHolds(b, artifacts'[b], job'.work[b], Policy(b)', job'.executed)
      <3>1. Policy(b)' = Policy(b)
        BY <1>3, <1>8, PolicyKept
      <3>2. CASE b = c
        BY <1>3, <1>4, <3>1, <3>2
      <3>3. CASE b # c
        <4>1. artifacts'[b] = artifacts[b] /\ job'.work[b] = job.work[b]
          BY <1>2, <1>3, <1>4, <3>3
        <4>2. ThreadHolds(b, artifacts[b], job.work[b], Policy(b), job.executed)
          BY <1>1, JobTypes
        <4>3. QED
          BY <1>3, <3>1, <4>1, <4>2
      <3>4. QED
        BY <3>2, <3>3
    <2>2. QED
      BY <1>3, <2>1 DEF ThreadsHold
  <1>13. TextsHold'
    <2>1. ASSUME NEW b \in S, Asking(job'.work[b], Policy(b)', job'.executed)
          PROVE  None \notin AcquiredTexts(job.dirs, b)'
      <3>1. Policy(b)' = Policy(b)
        BY <1>3, <1>8, PolicyKept
      <3>2. AcquiredTexts(job.dirs, b)' = AcquiredTexts(job.dirs, b)
        BY <1>3
      <3>3. CASE b = c
        BY <1>3, <2>1, <3>1, <3>2, <3>3
      <3>4. CASE b # c
        BY <1>1, <1>3, <2>1, <3>1, <3>2, <3>4 DEF RunnerSafe, TextsHold
      <3>5. QED
        BY <3>3, <3>4
    <2>2. QED
      BY <1>3, <2>1 DEF TextsHold
  <1>14. QED
    BY <1>9, <1>10, <1>11, <1>12, <1>13 DEF RunnerSafe

\* A thread that only begins, or raises: its files are as they were.
LEMMA ThreadTurned ==
  ASSUME RunnerSafe, job # None, NEW c \in DOMAIN job.work, job.work[c].at # "done",
         NEW w \in Works, job' = [job EXCEPT !.work[c] = w],
         ThreadHolds(c, artifacts[c], w, Policy(c), job.executed),
         Asking(w, Policy(c), job.executed) => None \notin AcquiredTexts(job.dirs, c),
         UNCHANGED <<inputVars, artifacts, outputs, jobsBegun>>
  PROVE  RunnerSafe'
  <1>1. artifacts[c] \in ArtifactSets /\ Whole(c, artifacts[c]) /\ c \in Candidates
    BY JobTypes
  <1>2. artifacts' = [artifacts EXCEPT ![c] = artifacts[c]]
    BY <1>1 DEF RunnerSafe, RunnerTypeOK
  <1>3. PICK a \in ArtifactSets : a = artifacts[c]
    BY <1>1
  <1>4. artifacts' = [artifacts EXCEPT ![c] = a] /\ Whole(c, a)
        /\ ThreadHolds(c, a, w, Policy(c), job.executed)
    BY <1>1, <1>2, <1>3
  <1>5. UNCHANGED <<inputVars, outputs, jobsBegun>>
    OBVIOUS
  <1>6. QED
    BY <1>4, <1>5, ThreadTurn

LEMMA UnavailableSafe ==
  ASSUME RunnerSafe, NEW c, RecordUnavailable(c)
  PROVE  RunnerSafe'
  <1>1. job # None /\ c \in DOMAIN job.work /\ job.work[c].at # "done"
    BY DEF RecordUnavailable, StartsNext
  <1>2. PICK a \in ArtifactSets, p \in ClaimPolicies \cup {None}, x \in BOOLEAN :
          a = artifacts[c] /\ p = Policy(c) /\ x = job.executed
    BY <1>1, JobTypes
  <1>3. PICK w : w = [at |-> "writes", writes |-> <<To("record", SourceRecord("not_extracted", p, x))>>,
                      made |-> Nothing]
    OBVIOUS
  <1>4. w \in Works /\ ThreadHolds(c, a, w, p, x)
    BY <1>3, MarkingBegins
  <1>5. ~Asking(w, p, x)
    BY <1>3 DEF Asking, To, SourceRecord
  <1>6. job' = [job EXCEPT !.work[c] = w] /\ UNCHANGED <<inputVars, artifacts, outputs, jobsBegun>>
    BY <1>2, <1>3 DEF RecordUnavailable, Turn, Record
  <1>7. QED
    BY <1>1, <1>2, <1>4, <1>5, <1>6, ThreadTurned

LEMMA TornSafe ==
  ASSUME RunnerSafe, NEW c, CacheTorn(c)
  PROVE  RunnerSafe'
  <1>1. job # None /\ c \in DOMAIN job.work /\ job.work[c].at # "done"
    BY DEF CacheTorn, StartsNext
  <1>2. PICK w : w = [at |-> "raised", writes |-> <<>>, made |-> Nothing]
    OBVIOUS
  <1>3. w \in Works
    BY <1>2, NothingIsYield DEF Works
  <1>4. ThreadHolds(c, artifacts[c], w, Policy(c), job.executed)
        /\ ~Asking(w, Policy(c), job.executed)
    BY <1>2 DEF ThreadHolds, Asking
  <1>5. job' = [job EXCEPT !.work[c] = w] /\ UNCHANGED <<inputVars, artifacts, outputs, jobsBegun>>
    BY <1>2 DEF CacheTorn, Turn
  <1>6. QED
    BY <1>1, <1>3, <1>4, <1>5, ThreadTurned

LEMMA AttemptSafe ==
  ASSUME RunnerSafe, NEW c, Attempt(c)
  PROVE  RunnerSafe'
  <1>1. /\ job # None /\ c \in DOMAIN job.work /\ job.work[c].at # "done"
        /\ None \notin AcquiredTexts(job.dirs, c)
    BY DEF Attempt, StartsNext
  <1>2. PICK a \in ArtifactSets, p \in ClaimPolicies \cup {None}, x \in BOOLEAN :
          a = artifacts[c] /\ p = Policy(c) /\ x = job.executed
    BY <1>1, JobTypes
  <1>3. PICK w : w = [at |-> "writes", writes |-> <<To("record", SourceRecord("attempted", p, x))>>,
                      made |-> Nothing]
    OBVIOUS
  <1>4. w \in Works /\ ThreadHolds(c, a, w, p, x)
    BY <1>3, MarkingBegins
  <1>5. job' = [job EXCEPT !.work[c] = w] /\ UNCHANGED <<inputVars, artifacts, outputs, jobsBegun>>
    BY <1>2, <1>3 DEF Attempt, Turn, Record
  <1>6. QED
    BY <1>1, <1>2, <1>4, <1>5, ThreadTurned

LEMMA FailsSafe ==
  ASSUME RunnerSafe, NEW c, ExtractionFails(c)
  PROVE  RunnerSafe'
  <1>1. /\ job # None /\ c \in DOMAIN job.work /\ job.work[c].at = "asks"
    BY DEF ExtractionFails
  <1>2. PICK a \in ArtifactSets, p \in ClaimPolicies \cup {None}, x \in BOOLEAN :
          a = artifacts[c] /\ p = Policy(c) /\ x = job.executed
    BY <1>1, JobTypes
  <1>3. ~IsCompleted(a["record"])
    BY <1>1, <1>2, JobTypes DEF ThreadHolds
  <1>4. PICK w : w = [at |-> "writes",
                      writes |-> <<To("record", SourceRecord("failed", p, x)),
                                   To("claims", [from |-> None])>>,
                      made |-> Nothing]
    OBVIOUS
  <1>5. w \in Works /\ ThreadHolds(c, a, w, p, x)
    BY <1>3, <1>4, FailingBegins
  <1>6. None \notin AcquiredTexts(job.dirs, c)
    BY <1>1 DEF RunnerSafe, TextsHold, Asking
  <1>7. job' = [job EXCEPT !.work[c] = w] /\ UNCHANGED <<inputVars, artifacts, outputs, jobsBegun>>
    BY <1>2, <1>4 DEF ExtractionFails, Turn, Record
  <1>8. QED
    BY <1>1, <1>2, <1>5, <1>6, <1>7, ThreadTurned

LEMMA SucceedsSafe ==
  ASSUME RunnerSafe, NEW c, ExtractionSucceeds(c)
  PROVE  RunnerSafe'
  <1>1. /\ job # None /\ c \in DOMAIN job.work /\ job.work[c].at = "asks"
    BY DEF ExtractionSucceeds
  <1>2. PICK a \in ArtifactSets, p \in ClaimPolicies \cup {None}, x \in BOOLEAN,
             dirs \in Seq(Directories) :
          a = artifacts[c] /\ p = Policy(c) /\ x = job.executed /\ dirs = job.dirs
    BY <1>1, JobTypes
  <1>3. ~IsCompleted(a["record"])
    BY <1>1, <1>2, JobTypes DEF ThreadHolds
  <1>4. None \notin AcquiredTexts(job.dirs, c)
    BY <1>1 DEF RunnerSafe, TextsHold, Asking
  <1>5. PICK y \in AcquiredTexts(dirs, c) : \E q \in ProposalsFor[y] :
          LET m == Assemble(q, p)
          IN job' = [job EXCEPT !.work[c] = [at |-> "writes", writes |-> ExtractionWrites(c, m), made |-> m]]
    BY <1>2 DEF ExtractionSucceeds, Turn
  <1>6. PICK q \in ProposalsFor[y] :
          LET m == Assemble(q, p)
          IN job' = [job EXCEPT !.work[c] = [at |-> "writes", writes |-> ExtractionWrites(c, m), made |-> m]]
    BY <1>5
  <1>7. PICK m : m = Assemble(q, p)
    OBVIOUS
  <1>8. PICK w : w = [at |-> "writes",
                      writes |-> <<To("claims", ClaimsFile(m)), To("cards", CardsFile(m)),
                                   To("nodes", NodesFile(m)),
                                   To("record", SourceRecord("completed", p, x))>>,
                      made |-> m]
    OBVIOUS
  <1>9. q \in AllProposals
    <2>1. y # None
      BY <1>2, <1>4
    <2>2. QED
      BY <2>1, AcquiredIsText
  <1>10. ASSUME InputsAgree, x PROVE q \in ProposalsFor[p.text]
    <2>1. PoliciesSound(dirs) /\ \A d \in ToSet(dirs) : d \in Ledgers /\ Verifies(d)
      BY <1>1, <1>2, <1>10 DEF RunnerSafe, JobHolds
    <2>2. c \in CandidatesIn(dirs)
      BY <1>1, <1>2, JobTypes
    <2>3. y = PolicyFor(dirs, c).text
      BY <1>10, <2>1, <2>2, AcquiredIsCommitted
    <2>4. QED
      BY <1>2, <2>3 DEF Policy
  <1>11. w \in Works /\ ThreadHolds(c, a, w, p, x)
    BY <1>3, <1>7, <1>8, <1>9, <1>10, ExtractionBegins
  <1>12. job' = [job EXCEPT !.work[c] = w] /\ UNCHANGED <<inputVars, artifacts, outputs, jobsBegun>>
    BY <1>2, <1>6, <1>7, <1>8 DEF ExtractionSucceeds, ExtractionWrites, Record
  <1>13. QED
    BY <1>1, <1>2, <1>4, <1>11, <1>12, ThreadTurned

LEMMA AskingBefore ==
  ASSUME NEW c, NEW a, NEW w, NEW p, NEW x, Writing(c, a, w, p, x), ThreadHolds(c, a, w, p, x),
         Asking(Onward(w, p, x), p, x)
  PROVE  Asking(w, p, x)
  <1>1. w.writes \in Seq(Writes) /\ w.at = "writes"
    BY DEF Writing, Works
  <1>2. w.writes # <<>>
    BY <1>1 DEF ThreadHolds, Marking, Failing, Extracting, Reusing
  <1>3. PICK s, r : s \in Seq(Writes) /\ s = w.writes /\ r = To("record", SourceRecord("attempted", p, x))
    BY <1>1
  <1>4. s # <<>> /\ DOMAIN s = 1..Len(s) /\ Len(s) \in Nat /\ Len(s) >= 1
        /\ DOMAIN Tail(s) = 1..(Len(s) - 1) /\ \A i \in 1..(Len(s) - 1) : Tail(s)[i] = s[i + 1]
    BY <1>2, <1>3, FirstWrite
  <1>5. s[1] = r \/ \E i \in DOMAIN Tail(s) : Tail(s)[i] = r
    BY <1>3 DEF Asking, Onward
  <1>6. \E i \in DOMAIN s : s[i] = r
    <2>1. CASE s[1] = r
      BY <1>4, <2>1
    <2>2. ASSUME NEW i \in DOMAIN Tail(s), Tail(s)[i] = r PROVE \E k \in DOMAIN s : s[k] = r
      <3>1. i + 1 \in DOMAIN s /\ s[i + 1] = r
        BY <1>4, <2>2
      <3>2. QED
        BY <3>1
    <2>3. QED
      BY <1>5, <2>1, <2>2
  <1>7. QED
    BY <1>1, <1>3, <1>6 DEF Asking

LEMMA ReuseSafe ==
  ASSUME RunnerSafe, NEW c, ReuseCached(c)
  PROVE  RunnerSafe'
  <1>1. job # None /\ c \in DOMAIN job.work /\ job.work[c].at # "done"
    BY DEF ReuseCached, StartsNext
  <1>2. PICK a \in ArtifactSets, p \in ClaimPolicies \cup {None}, x \in BOOLEAN,
             dirs \in Seq(Directories) :
          a = artifacts[c] /\ p = Policy(c) /\ x = job.executed /\ dirs = job.dirs
    BY <1>1, JobTypes
  <1>3. /\ IsCompleted(a["record"]) /\ a["record"].policy = p
        /\ \A f \in ResultFiles : a[f] \notin {None, Torn}
    <2>1. /\ a["record"] # None /\ a["cards"] # None /\ a["nodes"] # None
      BY <1>2 DEF ReuseCached, Cached
    <2>2. /\ a["record"] # Torn /\ a["record"].status = "completed" /\ a["record"].policy = p
          /\ a["claims"] # None /\ Torn \notin {a["claims"], a["cards"], a["nodes"]}
      BY <1>2 DEF ReuseCached, Cacheable
    <2>3. QED
      BY <2>1, <2>2 DEF IsCompleted, ResultFiles
  <1>4. PICK was : was = Made(a["cards"].from, a["cards"].cards, a["nodes"].nodes, a["nodes"].links)
    OBVIOUS
  <1>5. PICK m : m = Migrate(was, EntryOf(dirs, c).category, p)
    OBVIOUS
  <1>6. PICK w : w = [at |-> "writes",
                      writes |-> <<To("record", [a["record"] EXCEPT !.version = Version]),
                                   To("cards", CardsFile(m)),
                                   To("nodes", [NodesFile(m) EXCEPT !.from = a["nodes"].from]),
                                   To("claims", a["claims"])>>,
                      made |-> m]
    OBVIOUS
  <1>7. c \in CandidatesIn(dirs) /\ Whole(c, a)
    BY <1>1, <1>2, JobTypes
  <1>8. w \in Works /\ ThreadHolds(c, a, w, p, x)
    BY <1>3, <1>4, <1>5, <1>6, <1>7, ReuseBegins
  <1>9. None \notin AcquiredTexts(job.dirs, c)
    BY DEF ReuseCached
  <1>10. job' = [job EXCEPT !.work[c] = w] /\ UNCHANGED <<inputVars, artifacts, outputs, jobsBegun>>
    BY <1>2, <1>4, <1>5, <1>6 DEF ReuseCached, Turn
  <1>11. QED
    BY <1>1, <1>2, <1>8, <1>9, <1>10, ThreadTurned

LEMMA WriteSafe ==
  ASSUME RunnerSafe, NEW c, WriteArtifact(c)
  PROVE  RunnerSafe'
  <1>1. job # None /\ c \in DOMAIN job.work /\ job.work[c].at = "writes"
    BY DEF WriteArtifact
  <1>2. PICK a \in ArtifactSets, w \in Works, p \in ClaimPolicies \cup {None}, x \in BOOLEAN :
          a = artifacts[c] /\ w = job.work[c] /\ p = Policy(c) /\ x = job.executed
    BY <1>1, JobTypes
  <1>3. /\ Writing(c, a, w, p, x) /\ ThreadHolds(c, a, w, p, x)
        /\ Asking(w, p, x) => None \notin AcquiredTexts(job.dirs, c)
    BY <1>1, <1>2, JobTypes DEF Writing, RunnerSafe, TextsHold
  <1>4. PICK b : b = Changed(a, w.writes[1].file, w.writes[1].value)
    OBVIOUS
  <1>5. PICK v : v = Onward(w, p, x)
    OBVIOUS
  <1>6. b \in ArtifactSets /\ v \in Works /\ Whole(c, b) /\ ThreadHolds(c, b, v, p, x)
    BY <1>3, <1>4, <1>5, WriteOnward
  <1>7. Asking(v, p, x) => Asking(w, p, x)
    BY <1>2, <1>3, <1>5, AskingBefore
  <1>8. job' = [job EXCEPT !.work[c] = v]
    BY <1>2, <1>5 DEF WriteArtifact, Turn, Record, Onward
  <1>9. artifacts' = [artifacts EXCEPT ![c] = b]
    BY <1>2, <1>4 DEF WriteArtifact, Changed
  <1>10. UNCHANGED <<inputVars, outputs, jobsBegun>>
    BY DEF WriteArtifact
  <1>11. QED
    BY <1>1, <1>2, <1>3, <1>6, <1>7, <1>8, <1>9, <1>10, ThreadTurn

LEMMA CandidateSafe ==
  ASSUME RunnerSafe, NEW c, CandidateStep(c)
  PROVE  RunnerSafe'
  BY UnavailableSafe, TornSafe, ReuseSafe, AttemptSafe, FailsSafe, SucceedsSafe, WriteSafe
     DEF CandidateStep

\* The threads are done: the run moves on, its threads and files as they were.
LEMMA MovedOn ==
  ASSUME RunnerSafe, job # None, \A c \in DOMAIN job.work : job.work[c].at = "done",
         NEW at \in {"process", "manifest", "ingest", "report"}, job' = [job EXCEPT !.at = at],
         UNCHANGED <<inputVars, artifacts, jobsBegun>>, DOMAIN outputs' = DOMAIN outputs,
         at \in {"ingest", "report"} =>
           outputs'["manifest"] = Points(Extracted) \/ Points(Extracted) = {}
  PROVE  RunnerSafe'
  <1>1. PICK S, j, k : S = DOMAIN job.work /\ j = job /\ k = job'
    OBVIOUS
  <1>2. j \in Jobs(S) /\ k = [j EXCEPT !.at = at] /\ S \in SUBSET Candidates
    BY <1>1, JobTypes
  <1>3. /\ k \in Jobs(S) /\ k.dirs = j.dirs /\ k.executed = j.executed /\ k.at = at
        /\ k.work = j.work
    BY <1>2 DEF Jobs
  <1>4. /\ job' \in Jobs(S) /\ job'.dirs = job.dirs /\ job'.executed = job.executed /\ job'.at = at
        /\ job'.work = job.work
    BY <1>1, <1>3
  <1>5. job' # None
    BY <1>2, <1>4, AbsentJob
  <1>6. S = CandidatesIn(job.dirs) /\ preparing = None
    BY <1>1, JobTypes
  <1>7. CandidatesIn(job.dirs)' = CandidatesIn(job.dirs)
    BY <1>4
  <1>8. inputs' = inputs /\ preparing' = preparing /\ jobsBegun' = jobsBegun /\ artifacts' = artifacts
    BY DEF inputVars
  <1>9. RunnerTypeOK'
    <2>1. InputTypeOK'
      BY <1>8 DEF RunnerSafe, RunnerTypeOK, InputTypeOK
    <2>2. QED
      BY <1>4, <1>6, <1>7, <1>8, <2>1 DEF RunnerSafe, RunnerTypeOK
  <1>10. JobHolds'
    <2>1. PoliciesSound(job.dirs) /\ (job.executed => \A d \in ToSet(job.dirs) : d \in Ledgers /\ Verifies(d))
      BY DEF RunnerSafe, JobHolds
    <2>2. PoliciesSound(job.dirs)'
      BY <1>4, <1>8, <2>1, SoundKept
    <2>3. (job.executed => \A d \in ToSet(job.dirs) : d \in Ledgers /\ Verifies(d))'
      BY <1>4, <1>8, <2>1, VerifiesKept
    <2>4. Points(Extracted)' = Points(Extracted)
      <3>1. Extracted' = Extracted
        BY <1>4, ExtractedKept
      <3>2. QED
        BY <3>1
    <2>5. QED
      BY <1>4, <2>2, <2>3, <2>4 DEF JobHolds
  <1>11. FilesHold'
    BY <1>8 DEF RunnerSafe, FilesHold
  <1>12. ASSUME NEW c \in S
         PROVE  /\ ThreadHolds(c, artifacts'[c], job'.work[c], Policy(c)', job'.executed)
                /\ Asking(job'.work[c], Policy(c)', job'.executed) => None \notin AcquiredTexts(job.dirs, c)'
    <2>1. Policy(c)' = Policy(c)
      BY <1>4, <1>8, PolicyKept
    <2>2. AcquiredTexts(job.dirs, c)' = AcquiredTexts(job.dirs, c)
      BY <1>4
    <2>3. QED
      BY <1>1, <1>4, <1>8, <2>1, <2>2 DEF RunnerSafe, ThreadsHold, TextsHold
  <1>13. QED
    BY <1>1, <1>4, <1>9, <1>10, <1>11, <1>12 DEF RunnerSafe, ThreadsHold, TextsHold

LEMMA PublishSafe ==
  ASSUME RunnerSafe, WriteRegistry \/ WriteManifest \/ Ingest \/ IngestFails
  PROVE  RunnerSafe'
  <1>1. /\ job # None /\ \A c \in DOMAIN job.work : job.work[c].at = "done"
        /\ UNCHANGED <<inputVars, artifacts, jobsBegun>>
    BY DEF WriteRegistry, WriteManifest, Ingest, IngestFails, Publishing
  <1>2. DOMAIN outputs = {"registry", "manifest", "receipt", "error"} /\ job.ingest \in BOOLEAN
    BY <1>1, JobTypes DEF RunnerSafe, RunnerTypeOK, Jobs
  <1>3. CASE WriteRegistry
    <2>1. job' = [job EXCEPT !.at = "manifest"] /\ DOMAIN outputs' = DOMAIN outputs
      BY <1>3 DEF WriteRegistry
    <2>2. QED
      BY <1>1, <2>1, MovedOn
  <1>4. CASE WriteManifest
    <2>1. PICK at \in {"ingest", "report"} : at = IF job.ingest THEN "ingest" ELSE "report"
      OBVIOUS
    <2>2. job' = [job EXCEPT !.at = at]
      BY <1>4, <2>1 DEF WriteManifest
    <2>3. /\ DOMAIN outputs' = DOMAIN outputs
          /\ outputs'["manifest"] = Points(Extracted) \/ Points(Extracted) = {}
      BY <1>2, <1>4 DEF WriteManifest
    <2>4. QED
      BY <1>1, <2>2, <2>3, MovedOn
  <1>5. CASE Ingest \/ IngestFails
    <2>1. job' = [job EXCEPT !.at = "report"] /\ job.at = "ingest"
      BY <1>5 DEF Ingest, IngestFails, Publishing
    <2>2. outputs["manifest"] = Points(Extracted) \/ Points(Extracted) = {}
      BY <1>1, <2>1 DEF RunnerSafe, JobHolds
    <2>3. DOMAIN outputs' = DOMAIN outputs /\ outputs'["manifest"] = outputs["manifest"]
      BY <1>2, <1>5 DEF Ingest, IngestFails
    <2>4. QED
      BY <1>1, <2>1, <2>2, <2>3, MovedOn
  <1>6. QED
    BY <1>3, <1>4, <1>5

-----------------------------------------------------------------------------
(* A run begins and ends.                                                   *)

\* Without a run only the files matter.
LEMMA NoRun ==
  ASSUME job' = None, InputTypeOK', artifacts' \in [Candidates -> ArtifactSets],
         \A c \in Candidates : Whole(c, artifacts'[c]),
         DOMAIN outputs' = {"registry", "manifest", "receipt", "error"},
         jobsBegun' \in 0..MaxJobs
  PROVE  RunnerSafe'
  BY DEF RunnerSafe, RunnerTypeOK, JobHolds, FilesHold, ThreadsHold, TextsHold

LEMMA SafeFiles ==
  ASSUME RunnerSafe
  PROVE  /\ artifacts \in [Candidates -> ArtifactSets] /\ jobsBegun \in 0..MaxJobs
         /\ \A c \in Candidates : Whole(c, artifacts[c])
         /\ DOMAIN outputs = {"registry", "manifest", "receipt", "error"}
  BY DEF RunnerSafe, RunnerTypeOK, FilesHold

LEMMA EndSafe ==
  ASSUME RunnerSafe, InputTypeOK', EndRunner
  PROVE  RunnerSafe'
  <1>1. job' = None /\ artifacts' = artifacts /\ outputs' = outputs /\ jobsBegun' = jobsBegun
    BY DEF EndRunner
  <1>2. QED
    BY <1>1, SafeFiles, NoRun

LEMMA KillSafe ==
  ASSUME RunnerSafe, InputTypeOK', KillRunner
  PROVE  RunnerSafe'
  <1>1. job # None /\ job' = None /\ jobsBegun' = jobsBegun
    BY DEF KillRunner
  <1>2. DOMAIN outputs' = DOMAIN outputs
    BY DEF KillRunner
  <1>3. PICK torn \in SUBSET {c \in DOMAIN job.work : job.work[c].at = "writes"} :
          artifacts' = [c \in Candidates |->
            IF c \in torn THEN Changed(artifacts[c], job.work[c].writes[1].file, Torn)
            ELSE artifacts[c]]
    BY DEF KillRunner, Changed
  <1>4. ASSUME NEW c \in Candidates
        PROVE  artifacts'[c] \in ArtifactSets /\ Whole(c, artifacts'[c])
    <2>1. CASE c \in torn
      <3>1. c \in DOMAIN job.work /\ job.work[c].at = "writes"
        BY <2>1
      <3>2. PICK a \in ArtifactSets, w \in Works, p \in ClaimPolicies \cup {None}, x \in BOOLEAN :
              a = artifacts[c] /\ w = job.work[c] /\ p = Policy(c) /\ x = job.executed
        BY <1>1, <3>1, JobTypes
      <3>3. Writing(c, a, w, p, x) /\ ThreadHolds(c, a, w, p, x)
        BY <1>1, <3>1, <3>2, JobTypes DEF Writing
      <3>4. PICK b : b = Changed(a, w.writes[1].file, Torn)
        OBVIOUS
      <3>5. b \in ArtifactSets /\ Whole(c, b)
        BY <3>3, <3>4, TornOnward
      <3>6. artifacts'[c] = b
        BY <1>3, <2>1, <3>2, <3>4
      <3>7. QED
        BY <3>5, <3>6
    <2>2. CASE c \notin torn
      BY <1>3, <2>2, SafeFiles
    <2>3. QED
      BY <2>1, <2>2
  <1>5. artifacts' \in [Candidates -> ArtifactSets]
    BY <1>3, <1>4
  <1>6. QED
    BY <1>1, <1>2, <1>4, <1>5, SafeFiles, NoRun

\* A run that begins has read directories whose policies are sound.
LEMMA BeginSafe ==
  ASSUME RunnerSafe, InputTypeOK', NEW dirs \in Seq(Directories), NEW forced \in SUBSET Candidates,
         NEW ingest \in BOOLEAN, NEW executed \in BOOLEAN,
         BeginRun(dirs, forced, ingest, executed),
         executed => \A d \in ToSet(dirs) : d \in Ledgers /\ Verifies(d),
         preparing' = None, jobsBegun' \in 0..MaxJobs, UNCHANGED <<inputs, artifacts, outputs>>
  PROVE  RunnerSafe'
  <1> DEFINE queued == [at |-> "queued", writes |-> <<>>, made |-> Nothing]
  <1>1. queued \in Works
    BY NothingIsYield DEF Works
  <1>2. PICK S : S = CandidatesIn(dirs)
    OBVIOUS
  <1>3. PICK k : k = [c \in S |-> queued]
    OBVIOUS
  <1>4. k \in [S -> Works] /\ \A c \in S : k[c] = queued
    BY <1>1, <1>3
  <1>5. job' = [dirs |-> dirs, forced |-> forced, ingest |-> ingest, executed |-> executed,
                at |-> "process", work |-> k]
    BY <1>2, <1>3 DEF BeginRun
  <1>6. /\ job'.dirs = dirs /\ job'.executed = executed /\ job'.at = "process" /\ job'.work = k
        /\ DOMAIN job'.work = S
    BY <1>4, <1>5
  <1>7. job' \in Jobs(S)
    BY <1>4, <1>5 DEF Jobs
  <1>8. job' # None
    BY <1>2, <1>7, AbsentJob, CandidatesKnown
  <1>9. CandidatesIn(job.dirs)' = S
    BY <1>2, <1>6
  <1>10. RunnerTypeOK'
    BY <1>7, <1>9, SafeFiles DEF RunnerTypeOK
  <1>11. JobHolds'
    <2>1. PoliciesSound(dirs)
      BY DEF BeginRun
    <2>2. PoliciesSound(job.dirs)'
      BY <1>6, <2>1, SoundThen
    <2>3. (job.executed => \A d \in ToSet(job.dirs) : d \in Ledgers /\ Verifies(d))'
      BY <1>6, VerifiesKept
    <2>4. QED
      BY <1>6, <2>2, <2>3 DEF JobHolds
  <1>12. FilesHold'
    BY SafeFiles DEF FilesHold
  <1>13. ASSUME NEW c \in S
         PROVE  /\ ThreadHolds(c, artifacts'[c], job'.work[c], Policy(c)', job'.executed)
                /\ ~Asking(job'.work[c], Policy(c)', job'.executed)
    <2>1. job'.work[c].at = "queued"
      BY <1>4, <1>6
    <2>2. QED
      BY <2>1 DEF ThreadHolds, Asking
  <1>14. QED
    BY <1>6, <1>10, <1>11, <1>12, <1>13 DEF RunnerSafe, ThreadsHold, TextsHold

LEMMA DirectSafe ==
  ASSUME RunnerSafe, InputTypeOK', NEW u \in DirectRuns, RunDirectly(u.dirs, u.forced, u.ingest)
  PROVE  RunnerSafe'
  <1>1. u.dirs \in Seq(Directories) /\ u.forced \in SUBSET Candidates /\ u.ingest \in BOOLEAN
    BY RunnerAssumptions
  <1>2. PICK dirs \in Seq(Directories), forced \in SUBSET Candidates, ingest \in BOOLEAN :
          dirs = u.dirs /\ forced = u.forced /\ ingest = u.ingest
    BY <1>1
  <1>3. /\ BeginRun(dirs, forced, ingest, FALSE)
        /\ preparing' = None /\ UNCHANGED <<inputs, artifacts, outputs>>
    BY <1>2 DEF RunDirectly, inputVars
  <1>4. jobsBegun' \in 0..MaxJobs
    BY SafeFiles, RunnerAssumptions DEF RunDirectly
  <1>5. QED
    BY <1>3, <1>4, BeginSafe

LEMMA ExecuteSafe ==
  ASSUME RunnerSafe, InputTypeOK', ExecutePrepared
  PROVE  RunnerSafe'
  <1>1. preparing \in Preparations
    BY DEF ExecutePrepared, RunnerSafe, RunnerTypeOK, InputTypeOK
  <1>2. PICK ledgers \in Seq(Ledgers) : ledgers = preparing.prepared
    BY <1>1 DEF Preparations
  <1>3. ledgers \in Seq(Directories) /\ \A d \in ToSet(ledgers) : d \in Ledgers
    <2>1. \A i \in 1..Len(ledgers) : ledgers[i] \in Ledgers
      OBVIOUS
    <2>2. QED
      BY <2>1 DEF ToSet, Directories
  <1>4. /\ \A d \in ToSet(ledgers) : Verifies(d)
        /\ BeginRun(ledgers, {}, FALSE, TRUE)
        /\ preparing' = None /\ UNCHANGED <<inputs, artifacts, outputs>>
        /\ jobsBegun' = jobsBegun
    BY <1>2 DEF ExecutePrepared
  <1>5. jobsBegun' \in 0..MaxJobs
    BY <1>4, SafeFiles
  <1>6. QED
    BY <1>3, <1>4, <1>5, BeginSafe

LEMMA PrepareSafe ==
  ASSUME RunnerSafe, InputTypeOK', PreparationStep \/ \E u \in PreparedRuns : PrepareBatches(u.todo, u.execute)
  PROVE  RunnerSafe'
  <1>1. job' = None /\ artifacts' = artifacts /\ outputs' = outputs
    BY DEF PreparationStep, PrepareBatches, RefusePreparation, WriteImmutable, EndPreparation, AtHand,
           RunnerSafe, RunnerTypeOK
  <1>2. jobsBegun' \in 0..MaxJobs
    BY SafeFiles, RunnerAssumptions DEF PreparationStep, PrepareBatches
  <1>3. QED
    BY <1>1, <1>2, SafeFiles, NoRun

\* What an earlier version of the runner left complete.
LEMMA EarlierWhole ==
  ASSUME NEW v \in {"migratable", "outdated"}, NEW q \in AllProposals, NEW c,
         NEW a, a = Earlier(v, Assemble(q, None))
  PROVE  a \in ArtifactSets /\ Whole(c, a)
  <1>1. PICK m : m = Assemble(q, None)
    OBVIOUS
  <1>2. m \in Yields /\ m.from = q /\ Rests(m.cards, m.nodes \cup m.links)
    BY <1>1, AssembleSound
  <1>3. PICK r : r = [SourceRecord("completed", None, FALSE) EXCEPT !.version = v]
    OBVIOUS
  <1>4. r \in Records /\ r.policy = None /\ r.executed = FALSE
    BY <1>3 DEF SourceRecord, Records
  <1>5. a = [record |-> r, claims |-> ClaimsFile(m), cards |-> CardsFile(m), nodes |-> NodesFile(m)]
    BY <1>1, <1>3 DEF Earlier
  <1>6. /\ a["record"] = r /\ a["claims"] = ClaimsFile(m) /\ a["cards"] = CardsFile(m)
        /\ a["nodes"] = NodesFile(m) /\ DOMAIN a = ArtifactFiles
    BY <1>5 DEF ArtifactFiles
  <1>7. PICK p \in ClaimPolicies \cup {None}, e \in BOOLEAN :
          /\ ClaimsFile(m) = Wanted("claims", p, e, m) /\ CardsFile(m) = Wanted("cards", p, e, m)
          /\ NodesFile(m) = Wanted("nodes", p, e, m)
    BY DEF Wanted
  <1>8. ASSUME NEW f \in ArtifactFiles PROVE a[f] \in FilesOf(f) /\ a[f] \in FileValues
    <2>1. CASE f = "record"
      <3>1. r \in FilesOf("record")
        BY <1>4 DEF FilesOf
      <3>2. QED
        BY <1>6, <2>1, <3>1, ValueTypes
    <2>2. CASE f # "record"
      <3>1. a[f] = Wanted(f, p, e, m)
        BY <1>6, <1>7, <2>2 DEF ArtifactFiles
      <3>2. QED
        BY <1>2, <3>1, WantedTypes
    <2>3. QED
      BY <2>1, <2>2
  <1>9. a \in [ArtifactFiles -> FileValues \cup {None, Torn}]
    BY <1>5, <1>6, <1>8 DEF ArtifactFiles
  <1>10. a \in ArtifactSets
    BY <1>8, <1>9 DEF ArtifactSets
  <1>11. \A f \in ResultFiles : a[f] # None /\ a[f].from = m.from
    <2>1. ASSUME NEW f \in ResultFiles PROVE a[f] # None /\ a[f].from = m.from
      <3>1. a[f] = Wanted(f, p, e, m)
        BY <1>6, <1>7 DEF ResultFiles
      <3>2. QED
        BY <1>2, <3>1, WantedFiles
    <2>2. QED
      BY <2>1
  <1>12. a["cards"].cards = m.cards /\ a["nodes"].nodes = m.nodes /\ a["nodes"].links = m.links
    BY <1>6 DEF CardsFile, NodesFile
  <1>13. Whole(c, a)
    BY <1>2, <1>4, <1>6, <1>11, <1>12 DEF Whole
  <1>14. QED
    BY <1>10, <1>13

LEMMA NothingWhole ==
  ASSUME NEW c
  PROVE  NoFiles \in ArtifactSets /\ Whole(c, NoFiles)
  BY TheFiles DEF NoFiles, ArtifactSets, Whole, IsCompleted

LEMMA InitSafe == ASSUME RunnerInit PROVE RunnerSafe
  <1>1. PICK early \in SUBSET {e \in UNION {OldEntries[d] : d \in OldRuns} : e.text # None} :
          /\ OneEach(early, LAMBDA e : e.id)
          /\ \E v \in {"migratable", "outdated"}, p \in [early -> UNION Range(ProposalsFor)] :
               /\ \A e \in early : p[e] \in ProposalsFor[e.text]
               /\ artifacts = [c \in Candidates |->
                    IF \E e \in early : e.id = c
                    THEN Earlier(v, Assemble(p[CHOOSE e \in early : e.id = c], None))
                    ELSE NoFiles]
    BY DEF RunnerInit
  <1>2. PICK v \in {"migratable", "outdated"}, p \in [early -> AllProposals] :
            artifacts = [c \in Candidates |->
                 IF \E e \in early : e.id = c
                 THEN Earlier(v, Assemble(p[CHOOSE e \in early : e.id = c], None))
                 ELSE NoFiles]
    BY <1>1 DEF AllProposals
  <1>3. ASSUME NEW c \in Candidates
        PROVE  artifacts[c] \in ArtifactSets /\ Whole(c, artifacts[c])
    <2>1. CASE \E e \in early : e.id = c
      <3>1. PICK q \in AllProposals : q = p[CHOOSE e \in early : e.id = c]
        BY <2>1
      <3>2. PICK a : a = Earlier(v, Assemble(q, None))
        OBVIOUS
      <3>3. a \in ArtifactSets /\ Whole(c, a)
        BY <3>2, EarlierWhole
      <3>4. artifacts[c] = a
        BY <1>2, <2>1, <3>1, <3>2
      <3>5. QED
        BY <3>3, <3>4
    <2>2. CASE ~\E e \in early : e.id = c
      BY <1>2, <2>2, NothingWhole
    <2>3. QED
      BY <2>1, <2>2
  <1>4. artifacts \in [Candidates -> ArtifactSets]
    BY <1>2, <1>3
  <1>5. job = None /\ jobsBegun = 0 /\ DOMAIN outputs = {"registry", "manifest", "receipt", "error"}
    BY DEF RunnerInit
  <1>6. InputTypeOK
    BY InputInitOK DEF RunnerInit, Written
  <1>7. RunnerTypeOK
    BY <1>4, <1>5, <1>6, RunnerAssumptions DEF RunnerTypeOK
  <1>8. QED
    BY <1>3, <1>5, <1>7 DEF RunnerSafe, JobHolds, FilesHold, ThreadsHold, TextsHold

LEMMA StutterSafe ==
  ASSUME RunnerSafe, UNCHANGED runnerVars
  PROVE  RunnerSafe'
  <1>1. /\ inputs' = inputs /\ preparing' = preparing /\ artifacts' = artifacts
        /\ outputs' = outputs /\ job' = job /\ jobsBegun' = jobsBegun
    BY DEF runnerVars, inputVars
  <1>2. RunnerTypeOK'
    BY <1>1 DEF RunnerSafe, RunnerTypeOK, InputTypeOK
  <1>3. JobHolds'
    <2>1. PoliciesSound(job.dirs) => PoliciesSound(job.dirs)'
      BY <1>1, SoundKept
    <2>2. \A d : Verifies(d) => Verifies(d)'
      BY <1>1, VerifiesKept
    <2>3. Points(Extracted)' = Points(Extracted)
      <3>1. Extracted' = Extracted
        BY <1>1, ExtractedKept
      <3>2. QED
        BY <3>1
    <2>4. QED
      BY <1>1, <2>1, <2>2, <2>3 DEF RunnerSafe, JobHolds
  <1>4. FilesHold'
    BY <1>1 DEF RunnerSafe, FilesHold
  <1>5. ASSUME NEW c PROVE Policy(c)' = Policy(c)
    BY <1>1, PolicyKept
  <1>6. ThreadsHold'
    BY <1>1, <1>5 DEF RunnerSafe, ThreadsHold
  <1>7. TextsHold'
    BY <1>1, <1>5 DEF RunnerSafe, TextsHold
  <1>8. QED
    BY <1>2, <1>3, <1>4, <1>6, <1>7 DEF RunnerSafe

LEMMA RunnerNextSafe ==
  ASSUME RunnerSafe, InputTypeOK', [RunnerNext]_runnerVars
  PROVE  RunnerSafe'
  BY DirectSafe, PrepareSafe, ExecuteSafe, CandidateSafe, PublishSafe, EndSafe, KillSafe, StutterSafe
     DEF RunnerNext

LEMMA RunnerSafeInvariant == RunnerSpec => []RunnerSafe
  <1>1. RunnerInit => RunnerSafe
    BY InitSafe
  <1>2. Written' => InputTypeOK'
    BY DEF Written
  <1>3. RunnerSafe /\ Written' /\ [RunnerNext]_runnerVars => RunnerSafe'
    BY <1>2, RunnerNextSafe
  <1>4. QED
    BY <1>1, <1>3, WrittenInvariant, PTL DEF RunnerSpec

\* Types and shapes of the runner's state, for any inputs, candidates and runs.
THEOREM RunnerIsTyped == RunnerSpec => []RunnerTypeOK
  <1>1. RunnerSafe => RunnerTypeOK
    BY DEF RunnerSafe
  <1>2. QED
    BY <1>1, RunnerSafeInvariant, PTL

LEMMA SafeIsWhole == ASSUME RunnerSafe PROVE CompletedAreWhole
  <1> SUFFICES ASSUME NEW c \in Candidates, NEW a, a = artifacts[c],
                      a["record"] \notin {None, Torn}, a["record"].status = "completed"
               PROVE  /\ None \notin {a["claims"], a["cards"], a["nodes"]}
                      /\ \A f, g \in {a["claims"], a["cards"], a["nodes"]} \ {Torn} : f.from = g.from
    BY DEF CompletedAreWhole
  <1>1. /\ \A f \in ResultFiles : a[f] # None
        /\ \A f, g \in ResultFiles : a[f] # Torn /\ a[g] # Torn => a[f].from = a[g].from
    BY DEF RunnerSafe, FilesHold, Whole, IsCompleted
  <1>2. QED
    BY <1>1, TheFiles

\* A source recorded as completed has the claims, cards and nodes of one extraction, of
\* whatever directories and texts, and whatever is killed or torn.
THEOREM CompletedSourcesAreWhole == RunnerSpec => []CompletedAreWhole
  <1>1. RunnerSafe => CompletedAreWhole
    BY SafeIsWhole
  <1>2. QED
    BY <1>1, RunnerSafeInvariant, PTL

LEMMA SafeIsCurrent == ASSUME InputsAgree, RunnerSafe PROVE ReportedAreCurrent
  <1> SUFFICES ASSUME Publishing("report"), NEW c \in DOMAIN job.work,
                      NEW a, a = artifacts[c], NEW m, m = job.work[c].made, m.from # None
               PROVE  /\ a["record"].status = "completed" /\ a["record"].version = Version
                      /\ a["record"].policy = Policy(c)
                      /\ a["cards"] = CardsFile(m) /\ a["nodes"] = NodesFile(m)
                      /\ a["claims"] = ClaimsFile(m)
                      /\ m.cards = Permitted(m.cards, Policy(c))
                      /\ \A n \in m.nodes \cup m.links : n.support # {} /\ n.support \subseteq m.cards
                      /\ a["record"].executed => m.from \in ProposalsFor[Policy(c).text]
                      /\ outputs["manifest"] = Points(Extracted) \/ Points(Extracted) = {}
    BY DEF ReportedAreCurrent
  <1>1. job # None /\ job.work[c].at = "done" /\ job.at = "report"
    BY DEF Publishing
  <1>2. PICK p : p = Policy(c)
    OBVIOUS
  <1>3. ThreadHolds(c, a, job.work[c], p, job.executed)
    BY <1>1, <1>2, JobTypes
  <1>4. Ended(a, p, m)
    BY <1>1, <1>3 DEF ThreadHolds
  <1>5. PICK e \in BOOLEAN : Counted(p, e, m) /\ \A f \in ArtifactFiles : a[f] = Wanted(f, p, e, m)
    BY <1>4 DEF Ended
  <1>6. /\ a["record"] = SourceRecord("completed", p, e) /\ a["claims"] = ClaimsFile(m)
        /\ a["cards"] = CardsFile(m) /\ a["nodes"] = NodesFile(m)
    BY <1>5, TheFiles DEF Wanted
  <1>7. /\ a["record"].status = "completed" /\ a["record"].version = Version
        /\ a["record"].policy = p /\ a["record"].executed = e
    BY <1>6 DEF SourceRecord
  <1>8. /\ m.cards = Permitted(m.cards, p)
        /\ e => m.from \in ProposalsFor[p.text]
        /\ Rests(m.cards, m.nodes \cup m.links)
    BY <1>5 DEF Counted
  <1>9. outputs["manifest"] = Points(Extracted) \/ Points(Extracted) = {}
    BY <1>1 DEF RunnerSafe, JobHolds
  <1>10. \A n \in m.nodes \cup m.links : n.support # {} /\ n.support \subseteq m.cards
    BY <1>8 DEF Rests
  <1>11. /\ a["record"].policy = Policy(c) /\ m.cards = Permitted(m.cards, Policy(c))
         /\ a["record"].executed => m.from \in ProposalsFor[Policy(c).text]
    BY <1>2, <1>7, <1>8
  <1>12. QED
    BY <1>6, <1>7, <1>9, <1>10, <1>11

\* A run that reports success counts what its files say, made under the policy of its own
\* inputs, if these agree with each other on what they have in common.
THEOREM ReportsAreCurrent == InputsAgree /\ RunnerSpec => []ArtifactsAgree
  <1>1. CASE InputsAgree
    <2>1. RunnerSafe => ArtifactsAgree
      BY <1>1, SafeIsWhole, SafeIsCurrent DEF ArtifactsAgree
    <2>2. QED
      BY <2>1, RunnerSafeInvariant, PTL
  <1>2. CASE ~InputsAgree
    BY <1>2
  <1>3. QED
    BY <1>1, <1>2
=============================================================================
