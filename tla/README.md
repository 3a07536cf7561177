# MagicForge in TLA+

MagicForge turns Sources into reviewed knowledge and serves it from a vector store. Its production
services share one PostgreSQL database and one Qdrant server, run in any number of threads and
processes, and promise that nothing reaches retrieval without the approvals behind it. Around them
stand commands of single operators (acquisition, the bootstrap runner, the localization pipeline) that
keep their state in files and must survive being killed, repeated and run over each other's results.
This directory holds the TLA+ models of both, the instances TLC checks, and the proofs TLAPS checks.

    tlc -workers 2 -config jobs_safety.cfg MCExtractionJobs
    tlapm ExtractionJobs_proofs.tla

Paths below are relative to the repository. `PROJECT.json` maps every definition to the lines it
stands for and lists the runs, the hazards, the findings and the theorems.

## The system

Everything that changes the database is a service method that opens one or more transactions
(`persistence/uow.py`: nothing commits unless `commit()` is called). PostgreSQL runs at READ COMMITTED;
mutual exclusion comes from `SELECT ... FOR UPDATE`, from unique indexes, and from triggers that make
rows immutable. No thread talks to another except through these rows and through Qdrant. GLM, the
embedding model, the citation services and Qdrant are called outside transactions. The commands share
directories: some files are immutable and named by their contents, others are rewritten in place.

| Component | State it keeps | Operations | What makes it correct |
|---|---|---|---|
| Extraction jobs (`research/extraction/production_jobs.py`, `persistence/extraction_jobs.py`) | job rows, append-only attempts, one proposal artifact per job | queue, run (start attempt, GLM, keep proposal, submit Claims, succeed or fail) | one active attempt per job; a gapless history; a proposal is kept once, resumed and never extracted again; success only with every Claim in review |
| Source and Claim governance (`research/review/workflow_service.py`) | Sources, immutable versions, permission requests, decisions, Claim candidates, Evidence Card versions | register, add version, request permission, review Source, submit and review Claim | an approval stays what later checks accept; nobody reviews their own work; classifications only rise |
| Mapping governance (`research/review/mapping_service.py`) | proposals, canonical entities, node and relationship versions | submit, review with create, reuse or merge | one artifact per approval, about active entities; merges end at an active entity; every review ends |
| Storage manifests and ingestion (`research/review/storage_workflow_service.py`, `retrieval/qdrant_service.py`) | manifests, authorizations, operations, receipts, staged corpora; the points of a collection | build, authorize, ingest (start, write, finalize, or clean up and record) | one writer per manifest; one receipt; the points agree with the tables whatever fails; a corpus starts with current artifacts |
| Corpus activation (`activate_corpus`, migration 0004) | activation states and scopes of corpora, one pointer per scope | activate | a scope's pointer names its one active corpus; service is not lost on the way |
| Runtime corpus (`app/runtime.py`, `app/production_read_model.py`) | the corpus loaded at startup | load, re-check, serve | nothing is served once its activation or an approval behind it is gone |
| Accounts and sessions (`security/services.py`) | users, roles, sessions | bootstrap, login, authenticate, expire, logout, create, grant, revoke | an action has a live session and role when it commits; an administrator always remains |
| Governance commands (`security/governance_*_cli.py`) | what they report | register, amend, provision a batch | a report is true; a rerun completes a batch and adds nothing |
| Idempotency and audit (`persistence/idempotency.py`, `persistence/audit.py`) | records per actor, scope and key; append-only events | begin, complete; append | a key acts once |
| Acquisition (`research/acquisition`) | ledgers, payload files, bundles, reports | stage, submit; the fixed acquisition run | no superseded ledger is submitted; what is registered is what was confirmed; an outcome is true of its files |
| Bootstrap inputs and runner (`research/bootstrap`) | immutable input batches; per-candidate files, registry, manifest, points | prepare, execute, run, ingest | a prepared batch verifies; results are whole and made under the policy of now |
| Localization (`localization/pipeline`) | run directories with a manifest | scan, propose, validate, assemble, quality-review | every candidate stems from GLM and a policy that allows it, through runs that verify |
| Ranking, projections, chunking, evidence models | none | pure functions | agreement with a reference definition |
| HTTP application, migrations, frontend, search and citation clients, backup | none of their own that others rely on | routing, schema, calls | - |

How they interact. A run of an extraction job reads Source governance (version, decision, permissions),
hands text to GLM and calls `submit_claim`; a Claim review may raise the classification of the Source
under a job that is running. A manifest is built from approved Evidence and Mappings, and those approvals
are looked at again when it is authorized, when its ingestion starts and when it is finalized;
finalization stages the corpus that activation makes active; the runtime loads the active corpus and
checks the same approvals on every read. Every service looks its actor's session, user and roles up
again in the transaction that acts. Staged ledgers are submitted to Source governance, and are what the
input batches of the bootstrap runner are prepared from.

What is hard in it: threads of several processes that meet only in row locks; saga steps between
PostgreSQL and Qdrant with a crash, an error or a lost commit reply after any of them; retries under the
same or another idempotency key, by the same or another operator; approvals, sessions and deployments
that change while a request is outside its transaction; lock orders that differ between operations;
requests that time out and are handled late; commands that are killed between two files, repeated with
other inputs, or started twice in one directory.

## Modules

| Module | Models |
|---|---|
| `ExtractionJobs` | extraction jobs with the part of Source governance, Claim submission and idempotency they meet |
| `JobLedger` | what a job promises, abstractly; `ExtractionJobs` implements it |
| `GovernanceRoles` | accounts by role, and which classifications each may see |
| `SourceClaimReview` | Sources, versions, permission requests, reviews, Claims, Evidence Cards |
| `MappingReview` | mapping proposals, canonical entities, merges, with every row lock |
| `ManifestGovernance` | building, authorizing and finalizing a manifest beside `MappingReview`, which it extends |
| `StorageSaga` | authorization and ingestion of manifests, with the Qdrant writer and cleanup |
| `CorpusActivation` | activation of ingested corpora |
| `RuntimeCorpus` | what server processes serve, over an instance of `CorpusActivation` |
| `AccountRoles` | accounts, roles and sessions, with every row lock |
| `GovernanceClients` | the batch commands against the service and its idempotency records |
| `AcquisitionStaging` | staging of discovered rows, and submission of ledgers |
| `AcquisitionBundle` | the fixed acquisition run and its shared temporary files |
| `PreparedInput` | preparation of immutable input batches |
| `BootstrapRunner` | the bootstrap runner over those batches; extends `PreparedInput` |
| `LocalizationRuns` | the five localization commands over run directories |
| `MC...` | constants, symmetry and parts for TLC |
| `GovernanceParts_proofs` | theorems about `RuntimeCorpus`, `GovernanceClients`, `AcquisitionStaging` and `AcquisitionBundle` |
| `MappingReview_proofs` | theorems about `MappingReview`, and about `ManifestGovernance`, which extends it |
| `BootstrapRunner_proofs` | theorems about `BootstrapRunner` and `PreparedInput`, which it extends |
| `..._proofs` | theorems about the module of that name |

### ExtractionJobs

An action is one transaction, or the GLM call. `QueueLoad`, `QueueCheck` and `QueueInsert` are the load,
the unlocked re-check and the insert under the unique key of `queue`; `RunSnapshot`, `RunLoadSource`,
`StartAttempt`, `LoadArtifact`, `CallGLM`, `Revalidate`, `PersistProposal`, `SubmitClaim` (or
`SubmitReplays`), `SucceedAttempt` and `ReadResult` are the transactions of `run` in order; `FailAttempt` is
`_fail_attempt`, which swallows its own errors. `req[w]` is the thread's position, actor and local
variables; `live` says whether its session still is. `AddSourceVersion`, `ReviewSource`,
`RaiseClassification`, `Redeploy` and `RevokeSession` are what others do meanwhile. `DatabaseError` is an
exception inside the `try` block; `Crash` stands for the end of the process and for errors that leave `run`
at once; `Commits` also offers the commit whose reply is lost.

Data is abstracted to what the properties tell apart: a Source is its newest version number and what each
version's review allows, a Claim is a number (the order of the artifact), a proposal a set of them. GLM and
the quality gates return any set of Claims or fail. A proposal's content hash may or may not collide with
that of a job that differs in its prompt only (`IdentityTaken`).

### SourceClaimReview

One Source with its versions, the permission requests of each version, one decision per version, and Claims
with their decisions and cards. A transaction is one action where the row it decides on is locked before what
it decides from is read. `review_claim` is not: it locks the Claim candidate but not the Source's decision and
the other Claims, so it is `OpenClaimReview`, which keeps what it read in `reading`, and `ApproveClaim`,
`RejectClaim` or `AbandonClaimReview`. Extraction, storage, eligibility and classification are ranks of the
code's enumerations. `ReviewInit` has the empty tables, or a version whose first request migration 0006 made
from old metadata, in whatever shape. `ApprovalsStayCurrent` says exactly when an approval is accepted later,
and so names what the code allows and later refuses: a scope with a decision for the full text, and an
ill-shaped migrated request, can be approved but are never current. `CardsStayCurrent` names a third one: a
Claim decided `eligible` on a Source that is `eligible_with_limits` has a card that is never current. The
rules for a current card are written three times, in the reads of this service, in the mapping and in the storage
service (`CardCurrent`, `EvidenceUsable`, `EvidenceStorable`); the property says that they agree.

### MappingReview and ManifestGovernance

A mapping approval locks session and user, the proposal, the registry rows of its names in order, and
more rows as its resolution demands; `LocksOf` is that order, `ApprovalStep` the next lock or the commit, and
`AbortDeadlocked` the database ending one of those that wait for each other. Creation, reuse and merge are
decided from the rows as they are when the lock is granted; an insert that meets a unique index fails. A
candidate is abstracted to the entities it names.

`ManifestGovernance` adds threads that build a manifest, authorize it, start and finish its ingestion.
`ResolveItem` reads one item by a statement of its own; authorization reads without locks, start and
finalization take the locks of `_lock_manifest_governance_envelopes` first (`LockEnvelope`), in the order of the
rows' ids (`FirstInOrder`). `Beside` is a mapping step that respects those locks. The Qdrant side of an ingestion is `StorageSaga`.

### StorageSaga

A transaction that can wait for a row lock while it holds another is two actions, and the first takes the
held lock: `StartLock`, `StartDecide` (manifest, then operation), `FinishLock`, `FinishCommit` and
`CleanupLock`, `CleanupDecide` (operation, then manifest). The orders differ, so waits can form a cycle;
`Deadlock` is the database aborting one of the two, which takes its thread where that exception goes. Each
Qdrant request (`CheckCollection`, `Upsert`, `VerifyPoints`, `Promote`, `ReadOwned`, `DeleteOwned`) is one
action that may fail, and a writing one may have been applied to any subset of its points when it fails.
`store[c][p]` is the point with identity `p` of collection `c`: its owner (the manifest in its payload) and
whether retrieval sees it. `current` is the set of manifests whose approvals, clearances and roles hold; it
changes at any time. `armed` is the manifest a deployment's write capability names.

`Rolling` says whether deployments for different manifests overlap. A
deployment's write capability names one manifest (docs/production-governance-backend.md, section 9); the runs
about shared collections assume that the deployment for one manifest is stopped before the next one writes,
and `saga_rolling` shows what happens otherwise.

### CorpusActivation and RuntimeCorpus

`LockCorpus`, `LockPointer` and `FlushAndCommit` are the row locks and the flush of `activate_corpus`. A
corpus is numbered by its primary key because a flush updates rows in that order (`IndexAllows`): the
partial unique index on the active corpus of a scope is checked row by row. A pointer row that does not
exist cannot be locked; then only its primary key decides (`PointerKeyFree`). `ScopeFixed` is the trigger on
the identity columns. `Abort` is any refusal, error or crash before the commit; `DeadlockVictim` is the same
step, required of the database once transactions wait in a cycle.

`RuntimeCorpus` has processes that find the pointer, read its corpus, look every item up again and serve, one
statement per action, while activations go on and items are superseded for good. `sawActive` and `sawCurrent`
are history variables: what was in service, or current, at some time since the request began. A process
whose corpus is no longer active refuses reads, and serves again if that corpus is activated again; a start
that races with an activation can leave the container failed until the process is replaced.

### AccountRoles

A request is the sequence of rows it locks (`RowsOf`) and what it decides from them; `Begin` takes the first,
`LockRow` the next one, `RefuseRequest` ends it where a row is not accepted, `Commit...` is the rest.
Administrators' mutations lock their own session and user and then the target, so two of them can wait for
each other (`AbortRequest`). Passwords, tokens and CSRF are abstracted to a session that is live or not.

### GovernanceClients

`register`, `amend` and `provision` are the three batch commands: preflight, login, one request per item,
logout, report. A request that times out is in `late` and handled at any time, or never. The service answers
a request whose actor, command and key it has stored (`Replays`), or acts (`Executes`); accounts are created
without a key. Others amend and decide versions meanwhile.

### AcquisitionStaging and AcquisitionBundle

`AcquisitionStaging` has commands that stage batches of discovered rows into payload files and a ledger, and
operators that submit a ledger. Files are immutable; the order of ledgers is their modification times, which
stagers push ahead of what they saw, on a clock that may be coarse or set back. Rows of one work are merged
as the code merges them (`Absorb`). Writing a file is one step, so is the submission of an item; normalised
DOIs, URLs and titles are equal strings; at most one batch is staged before the model starts.

`AcquisitionBundle` has two processing commands that write five files per article through fixed
temporary names (`.<name>.tmp`), so that two of them, or one and what a killed one left, can meet in one file.
A candidate is named by its place in the locked set, a file by its kind and that place; `Written` and `Verified`
are the orders in which the files are written and read again. A run's `alone` and `steady` are history: no
other run beside it, and no file changed by another since it began to read.
Text validation is `sound`; the candidate manifest is a constant.

### PreparedInput and BootstrapRunner

`PreparedInput` writes the four immutable files of a batch one by one, refuses a file that exists and
differs, and may be killed inside a file (`Torn`). `AuditSound`, `PayloadSound` and `BatchSound` are the checks of the two lanes'
audits. A text stands for its hash, one file for the four lists.

`BootstrapRunner` runs a pool of threads over the candidates of several directories. Each candidate's thread
finds its text (`AcquiredTexts`), reuses what is cached (`Cacheable`, with a migration of older versions) or
extracts again, and writes its files one by one (`WriteArtifact`); the run then writes registry, manifest,
points and report. `KillRunner` may leave any file being written torn. `Assemble`, `Permitted`,
`FilterUnsupported` and `Migrate` are what becomes of a proposal under the claim policy of its batch. Left
out are the quality corrections, the lists of rejections and errors, the text of the report, section
selection, and the retries of a GLM call (a call answers or fails); the entailment check is part of what
`ProposalsFor` may return.

### LocalizationRuns

A command reads catalog and policy, verifies the runs it starts from (`ProposalRunVerifies`,
`CandidateRunVerifies`), moves an earlier attempt out of its directory file by file (`IsolateArtifact`), writes
its files and commits with the manifest (`FinalizeManifest`). It may be killed anywhere, and a move may fail and be
rolled back in part. The content of a file stands for its hash; a policy is the set of (text, candidate) pairs
it allows; only files that a later command reads are kept; an overlay that does not validate is one of the ways of `GLMFails`.

## Runs

| Run | Instance | Shows | Distinct states |
|---|---|---|---|
| `jobs_safety` | 2 threads, 2 operators (one cleared), 1 job, 2 Claims, 2 attempts, 2 faults | the safety invariants and action properties of jobs | 214,262 |
| `jobs_progress` | 2 threads, 1 operator, 2 versions, 2 attempts, no faults, fair | attempts end; the job implements `JobLedger` | 257,828 |
| `jobs_resume` | as `jobs_safety`, without faults | finding: another operator cannot resume a partly submitted proposal | violated |
| `jobs_outbound` | 2 configurations, 1 Claim, 1 attempt | finding: the outbound gate does not see a raised classification | violated |
| `saga_retry` | 2 threads, 2 operators with 2 keys each, 1 manifest of 2 points, 2 faults, fair | retries and failures of one ingestion; every request ends | 148,898 |
| `saga_shared` | 2 threads, 3 manifests: two for one collection with a point identity in common, two that claim one corpus identity; 1 fault | manifests do not touch each other's points | 1,222,360 |
| `saga_marker` | 1 manifest, no faults | finding: a deadlock victim leaves a running operation without a thread | violated |
| `saga_rolling` | 2 manifests for one collection, overlapping deployments | finding: check and write are not atomic | violated |
| `row_locks` | 3 threads over 3 corpora of 2 scopes; 2 reviewers over 5 proposals about 2 entities; 1 manifest and 1 storage thread beside 2 reviewers; fair | one active corpus per scope, artifacts and merges about active entities, corpora that start current; activations and approvals end | 103,021 |
| `activation_successor` | 1 thread, 2 corpora | finding: a corpus with a smaller id cannot replace the active one | violated |
| `governance` | review: 1 Source, 2 versions, 2 Claims; accounts: 2 requests, 2 sessions; runtime: 1 process, 2 corpora, 2 artifacts; clients: 2 runs of a batch; acquisition: 2 stagers and an operator, 2 processors; bootstrap: 3 audits over 2 ledgers, 2 jobs; localization: 2 commands over earlier runs | the properties of these eight modules | 753,256 |
| `governance_replay` | as `governance` | finding: a stored registration is no longer replayed after a newer permission request | violated |

Deadlock checking is off: all requests may be done and every bound used up, and then the system rests.

`MCGovernance` and `MCRowLocks` check several modules that share no row in one instance each. The variable
`part` is chosen in the initial state and never changes; the actions of one module are enabled in its part
only, and the variables of the others keep one initial value. The reachable states are the disjoint union of
those of the parts, and every property is checked in all of them.

Why the bounds are enough. The interesting situations need two threads on one row (a third only meets the
same locks; activation has three because cycles of three waits exist there), two operators because
permissions and idempotency records are per operator, two Claims or points because partial submission and
partial application need a proper subset, two attempts because a resumed attempt follows a failed one, and
two faults because a fault in the failure path follows one that led there. In particular:

| Bound | Value | Why |
|---|---|---|
| `MaxClaims`, `MaxAttempts`, `MaxFaults`, `MaxVersion` (jobs) | 2, 2, 2, 1-2 | as above |
| `MaxVersion`, `MaxRequests`, `MaxDecided` (review) | 2, 2, 1 | a superseded version, a request after a request; a second decided version only repeats the first |
| `ChainLimit` | 2 | the length check of a permission chain is reached |
| `Entities`, `Proposals`, `Proposers` | 2, 5, 1 | two proposals per name compete, a relationship between the two names; who proposes does not matter beyond not reviewing it |
| `Threads`, `Manifests` | 1, 1 | the competition is with the two reviewers; storage threads compete in `StorageSaga` |
| `MaxCorpus` | 3, 2 | three to wait in a circle, two to be replaced |
| `Requests`, `Sessions`, `Accounts` | 2, 2, 2 | two administrators against each other |
| `MaxRuns`, `Batch`, `MaxChain` | 2, 1, 4 | a rerun beside a late request of the first run, and two other amendments |
| `MaxCommands`, `Clock`, `Batches` | 3, {1, 2}, 3 | two stagings and a submission; times equal and reversed |
| `MaxBundles` | 2 | two commands in one directory |
| `MaxJobs`, `Pool` | 2, 2 | a run after a killed run or preparation; two threads |
| `MaxRunCommands` | 2 | a command after an earlier directory and a killed command; earlier runs are initial states |

They are bounds of the model; the code has no such limits except `ChainLimit`, which it sets to a constant of its own. The
theorems hold for every value of them. TLC finds each property violated when the definition named in
`PROJECT.json` under `mutants` is replaced by its mutated form, the way a plausible mistake would change it.

### Fairness

- `ExtractionJobs`: weak fairness of each thread's `Progress`. Every transaction waits for one row lock at
  most, and database calls and the GLM client have timeouts, so a thread with a step to take takes it.
  Nothing is assumed of faults, reviewers, operators or sessions.
- `StorageSaga`: strong fairness of each thread's `Step`, because a row lock is granted in the order of the
  queue and a thread that waits behind others that come and go is served; weak fairness of `Deadlock`,
  because PostgreSQL runs its deadlock detector after `deadlock_timeout`.
- `CorpusActivation`, `MappingReview`: the same two assumptions.
- `ManifestGovernance`: these for the reviewers, and weak fairness of storage threads.
- `MCRowLocks` gives one worker of `CorpusActivation` and one user of `MappingReview` a common fairness
  conjunct (`LockFairness`). As a part is never left, the conjunct is the fairness of the one or of the other.

`saga_retry` and `row_locks` would show endless waits without the deadlock detector, and so does the mutant
in which cleanup insists on its lock until it is safe. The modules of `MCGovernance` state no fairness: their
properties are about safety, and a command or request in them may stop at any step.

## What was found

| Run | The code does | The text says |
|---|---|---|
| `jobs_resume` | `submit_claim` refuses a Claim that another operator's partial run already submitted (`workflow_service.py:853`), so nobody else can finish the job | "a partial failure can resume without sending the Source to GLM again" (`production_jobs.py:347`) |
| `jobs_outbound` | the outbound policy reads the classification of the Source decision, not the one a Claim review raised (`production_source.py:315`) | a classified Claim "raises the enclosing Source version so its raw text cannot bypass child controls" (`workflow_service.py:2711`) |
| `saga_marker` | start locks manifest then operation, cleanup operation then manifest, and a cleanup that is the deadlock victim ends without recording anything (`storage_workflow_service.py:918`) | the failure path will "otherwise retain an explicit reconciliation marker" (`storage_workflow_service.py:602`) |
| `saga_rolling` | the check that the collection is bound to the manifest comes before the embedding and the upsert is unconditional (`qdrant_service.py:318`) | a collection "is accepted only when it is exclusively and exactly bound to the same manifest" (`docs/production-governance-backend.md:384`) |
| `activation_successor` | both corpus rows change in one flush in key order under an index that is not deferrable (`storage_workflow_service.py:722`) | activation "marks the selected corpus `active`, the previous corpus for the same scope `inactive`" (`docs/production-governance-backend.md:429`) |
| `governance_replay` | the stored result of a registration is refused once its version has a newer permission request (`workflow_service.py:3090`) | "identical retry after completion: returns the stored result" (`docs/production-governance-backend.md:608`) |

Not violations of anything written, but worth knowing:

- A process that dies during an attempt leaves the job RUNNING for good, and one that dies during an
  ingestion leaves the operation running and its manifest blocked; neither has a lease or a recovery.
- A merge does not copy the aliases of the merged entity, only its name; reads of nodes and assertions do not look whether their entity is active.
- A mapping and a manifest accept a card whose own level their actor may see, also when another Claim has since
  raised its Source; the reads of both Claims and mappings (`ClaimVisible`, `EvidenceVisible`) then show it to fewer.
- `authorize_manifest` reads its items without the locks that start and finalization take, so an
  authorization may be stale at once; start and finalization notice. A manifest whose item was superseded
  can then neither be ingested nor read.
- Two input directories that list a candidate under different categories can leave nodes that name removed cards
  as their support, and two prepared batches that give one URL different texts can make a run extract another
  text than the policy commits to (`InputsAgree`, see BootstrapRunner under Proofs).
- One torn result file makes every later bootstrap run over its directory raise, and a torn immutable file
  conflicts with every later preparation of its batch. A run without claim policies reuses an extraction of an older text.
- `validate --resume` in the directory of its own input moves that input away and then fails to read it.

## Proofs

All theorems hold for every value of the constants that satisfies the assumptions of the modules: any number
of threads, operators, keys, jobs, manifests, points, accounts, Claims, entities, processes, batches, runs and
faults. The assumptions say what constants are (`ConstantsAssumption`, `ReviewConstants`, `MappingConstants`,
`ClientConstants`, `StagingConstants` and the like), and that a value for "no row" or "no request" is none of the
rows or requests (`NoneAssumption`, `NoRowIsNone`, `AbsentReview`, `AbsentRequest`, `AbsentServing`, `AbsentRun`,
`AbsentCommand`, `AbsentSession`, `AbsentProcessing`, `AbsentFile`, `AbsentJob`). TLC evaluates all of them on the
instances. Three theorems have a hypothesis beside them, `Separate` or `InputsAgree` (below). Each theorem is about the specification of its module alone; the
instances of `MCGovernance` and `MCRowLocks` are these modules side by side.

**ExtractionJobs.** `IndInv` is inductive: the checked invariants, and four facts about threads and rows.
`OneActiveAttempt` alone is not inductive: to know that a thread that fails may close the attempt one needs
that it carries an attempt number of its job (`CarriesAttempt`) and that the history has no entry for it
(`AttemptHistory`). `SucceededIsComplete` needs that what a submitting thread no longer has to do is in the
queue (`SubmitsProposal`), and that rests on the proposal not changing under it (`ExtractsOnce`,
`ArtifactRows`). From `Invariance` follow the six state theorems, `OutboundIsNeeded` and
`TerminalRowsAreFinal` about steps, and `Refinement`: every step maps to one of `JobLedger` or a stutter. The
one step that needs care is `SubmitClaim`, which enters a Claim for every proposal that contains it, jobs
that differ in their prompt only included.

**StorageSaga.** The SQL side is `Sql == OneWriter /\ IngestedOnce /\ OperationsNamed /\ WriterOwns`: a writing
thread's operation is on its manifest and is running, or was committed under the thread (a lost reply). Steps
that leave tables alone are handled once (`Continues`: no thread begins to write); start, finalization and
the failure record have a lemma each. On top of it `Tidy == NoStrayPoints /\ PointsHome /\ CleanedIsClean`:
points lie where their owner's manifest puts them, and a thread about to record a clean failure has left
none, which makes `FinishFailed` safe although it no longer looks at the store.

`CommittedPointsStay` and `PointsChangeUnderOperation` are about the store, and need `Separate`: deployments of two
manifests of one collection do not overlap. That is what a write capability for one manifest is for
(docs/production-governance-backend.md, section 9), and `saga_rolling` is the counterexample without it. Then two
threads that write to one collection are one thread (`AloneInCollection`), and `Secure` says what its phase lets a
thread count on: from its first upsert on the collection holds points of its own manifest only, after the
confirmation exactly all of them, and what it deletes is its own. So a thread of another manifest never reaches
a write in a collection with ingested points: the binding check, which reads the store at that moment, ends it.

**CorpusActivation.** `OneActivePerScope` rests on `PointerHeld`: a pointer row that a thread has read is
locked by that thread alone and stays as it was read until the flush; a pointer that was not there is caught
by the primary key. So the flush replaces the corpus the pointer names, the trigger keeps an active corpus
in its scope, and the index keeps any other one out. `ServiceIsNeverLost` follows for every step.

**RuntimeCorpus.** `ReadersSeeCurrentCorpora` is about time: the corpus and its items were read one after the other
while activations went on. `ServingHolds` says what the history of an open start or request contains: all that is
in service or current now, the own corpus once the pointer was read, and each item of it that was looked at. A
process that is ready has a corpus, which a read checks again before it answers.

**SourceClaimReview.** `ReviewSafe` has a part for each row. A decision binds the last permission request there
will be (`DecisionHolds`: a decided version takes no more of them), a candidate rests on a current approval and an
approved one has the card its decision makes (`CandidateHolds`), and an open Claim review, which holds its
candidate, has read a decision that still stands (`ReadingHolds`). This is why reading the Source's decision
without a lock does no harm: decisions are immutable. What may change under the review is the
classification, and it only rises; `ClassificationIsMonotone` follows because the effective level is a maximum
over decisions that are added to and never replaced.

**MappingReview.** `MappingSafe` states what the row locks give an open review: each row it needs is held and as it
was found, or is yet to be locked (`LocksHold`), and no row and no proposal is in two reviews (`ReviewHolds`). So
at its commit a target is active and has the aliases that were read of it, and a name that was free is free. Merges
end at an active entity because a merge holds both sides, turns one active entity into a merged one that points to
the other active one, and an entity that is merged never changes; that chains have no cycle is stated as "of every set
of merged entities one points out of it", which needs no recursion. An approved proposal has one place among the
versions of nodes and assertions (`PlaceHolds`): each commit appends to one of them, and the proposal was undecided
until then. `NamesActive` and `KeepsAliases`, the two action properties, are then facts about each of the commits.

**ManifestGovernance.** `CorporaStartCurrent` compares items that were read one by one with the tables at the commit. A
finalization holds every entity row that one of its items names, or has yet to lock it before it reads any
(`FinalizationHolds`), no row is held by it and by a review (`RowsApart`), and an item that was read and whose
entities are held still resolves: a review appends a version or changes a status only of an entity it
holds (`RowsStay`, `ResolvesStays`). A relationship is replaced under the locks of both its ends, which is why
the mutant that leaves them out of `Envelopes` breaks the property. `ManifestSafe` is inductive over both
modules; `Beside(MappingNext)` is covered by the theorem about `MappingReview`, applied to the step.

**AccountRoles.** `Safe` adds to `AdministratorRemains` what the row locks give (`Locked`): what a request still
has to find out, it has yet to lock (`Needed`, `Awaited`); what it has found out about a row it holds is still so
(`Sound`), because no row is held by two (`Exclusive`) and every commit writes only rows it holds, or an account
that was not there. Each action then needs one argument of its own. The crux is `CommitRevokeRole`: whoever takes
the administrator role from an account is not that account and holds a row that has it, and what is left to
the account was counted under its lock. `AuthorityIsHeld` follows for every step.

**BootstrapRunner.** `PreparedBatchesVerify` rests on `WritesInOrder`: the files before the one at hand are those
of the command's ledger and audit. A file that exists is never changed, so a command whose predecessor was
killed, or had another audit, either finds its own bytes or ends before the manifest, which is written last.

`ArtifactsAgree` has to survive a kill inside any file, also one of a migration that rewrites a completed source. So
`RunnerSafe` says of each thread what it has yet to write (`ThreadHolds`): every file is as the thread wants it or
is among its writes, an extraction marks the record first and completes it last, and a migration writes the
record first. A completed record therefore vouches for every file that can be read, though not for a torn one
(`Whole`), and a later run that meets a torn file raises before it reports. This gives `CompletedSourcesAreWhole`
without a hypothesis. That a report is current also needs that a thread works under the policy of its run's
directories, which stay as they are because preparations and runs exclude each other (`JobHolds`), and
`InputsAgree`, which the code does not enforce: a run reuses cached results by the category of its own
input (`runner.py:612`), so if a directory lists a practitioner's essay as academic and its run reuses what a
killed migration left, nodes keep the support of cards that are gone; and contents are looked up by URL in
the merged bundle (`runner.py:1350`), so the text of a later batch replaces that of an earlier one. The instance
satisfies it (`DirectoriesAgree`).

**GovernanceClients.** `ServerSafe` is about the service: a stored record shows an entry of its version's chain and is
the only one of its actor, operation and file (`AnswersHold`), and an entry that was made through a key has its
record (`ChainHolds`). Entries and records are only added, so what a run has counted as accepted stays so
(`NothingUndone`), and a second amendment by one operator would need a second record: `RerunsAreIdempotent`. `RunsSafe`
adds that a run owns its session and its report until it has reported.

**AcquisitionStaging.** Modification times order the ledgers, and a time is final once the command that linked the
ledger has ordered it (`Fixed`). A command knows a time that none of the ledgers exceeds which were fixed when it looked
(`StagerHolds`); ledgers linked since may be anywhere, and the property promises nothing about those. So a
ledger is strictly newer than those staged before it (`SinceHolds`), and whoever compares them all refuses the
older one. `ConfirmedIsRegistered` needs only that payloads are matched with the hash in the ledger when they are
prepared, and that the prepared contents, not the files, are sent.

**AcquisitionBundle.** `OutcomesAreTrue` is about runs that share every file, and promises a report's truth
only as long as nothing was disturbed, so `BundleSafe` has a part per history variable. A run that has had the
directory to itself has each file before the one at hand right, and the one at hand in a temporary that only it
has opened (`AloneHolds`); that is why it cannot fail (`NeverFails`). A run that reads again has found the files
before the one at hand right as long as no other wrote to the directory (`ProcessingHolds`), whatever happened while it
wrote. The orders of the files are functions into the naturals; that a next file exists, and that after the
last one all are covered, is `OrderSteps`.

### What is only model-checked

- Liveness (`AttemptsTerminate`, `RequestsEnd`, `ActivationsEnd`, `ApprovalsEnd`): it rests on fairness and
  ENABLED.
- `CandidatesKeepLineage`: a candidate's contents are folded over its revisions, and what a fold computes for every
  sequence needs induction over data.
- `LockTypeOK` and `GovernanceTypeOK` are conjunctions of the type invariants of several modules beside each other;
  the theorems state the part of each module they are about (`TypeCorrect`, `ManifestsAreTyped`,
  `BundlesAreTyped`, `RunnerIsTyped` and so on).

## Plan

1. *(done)* `ExtractionJobs`, `JobLedger`, `StorageSaga`, `CorpusActivation` with their theorems.
2. *(done)* The governance services and their clients: `SourceClaimReview`, `MappingReview`, `ManifestGovernance`,
   `AccountRoles`, `GovernanceClients`, `RuntimeCorpus`.
3. *(done)* The commands over files: `AcquisitionStaging`, `AcquisitionBundle`, `PreparedInput`, `BootstrapRunner`,
   `LocalizationRuns`.
4. *(done)* `StorageSaga_proofs`: `CommittedPointsStay` and `PointsChangeUnderOperation`, from what each phase of a
   writing thread knows of its collection.
5. *(done)* Theorems about the modules of 2 and 3 that hold for every constant: `AccountRoles`, `SourceClaimReview` (with
   the decisions of `require_current_source_approval` and `_current_evidence_card` for every rank), `MappingReview`,
   `RuntimeCorpus`, `GovernanceClients`, `AcquisitionStaging`, `PreparedInput`.
6. *(done)* What those left: `CompletedSourcesAreWhole` and `ReportsAreCurrent` for `BootstrapRunner`, `OutcomesAreSound` for
   `AcquisitionBundle`, `CorporaAreCurrent` for `ManifestGovernance`. Of the safety properties only
   `CandidatesKeepLineage` stays with TLC, because of its folds.

## Not modelled

- Text heuristics of the quality gates, section selection, embeddings, ranking and chunking: functions of
  text and vectors without state.
- HTTP, the frontend, search and citation clients, and the schema itself beyond the triggers, indexes and
  constraints the services rely on.
- The audit chain: rows appended in the transaction they report on, by which no service decides.
- The in-memory workflows of the development mode (`BootstrapClaimWorkflow` and its companions), which the
  production services replace.
- The demo and bootstrap corpora of `app/runtime_corpus.py`, which are files checked once at startup, and the read
  model over them.
- Backup and restore: scripts over a demonstration deployment whose database holds its schema revision only.
  `PROJECT.json` lists what can go wrong there.
- A Qdrant request that the client has given up on is assumed to be over, applied in part or in full but not
  later. Late requests to the production service itself are in `GovernanceClients`.
- Two bootstrap runs, or two localization commands, in one directory at the same time: nothing in the code
  prevents them, and nothing in the docs provides for them.
- The evidence of concurrent mapping reviews is assumed disjoint; the race of two requests with one
  idempotency key is not split into steps (the second waits for the first inside its savepoint).

Rows are never deleted in the code and are not in the models.
