--------------------------- MODULE ExtractionJobs ---------------------------
(***************************************************************************)
(* Governed GLM extraction: persistence/extraction_jobs.py (job rows,      *)
(* append-only attempts, the one proposal artifact of a job) driven by     *)
(* request threads of research/extraction/production_jobs.py, which submit *)
(* the proposal's Claims through research/review/workflow_service.py.      *)
(*                                                                         *)
(* One action is one database transaction (it commits under a row lock, or *)
(* reads one snapshot) or the one outbound GLM call.  Between two actions  *)
(* of a request any other request, reviewer or administrator may commit.   *)
(* Requests that change nothing (replaying a SUCCEEDED job, refusing a     *)
(* RUNNING one, list and get) are stuttering steps and have no action.     *)
(***************************************************************************)
EXTENDS Naturals, FiniteSets

CONSTANTS
  Workers,      \* request threads, across all server processes
  Operators,    \* users holding the operator role
  Cleared,      \* operators who also see a raised classification (reviewer role)
  Configs,      \* model / prompt / schema / chunk configurations of a job
  RunIds,       \* extraction run identities
  RunIdOf,      \* the run identity a configuration derives (prompt not included)
  MaxVersion,   \* bound: immutable versions of the Source
  MaxClaims,    \* bound: Claims one proposal can carry
  MaxAttempts,  \* bound: attempts per job
  MaxFaults,    \* bound: crashes, database errors and lost commit replies
  None          \* no operator, no job

ASSUME ConstantsAssumption ==
  /\ Cleared \subseteq Operators
  /\ RunIdOf \in [Configs -> RunIds]
  /\ MaxVersion \in Nat \ {0}
  /\ MaxClaims \in Nat
  /\ MaxAttempts \in Nat
  /\ MaxFaults \in Nat

Versions == 1..MaxVersion
Claims == 1..MaxClaims
AttemptNumbers == 1..MaxAttempts

\* The idempotency key of a job hashes exactly its Source version (which fixes
\* review decision, permission request and content) and its configuration.
Jobs == [version : Versions, config : Configs]

\* A Claim candidate's checksum covers its Source version, run and content.
ClaimKeys == [version : Versions, run : RunIds, claim : Claims]
ClaimKey(j, c) == [version |-> j.version, run |-> RunIdOf[j.config], claim |-> c]
Submissions == [key : ClaimKeys, by : Operators]

VARIABLES
  newest,        \* number of the newest version of the Source
  approval,      \* per version: what its (terminal) review allows
  raised,        \* versions whose effective sensitivity a Claim review raised
  obsolete,      \* configurations a redeployment no longer executes
  status,        \* extraction_jobs.status ("absent": no row)
  attempt_count, \* extraction_jobs.attempt_count
  outcome,       \* extraction_attempts: the recorded outcome of each attempt
  stored,        \* whether the job has its proposal artifact row
  proposal,      \* the Claims of that artifact
  claims,        \* claim_candidates rows, with their submitter
  idempotency,   \* completed "claims.submit" records, per actor and key
  outbound,      \* attempts whose Source text was handed to GLM
  req,           \* the request each worker is executing
  faults         \* faults so far

sourceVars == <<newest, approval, raised, obsolete>>
jobVars    == <<status, attempt_count, outcome, stored, proposal>>
claimVars  == <<claims, idempotency>>
vars == <<sourceVars, jobVars, claimVars, outbound, req, faults>>

Phases == {"idle", "create", "insert", "load", "start", "artifact", "extract",
           "revalidate", "persist", "submit", "result", "fail"}

Request(pc, o, j) ==
  [pc |-> pc, op |-> o, job |-> j, attempt |-> 0, todo |-> {}, live |-> TRUE]

Idle == Request("idle", None, None)

Busy == [pc : Phases \ {"idle"}, op : Operators, job : Jobs,
         attempt : 0..MaxAttempts, todo : SUBSET Claims, live : BOOLEAN]

Requests == {Idle} \cup Busy

SourceTypeOK ==
  /\ newest \in Versions
  /\ approval \in [Versions -> {"pending", "extractable", "barred"}]
  /\ raised \subseteq Versions
  /\ obsolete \subseteq Configs

JobTypeOK ==
  /\ status \in [Jobs -> {"absent", "queued", "running", "succeeded", "failed"}]
  /\ attempt_count \in [Jobs -> 0..MaxAttempts]
  /\ outcome \in [Jobs -> [AttemptNumbers -> {"none", "succeeded", "failed"}]]
  /\ stored \in [Jobs -> BOOLEAN]
  /\ proposal \in [Jobs -> SUBSET Claims]

TypeOK ==
  /\ SourceTypeOK
  /\ JobTypeOK
  /\ claims \subseteq Submissions
  /\ idempotency \subseteq Submissions
  /\ outbound \in [Jobs -> SUBSET (0..MaxAttempts)]
  /\ req \in [Workers -> Requests]
  /\ faults \in 0..MaxFaults

Init ==
  /\ newest = 1
  /\ approval = [v \in Versions |-> "pending"]
  /\ raised = {}
  /\ obsolete = {}
  /\ status = [j \in Jobs |-> "absent"]
  /\ attempt_count = [j \in Jobs |-> 0]
  /\ outcome = [j \in Jobs |-> [n \in AttemptNumbers |-> "none"]]
  /\ stored = [j \in Jobs |-> FALSE]
  /\ proposal = [j \in Jobs |-> {}]
  /\ claims = {}
  /\ idempotency = {}
  /\ outbound = [j \in Jobs |-> {}]
  /\ req = [w \in Workers |-> Idle]
  /\ faults = 0

-----------------------------------------------------------------------------
(* Reads shared by several transactions.                                   *)

\* ProductionSourceAdapter._load_from_session and the outbound policy: newest
\* version, approved by its current decision, extraction and sensitivity allowed.
Loadable(v) == newest = v /\ approval[v] = "extractable"

\* _ensure_sensitivity_visible on the effective sensitivity of the Source.
Visible(o, v) == v \notin raised \/ o \in Cleared

\* Mutant: the attempt number alone decides.
Mutant_Active(j, n) == attempt_count[j] = n

\* ExtractionJobRepository._finish_attempt: the attempt is the active one.
Active(j, n) ==
  /\ outcome[j][n] = "none"
  /\ status[j] = "running"
  /\ attempt_count[j] = n

Goto(w, to) == req' = [req EXCEPT ![w].pc = to]
Leave(w) == req' = [req EXCEPT ![w] = Idle]

\* A mutation commits.  Its reply either arrives, or is lost and surfaces as an
\* exception in the thread although the rows are there.
Commits(w, to, todo) ==
  \/ /\ req' = [req EXCEPT ![w].pc = to, ![w].todo = todo]
     /\ UNCHANGED faults
  \/ /\ faults < MaxFaults
     /\ faults' = faults + 1
     /\ Goto(w, "fail")

-----------------------------------------------------------------------------
(* Queueing: ProductionExtractionService.queue and create_job.              *)

Accept(w, o, j, pc) ==
  /\ req[w].pc = "idle"
  /\ j.config \notin obsolete
  /\ req' = [req EXCEPT ![w] = Request(pc, o, j)]

\* The envelope is loaded in a session of its own, before the unit of work.
QueueLoad(w, o, j) ==
  /\ Accept(w, o, j, "create")
  /\ Loadable(j.version)
  /\ UNCHANGED <<sourceVars, jobVars, claimVars, outbound, faults>>

\* create_job reads the chain again; nothing it reads is locked.
QueueCheck(w) ==
  /\ req[w].pc = "create"
  /\ IF req[w].live /\ Loadable(req[w].job.version) THEN Goto(w, "insert") ELSE Leave(w)
  /\ UNCHANGED <<sourceVars, jobVars, claimVars, outbound, faults>>

\* The unique idempotency key makes the first insert the winner; a later one
\* returns the winner's row untouched.
QueueInsert(w) ==
  LET j == req[w].job IN
  /\ req[w].pc = "insert"
  /\ status' = [status EXCEPT ![j] = IF @ = "absent" THEN "queued" ELSE @]
  /\ Leave(w)
  /\ UNCHANGED <<sourceVars, attempt_count, outcome, stored, proposal,
                 claimVars, outbound, faults>>

-----------------------------------------------------------------------------
(* Running: ProductionExtractionService.run.                                *)

\* _execution_snapshot reads the job without a lock.
RunSnapshot(w, o, j) ==
  /\ Accept(w, o, j, "load")
  /\ status[j] \in {"queued", "failed"}
  /\ UNCHANGED <<sourceVars, jobVars, claimVars, outbound, faults>>

\* The Source and the outbound policy, before the attempt starts.
RunLoadSource(w) ==
  /\ req[w].pc = "load"
  /\ IF Loadable(req[w].job.version) THEN Goto(w, "start") ELSE Leave(w)
  /\ UNCHANGED <<sourceVars, jobVars, claimVars, outbound, faults>>

\* Mutant: the snapshot's status is trusted.
Mutant_Startable(w) == req[w].live /\ attempt_count[req[w].job] < MaxAttempts

\* start_attempt decides under the job's row lock, not from the snapshot.
Startable(w) ==
  LET j == req[w].job IN
  /\ req[w].live
  /\ status[j] \in {"queued", "failed"}
  /\ attempt_count[j] < MaxAttempts

StartAttempt(w) ==
  LET j == req[w].job IN
  /\ req[w].pc = "start"
  /\ Startable(w)
  /\ status' = [status EXCEPT ![j] = "running"]
  /\ attempt_count' = [attempt_count EXCEPT ![j] = @ + 1]
  /\ req' = [req EXCEPT ![w].pc = "artifact", ![w].attempt = attempt_count[j] + 1]
  /\ UNCHANGED <<sourceVars, outcome, stored, proposal, claimVars, outbound, faults>>

StartRefused(w) ==
  /\ req[w].pc = "start"
  /\ ~Startable(w)
  /\ Leave(w)
  /\ UNCHANGED <<sourceVars, jobVars, claimVars, outbound, faults>>

\* Mutant: every attempt extracts anew.
Mutant_LoadArtifact(w) ==
  /\ req[w].pc = "artifact"
  /\ Goto(w, "extract")
  /\ UNCHANGED <<sourceVars, jobVars, claimVars, outbound, faults>>

\* An earlier attempt's proposal is resumed; only without one is GLM called.
LoadArtifact(w) ==
  LET j == req[w].job IN
  /\ req[w].pc = "artifact"
  /\ IF stored[j]
       THEN req' = [req EXCEPT ![w].pc = "submit", ![w].todo = proposal[j]]
       ELSE Goto(w, "extract")
  /\ UNCHANGED <<sourceVars, jobVars, claimVars, outbound, faults>>

\* extract_candidate: the text leaves; a proposal comes back, or an error.
CallGLM(w) ==
  LET j == req[w].job IN
  /\ req[w].pc = "extract"
  /\ outbound' = [outbound EXCEPT ![j] = @ \cup {req[w].attempt}]
  /\ \/ \E found \in SUBSET Claims :
          req' = [req EXCEPT ![w].pc = "revalidate", ![w].todo = found]
     \/ Goto(w, "fail")
  /\ UNCHANGED <<sourceVars, jobVars, claimVars, faults>>

\* Mutant: Claims are submitted before their proposal is kept.
Mutant_Revalidate(w) ==
  /\ req[w].pc = "revalidate"
  /\ IF Loadable(req[w].job.version) THEN Goto(w, "submit") ELSE Goto(w, "fail")
  /\ UNCHANGED <<sourceVars, jobVars, claimVars, outbound, faults>>

\* The chain is loaded again, in a session that ends before the proposal is kept.
Revalidate(w) ==
  /\ req[w].pc = "revalidate"
  /\ IF Loadable(req[w].job.version) THEN Goto(w, "persist") ELSE Goto(w, "fail")
  /\ UNCHANGED <<sourceVars, jobVars, claimVars, outbound, faults>>

\* _persist_artifact and store_proposal_artifact, under the job's row lock.
Persistable(w) ==
  LET j == req[w].job IN
  /\ req[w].live
  /\ status[j] = "running"
  /\ attempt_count[j] = req[w].attempt
  /\ stored[j] => proposal[j] = req[w].todo

PersistProposal(w) ==
  LET j == req[w].job IN
  /\ req[w].pc = "persist"
  /\ Persistable(w)
  /\ stored' = [stored EXCEPT ![j] = TRUE]
  /\ proposal' = [proposal EXCEPT ![j] = req[w].todo]
  /\ Commits(w, "submit", req[w].todo)
  /\ UNCHANGED <<sourceVars, status, attempt_count, outcome, claimVars, outbound>>

\* A proposal's identity hashes its run and all of its content, and is unique
\* among artifacts: a job that differs in its prompt only may find it taken.
IdentityTaken(w) ==
  LET j == req[w].job IN
  \E i \in Jobs \ {j} :
    /\ stored[i] /\ proposal[i] = req[w].todo
    /\ i.version = j.version /\ RunIdOf[i.config] = RunIdOf[j.config]

PersistRefused(w) ==
  /\ req[w].pc = "persist"
  /\ ~Persistable(w) \/ IdentityTaken(w)
  /\ Goto(w, "fail")
  /\ UNCHANGED <<sourceVars, jobVars, claimVars, outbound, faults>>

\* The submissions go in the artifact's order, one transaction each.
NextSubmission(w, c) ==
  /\ req[w].pc = "submit"
  /\ c \in req[w].todo
  /\ \A d \in req[w].todo : c <= d

Submission(w, c) == [key |-> ClaimKey(req[w].job, c), by |-> req[w].op]

\* Both paths through submit_claim re-check the actor and the classification.
Admitted(w) == req[w].live /\ Visible(req[w].op, req[w].job.version)

\* The actor's own completed record replays without a second row.
SubmitReplays(w, c) ==
  /\ NextSubmission(w, c)
  /\ Admitted(w)
  /\ Submission(w, c) \in idempotency
  /\ req' = [req EXCEPT ![w].todo = @ \ {c}]
  /\ UNCHANGED <<sourceVars, jobVars, claimVars, outbound, faults>>

\* Mutant: the candidate's checksum is not looked up.
Mutant_Insertable(w, c) == Submission(w, c) \notin idempotency

\* Record and row are one transaction, under the Source version's lock.
Insertable(w, c) ==
  /\ Submission(w, c) \notin idempotency
  /\ \A s \in claims : s.key # ClaimKey(req[w].job, c)

SubmitClaim(w, c) ==
  /\ NextSubmission(w, c)
  /\ Admitted(w)
  /\ Insertable(w, c)
  /\ claims' = claims \cup {Submission(w, c)}
  /\ idempotency' = idempotency \cup {Submission(w, c)}
  /\ Commits(w, "submit", req[w].todo \ {c})
  /\ UNCHANGED <<sourceVars, jobVars, outbound>>

\* Mutant: a refused submission is skipped.
Mutant_SubmitRefused(w, c) ==
  /\ NextSubmission(w, c)
  /\ ~Admitted(w)
  /\ req' = [req EXCEPT ![w].todo = @ \ {c}]
  /\ UNCHANGED <<sourceVars, jobVars, claimVars, outbound, faults>>

\* Session, classification, or a candidate another actor already submitted.
SubmitRefused(w, c) ==
  /\ NextSubmission(w, c)
  /\ \/ ~Admitted(w)
     \/ /\ Submission(w, c) \notin idempotency
        /\ \E s \in claims : s.key = ClaimKey(req[w].job, c)
  /\ Goto(w, "fail")
  /\ UNCHANGED <<sourceVars, jobVars, claimVars, outbound, faults>>

\* Mutant: success is recorded before the Claims are submitted.
Mutant_SucceedAttempt(w) ==
  LET j == req[w].job
      n == req[w].attempt IN
  /\ req[w].pc = "submit"
  /\ Active(j, n) /\ stored[j]
  /\ outcome' = [outcome EXCEPT ![j][n] = "succeeded"]
  /\ status' = [status EXCEPT ![j] = "succeeded"]
  /\ Commits(w, "result", {})
  /\ UNCHANGED <<sourceVars, attempt_count, stored, proposal, claimVars, outbound>>

\* succeed_attempt: no live session is required, the exact artifact is.
SucceedAttempt(w) ==
  LET j == req[w].job
      n == req[w].attempt IN
  /\ req[w].pc = "submit"
  /\ req[w].todo = {}
  /\ IF Active(j, n) /\ stored[j]
       THEN /\ outcome' = [outcome EXCEPT ![j][n] = "succeeded"]
            /\ status' = [status EXCEPT ![j] = "succeeded"]
            /\ Commits(w, "result", {})
       ELSE /\ Goto(w, "fail")
            /\ UNCHANGED <<outcome, status, faults>>
  /\ UNCHANGED <<sourceVars, attempt_count, stored, proposal, claimVars, outbound>>

\* _run_result reads the job through get_job, which wants a live operator; it
\* is inside the try block, so a refusal there runs the failure path.
ReadResult(w) ==
  /\ req[w].pc = "result"
  /\ IF req[w].live THEN Leave(w) ELSE Goto(w, "fail")
  /\ UNCHANGED <<sourceVars, jobVars, claimVars, outbound, faults>>

\* Mutant: the job is failed without its attempt row.
Mutant_FailJobOnly(w) ==
  LET j == req[w].job IN
  /\ req[w].pc = "fail"
  /\ status' = [status EXCEPT ![j] = IF Active(j, req[w].attempt) THEN "failed" ELSE @]
  /\ Leave(w)
  /\ UNCHANGED <<sourceVars, attempt_count, outcome, stored, proposal, claimVars,
                 outbound, faults>>

\* Mutant: recording a failure wants a live operator.
Mutant_FailWhileLive(w) ==
  LET j == req[w].job
      n == req[w].attempt IN
  /\ req[w].pc = "fail"
  /\ IF req[w].live /\ Active(j, n)
       THEN /\ outcome' = [outcome EXCEPT ![j][n] = "failed"]
            /\ status' = [status EXCEPT ![j] = "failed"]
       ELSE UNCHANGED <<outcome, status>>
  /\ Leave(w)
  /\ UNCHANGED <<sourceVars, attempt_count, stored, proposal, claimVars, outbound, faults>>

\* _fail_attempt swallows every exception, a refusal by _finish_attempt included.
FailAttempt(w) ==
  LET j == req[w].job
      n == req[w].attempt IN
  /\ req[w].pc = "fail"
  /\ IF Active(j, n)
       THEN /\ outcome' = [outcome EXCEPT ![j][n] = "failed"]
            /\ status' = [status EXCEPT ![j] = "failed"]
       ELSE UNCHANGED <<outcome, status>>
  /\ Leave(w)
  /\ UNCHANGED <<sourceVars, attempt_count, stored, proposal, claimVars, outbound, faults>>

-----------------------------------------------------------------------------
(* Faults.                                                                  *)

\* A statement or commit fails inside the try block; its transaction rolls back.
DatabaseError(w) ==
  /\ faults < MaxFaults
  /\ req[w].pc \in {"artifact", "revalidate", "persist", "submit", "result"}
  /\ Goto(w, "fail")
  /\ faults' = faults + 1
  /\ UNCHANGED <<sourceVars, jobVars, claimVars, outbound>>

\* The process dies.  The same step is an error outside the try block, a lost
\* reply to start_attempt's commit, and an error inside _fail_attempt.
Crash(w) ==
  /\ faults < MaxFaults
  /\ req[w].pc # "idle"
  /\ Leave(w)
  /\ faults' = faults + 1
  /\ UNCHANGED <<sourceVars, jobVars, claimVars, outbound>>

-----------------------------------------------------------------------------
(* Everyone else.                                                           *)

\* Logout, expiry, revocation or suspension during a request.
RevokeSession(w) ==
  /\ req[w].pc # "idle"
  /\ req[w].live
  /\ req' = [req EXCEPT ![w].live = FALSE]
  /\ UNCHANGED <<sourceVars, jobVars, claimVars, outbound, faults>>

AddSourceVersion ==
  /\ newest < MaxVersion
  /\ newest' = newest + 1
  /\ UNCHANGED <<approval, raised, obsolete, jobVars, claimVars, outbound, req, faults>>

ReviewSource(v, d) ==
  /\ v <= newest
  /\ approval[v] = "pending"
  /\ approval' = [approval EXCEPT ![v] = d]
  /\ UNCHANGED <<newest, raised, obsolete, jobVars, claimVars, outbound, req, faults>>

\* review_claim records a classification above the Source's own.
RaiseClassification(v) ==
  /\ \E s \in claims : s.key.version = v
  /\ raised' = raised \cup {v}
  /\ UNCHANGED <<newest, approval, obsolete, jobVars, claimVars, outbound, req, faults>>

\* A deployment with a new prompt version: jobs of the old one are not run.
Redeploy(c) ==
  /\ obsolete' = obsolete \cup {c}
  /\ UNCHANGED <<newest, approval, raised, jobVars, claimVars, outbound, req, faults>>

-----------------------------------------------------------------------------
\* What a worker does on its own account once a request is accepted.
Progress(w) ==
  \/ QueueCheck(w) \/ QueueInsert(w)
  \/ RunLoadSource(w)
  \/ StartAttempt(w) \/ StartRefused(w)
  \/ LoadArtifact(w) \/ CallGLM(w) \/ Revalidate(w)
  \/ PersistProposal(w) \/ PersistRefused(w)
  \/ \E c \in Claims : SubmitReplays(w, c) \/ SubmitClaim(w, c) \/ SubmitRefused(w, c)
  \/ SucceedAttempt(w) \/ ReadResult(w) \/ FailAttempt(w)

Next ==
  \/ \E w \in Workers, o \in Operators, j \in Jobs :
       QueueLoad(w, o, j) \/ RunSnapshot(w, o, j)
  \/ \E w \in Workers : Progress(w) \/ DatabaseError(w) \/ Crash(w) \/ RevokeSession(w)
  \/ AddSourceVersion
  \/ \E v \in Versions :
       \/ \E d \in {"extractable", "barred"} : ReviewSource(v, d)
       \/ RaiseClassification(v)
  \/ \E c \in Configs : Redeploy(c)

Spec == Init /\ [][Next]_vars

\* Threads run on: every database call and the GLM client return or time out.
FairSpec == Spec /\ \A w \in Workers : WF_vars(Progress(w))
-----------------------------------------------------------------------------
(* Safety.                                                                  *)

\* Between start_attempt and the end of the run.
Attempting(w) == req[w].pc \in {"artifact", "extract", "revalidate", "persist", "submit"}

\* ... or on the way to record the attempt's failure.
Holds(w) ==
  \/ Attempting(w)
  \/ req[w].pc = "fail" /\ outcome[req[w].job][req[w].attempt] = "none"

\* A job has at most one thread in an attempt, and that thread's attempt is the
\* running one: two operators starting the same job from the same unlocked
\* snapshot cannot both call GLM or both submit (start_attempt's row lock).
OneActiveAttempt ==
  /\ \A w \in Workers : Holds(w) =>
       status[req[w].job] = "running" /\ attempt_count[req[w].job] = req[w].attempt
  /\ \A w, x \in Workers :
       Holds(w) /\ Holds(x) /\ req[w].job = req[x].job => w = x

\* The attempt history has no gap and no rewritten entry: every attempt before
\* the current one ended, the current one ended exactly when the job is not
\* running, and only the last attempt can have succeeded.
AttemptHistory ==
  \A j \in Jobs, n \in AttemptNumbers :
    /\ outcome[j][n] # "none" <=>
         n < attempt_count[j] \/ (n = attempt_count[j] /\ status[j] # "running")
    /\ outcome[j][n] = "succeeded" => status[j] = "succeeded" /\ n = attempt_count[j]

\* A SUCCEEDED job has its proposal artifact, and every Claim of it is in the
\* review queue, whichever attempts and operators submitted them.
SucceededIsComplete ==
  \A j \in Jobs : status[j] = "succeeded" =>
    /\ stored[j]
    /\ \A c \in proposal[j] : \E s \in claims : s.key = ClaimKey(j, c)

\* Every Claim in the queue belongs to a persisted proposal: what a crashed or
\* refused attempt extracted but did not persist never reaches review.
ClaimsComeFromProposals ==
  \A s \in claims : \E j \in Jobs :
    stored[j] /\ \E c \in proposal[j] : s.key = ClaimKey(j, c)

\* However often, and by whomever, a proposal is resumed, a Claim enters the
\* queue once, and a completed idempotency record exists exactly for the
\* submission that created the row (record and row commit together).
SubmittedOnce ==
  /\ \A s, t \in claims : s.key = t.key => s = t
  /\ idempotency = claims

\* A persisted proposal ends extraction: no later attempt sends the Source to
\* GLM again, and no attempt sends it for a version whose review barred it.
NoNeedlessOutbound ==
  [][\A j \in Jobs : outbound'[j] # outbound[j] =>
       ~stored[j] /\ approval[j.version] = "extractable"]_vars

\* Success is final, and so are the artifact and each recorded outcome: a late
\* failure path (a lost commit reply, a revoked session while the result is
\* read) cannot take them back.
TerminalIsFinal ==
  [][\A j \in Jobs :
       /\ status[j] = "succeeded" => status'[j] = "succeeded"
       /\ stored[j] => stored'[j] /\ proposal'[j] = proposal[j]
       /\ \A n \in AttemptNumbers :
            outcome[j][n] # "none" => outcome'[j][n] = outcome[j][n]]_vars

-----------------------------------------------------------------------------
(* The inductive invariant behind the safety theorems.                      *)

\* A thread inside or at the end of an attempt carries that attempt's number,
\* and has recorded its success before it reads the result.
CarriesAttempt ==
  \A w \in Workers :
    /\ Attempting(w) \/ req[w].pc \in {"result", "fail"} => req[w].attempt \in AttemptNumbers
    /\ req[w].pc = "result" => outcome[req[w].job][req[w].attempt] = "succeeded"

\* What is no longer to be submitted of the stored proposal is in the queue.
SubmitsProposal ==
  \A w \in Workers : req[w].pc = "submit" =>
    /\ stored[req[w].job]
    /\ req[w].todo \subseteq proposal[req[w].job]
    /\ \A c \in proposal[req[w].job] \ req[w].todo :
         \E s \in claims : s.key = ClaimKey(req[w].job, c)

\* Only an attempt that found no proposal extracts, from an approved version.
ExtractsOnce ==
  \A w \in Workers :
    /\ req[w].pc \in {"extract", "revalidate", "persist"} => ~stored[req[w].job]
    /\ req[w].pc \in {"start", "artifact", "extract"} =>
         approval[req[w].job.version] = "extractable"

\* A proposal belongs to a queued job, and Claims to a proposal.
ArtifactRows ==
  \A j \in Jobs : /\ status[j] = "absent" => ~stored[j]
                  /\ ~stored[j] => proposal[j] = {}

IndInv ==
  /\ TypeOK
  /\ OneActiveAttempt
  /\ AttemptHistory
  /\ CarriesAttempt
  /\ SubmitsProposal
  /\ ExtractsOnce
  /\ ArtifactRows
  /\ SucceededIsComplete
  /\ ClaimsComeFromProposals
  /\ SubmittedOnce

-----------------------------------------------------------------------------
(* Refinement: the job tables and the Claim table implement JobLedger.      *)

PhaseOf(s, kept) ==
  IF s = "absent" THEN "absent"
  ELSE IF s = "succeeded" THEN "done"
  ELSE IF kept THEN "proposed" ELSE "open"

InQueue(j, c) == \E s \in claims : s.key = ClaimKey(j, c)

Ledger == INSTANCE JobLedger WITH
  phase   <- [j \in Jobs |-> PhaseOf(status[j], stored[j])],
  chosen  <- proposal,
  entered <- [j \in Jobs |-> {c \in proposal[j] : InQueue(j, c)}]

\* Through retries, races, lost replies and crashes, the tables only ever show
\* what the ledger of JobLedger allows.
ImplementsLedger == Ledger!Spec

-----------------------------------------------------------------------------
(* Liveness, without faults.                                                *)

\* Whatever reviewers, administrators and GLM do meanwhile, a started attempt
\* ends: revocation, supersession and refusals all reach the failure path.
AttemptsTerminate ==
  \A j \in Jobs : status[j] = "running" ~> status[j] # "running"

-----------------------------------------------------------------------------
(* What the code's own words say beyond that.                               *)

\* "a partial failure can resume without sending the Source to GLM again"
\* (run's docstring): an operator resuming a stored proposal is not refused
\* because a Claim of it is already in the queue.
PartialProposalResumes ==
  \A w \in Workers, c \in Claims :
    NextSubmission(w, c) /\ Submission(w, c) \notin idempotency =>
      \A s \in claims : s.key # ClaimKey(req[w].job, c)

\* "sensitive/secret content is filtered before it reaches ... GLM" and a
\* classified Claim raises its Source "so its raw text cannot bypass child
\* controls": the outbound gate of a run refuses a version already raised.
OutboundGateSeesRaise ==
  [][\A w \in Workers :
       req[w].pc = "load" /\ req'[w].pc = "start" =>
         req[w].job.version \notin raised]_vars
=============================================================================
