------------------------ MODULE ExtractionJobs_proofs ------------------------
(***************************************************************************)
(* Machine-checked facts about ExtractionJobs, for any number of workers,  *)
(* operators, configurations, versions, Claims, attempts and faults.       *)
(***************************************************************************)
EXTENDS ExtractionJobs, TLAPS

-----------------------------------------------------------------------------
(* Requests.                                                                *)

\* A worker that is not idle executes a request with an actor and a job.
LEMMA BusyRequest ==
  ASSUME req \in [Workers -> Requests], NEW w \in Workers, req[w].pc # "idle"
  PROVE  req[w] \in Busy
  BY DEF Requests, Idle, Request

\* Moving a busy request to another phase keeps it well-formed.
LEMMA GotoOK ==
  ASSUME req \in [Workers -> Requests], NEW w \in Workers, req[w].pc # "idle",
         NEW to \in Phases \ {"idle"}, Goto(w, to)
  PROVE  req' \in [Workers -> Requests]
  <1>1. req[w] \in Busy
    BY BusyRequest
  <1>2. [req[w] EXCEPT !.pc = to] \in Busy
    BY <1>1 DEF Busy
  <1>3. QED
    BY <1>2 DEF Goto, Requests

\* So does moving it on with another set of Claims left to submit.
LEMMA TodoOK ==
  ASSUME req \in [Workers -> Requests], NEW w \in Workers, req[w].pc # "idle",
         NEW to \in Phases \ {"idle"}, NEW T \in SUBSET Claims,
         req' = [req EXCEPT ![w].pc = to, ![w].todo = T]
  PROVE  req' \in [Workers -> Requests]
  <1>1. req[w] \in Busy
    BY BusyRequest
  <1>2. [req[w] EXCEPT !.pc = to, !.todo = T] \in Busy
    BY <1>1 DEF Busy
  <1>3. QED
    BY <1>2 DEF Requests

\* A commit, with or without its reply, keeps requests and fault count typed.
LEMMA CommitsOK ==
  ASSUME req \in [Workers -> Requests], faults \in 0..MaxFaults,
         NEW w \in Workers, req[w].pc # "idle",
         NEW to \in Phases \ {"idle"}, NEW T \in SUBSET Claims, Commits(w, to, T)
  PROVE  req' \in [Workers -> Requests] /\ faults' \in 0..MaxFaults
  <1>1. CASE req' = [req EXCEPT ![w].pc = to, ![w].todo = T] /\ UNCHANGED faults
    BY <1>1, TodoOK
  <1>2. CASE faults < MaxFaults /\ faults' = faults + 1 /\ Goto(w, "fail")
    <2>1. "fail" \in Phases \ {"idle"}
      BY DEF Phases
    <2>2. req' \in [Workers -> Requests]
      BY <1>2, <2>1, GotoOK
    <2>3. QED
      BY <1>2, <2>2, ConstantsAssumption
  <1>3. QED
    BY <1>1, <1>2 DEF Commits

\* Recording the outcome of an attempt keeps the attempt rows typed.
LEMMA OutcomeOK ==
  ASSUME outcome \in [Jobs -> [AttemptNumbers -> {"none", "succeeded", "failed"}]],
         NEW j \in Jobs, NEW n, NEW r \in {"succeeded", "failed"},
         outcome' = [outcome EXCEPT ![j][n] = r]
  PROVE  outcome' \in [Jobs -> [AttemptNumbers -> {"none", "succeeded", "failed"}]]
  <1>1. [outcome[j] EXCEPT ![n] = r] \in [AttemptNumbers -> {"none", "succeeded", "failed"}]
    OBVIOUS
  <1>2. QED
    BY <1>1

LEMMA LeaveOK ==
  ASSUME req \in [Workers -> Requests], NEW w \in Workers, Leave(w)
  PROVE  req' \in [Workers -> Requests]
  BY DEF Leave, Requests

\* Accepting a request makes it busy.
LEMMA AcceptOK ==
  ASSUME req \in [Workers -> Requests], NEW w \in Workers, NEW o \in Operators,
         NEW j \in Jobs, NEW to \in Phases \ {"idle"}, Accept(w, o, j, to)
  PROVE  req' \in [Workers -> Requests]
  <1>1. Request(to, o, j) \in Busy
    BY ConstantsAssumption DEF Request, Busy
  <1>2. QED
    BY <1>1 DEF Accept, Requests

-----------------------------------------------------------------------------
(* Type correctness.                                                        *)

\* The initial state has the declared types.
LEMMA InitTypeOK == Init => TypeOK
  BY ConstantsAssumption
     DEF Init, TypeOK, SourceTypeOK, JobTypeOK, Requests, Versions, AttemptNumbers

\* Every row a transaction writes and every phase a request enters has the
\* declared type (rows of extraction_jobs, extraction_attempts, the artifact,
\* claim_candidates and idempotency_records, and the state of a thread).
LEMMA NextTypeOK == TypeOK /\ [Next]_vars => TypeOK'
  <1> SUFFICES ASSUME TypeOK, [Next]_vars PROVE TypeOK'
    OBVIOUS
  <1> USE DEF TypeOK, SourceTypeOK, JobTypeOK, sourceVars, jobVars, claimVars
  <1>1. CASE UNCHANGED vars
    BY <1>1 DEF vars
  <1>2. ASSUME NEW w \in Workers, NEW o \in Operators, NEW j \in Jobs,
               QueueLoad(w, o, j) \/ RunSnapshot(w, o, j)
        PROVE TypeOK'
    <2>1. req' \in [Workers -> Requests]
      BY <1>2, AcceptOK DEF QueueLoad, RunSnapshot, Phases
    <2>2. QED
      BY <1>2, <2>1 DEF QueueLoad, RunSnapshot
  <1>3. ASSUME NEW w \in Workers, Progress(w) PROVE TypeOK'
    <2> DEFINE j == req[w].job
               n == req[w].attempt
    <2> \A p \in Phases : p # "idle" => p \in Phases \ {"idle"}
      OBVIOUS
    <2>1. CASE QueueCheck(w) \/ RunLoadSource(w) \/ StartRefused(w) \/ Revalidate(w)
                 \/ PersistRefused(w) \/ ReadResult(w)
      <3>1. req' \in [Workers -> Requests]
        BY <2>1, GotoOK, LeaveOK DEF QueueCheck, RunLoadSource, StartRefused,
           Revalidate, PersistRefused, ReadResult, Phases
      <3>2. QED
        BY <2>1, <3>1 DEF QueueCheck, RunLoadSource, StartRefused, Revalidate,
           PersistRefused, ReadResult
    <2>2. CASE QueueInsert(w)
      BY <2>2, BusyRequest, LeaveOK DEF QueueInsert, Busy
    <2>4. CASE StartAttempt(w)
      <3>1. req[w] \in Busy /\ j \in Jobs
        BY <2>4, BusyRequest DEF StartAttempt, Busy
      <3>2. attempt_count[j] + 1 \in 0..MaxAttempts
        BY <2>4, <3>1, ConstantsAssumption DEF StartAttempt, Startable
      <3>3. [req[w] EXCEPT !.pc = "artifact", !.attempt = attempt_count[j] + 1] \in Busy
        BY <3>1, <3>2 DEF Busy, Phases
      <3>4. req' \in [Workers -> Requests]
        BY <2>4, <3>3 DEF StartAttempt, Requests
      <3>5. QED
        BY <2>4, <3>1, <3>2, <3>4 DEF StartAttempt
    <2>6. CASE LoadArtifact(w)
      <3>1. j \in Jobs
        BY <2>6, BusyRequest DEF LoadArtifact, Busy
      <3>2. req' \in [Workers -> Requests]
        <4>1. "submit" \in Phases \ {"idle"} /\ "extract" \in Phases \ {"idle"}
          BY DEF Phases
        <4>2. CASE stored[j]
          <5>1. req' = [req EXCEPT ![w].pc = "submit", ![w].todo = proposal[j]]
            BY <2>6, <4>2 DEF LoadArtifact
          <5>2. QED
            BY <2>6, <3>1, <4>1, <5>1, TodoOK DEF LoadArtifact
        <4>3. CASE ~stored[j]
          BY <2>6, <4>1, <4>3, GotoOK DEF LoadArtifact
        <4>4. QED
          BY <4>2, <4>3
      <3>3. QED
        BY <2>6, <3>2 DEF LoadArtifact
    <2>7. CASE CallGLM(w)
      <3>1. req[w] \in Busy
        BY <2>7, BusyRequest DEF CallGLM
      <3>2. req' \in [Workers -> Requests]
        BY <2>7, GotoOK, TodoOK DEF CallGLM, Phases
      <3>3. QED
        BY <2>7, <3>1, <3>2 DEF CallGLM, Busy
    <2>9. CASE PersistProposal(w)
      <3>1. req[w] \in Busy
        BY <2>9, BusyRequest DEF PersistProposal
      <3>2. req' \in [Workers -> Requests] /\ faults' \in 0..MaxFaults
        <4>1. "submit" \in Phases \ {"idle"} /\ req[w].todo \in SUBSET Claims
          BY <3>1 DEF Phases, Busy
        <4>2. QED
          BY <2>9, <4>1, CommitsOK DEF PersistProposal
      <3>3. QED
        BY <2>9, <3>1, <3>2 DEF PersistProposal, Busy
    <2>11. ASSUME NEW c \in Claims,
                  SubmitReplays(w, c) \/ SubmitClaim(w, c) \/ SubmitRefused(w, c)
           PROVE TypeOK'
      <3>1. req[w] \in Busy /\ req[w].pc = "submit"
        BY <2>11, BusyRequest
           DEF SubmitReplays, SubmitClaim, SubmitRefused, NextSubmission
      <3>2. Submission(w, c) \in Submissions
        BY <3>1, ConstantsAssumption
           DEF Submission, Submissions, ClaimKey, ClaimKeys, Busy, Jobs
      <3>3. req[w].todo \ {c} \in SUBSET Claims
        BY <3>1 DEF Busy
      <3>4. ASSUME SubmitReplays(w, c) PROVE req' \in [Workers -> Requests]
        <4>1. [req[w] EXCEPT !.todo = req[w].todo \ {c}] \in Busy
          BY <3>1, <3>3 DEF Busy
        <4>2. QED
          BY <3>4, <4>1 DEF SubmitReplays, Requests
      <3>5. req' \in [Workers -> Requests] /\ faults' \in 0..MaxFaults
        <4>1. "submit" \in Phases \ {"idle"} /\ "fail" \in Phases \ {"idle"}
          BY DEF Phases
        <4>2. CASE SubmitReplays(w, c)
          BY <3>4, <4>2 DEF SubmitReplays
        <4>3. CASE SubmitClaim(w, c)
          BY <3>1, <3>3, <4>1, <4>3, CommitsOK DEF SubmitClaim
        <4>4. CASE SubmitRefused(w, c)
          BY <3>1, <4>1, <4>4, GotoOK DEF SubmitRefused
        <4>5. QED
          BY <2>11, <4>2, <4>3, <4>4
      <3>6. QED
        BY <2>11, <3>2, <3>5 DEF SubmitReplays, SubmitClaim, SubmitRefused
    <2>12. CASE SucceedAttempt(w)
      <3>1. req[w] \in Busy /\ "result" \in Phases \ {"idle"} /\ "fail" \in Phases \ {"idle"}
        BY <2>12, BusyRequest DEF SucceedAttempt, Phases
      <3>2. CASE Active(j, n) /\ stored[j]
        <4>1. req' \in [Workers -> Requests] /\ faults' \in 0..MaxFaults
          BY <2>12, <3>1, <3>2, CommitsOK DEF SucceedAttempt
        <4>2. outcome' \in [Jobs -> [AttemptNumbers -> {"none", "succeeded", "failed"}]]
          BY <2>12, <3>1, <3>2, OutcomeOK DEF SucceedAttempt, Busy
        <4>3. QED
          BY <2>12, <3>2, <4>1, <4>2 DEF SucceedAttempt
      <3>3. CASE ~(Active(j, n) /\ stored[j])
        <4>1. req' \in [Workers -> Requests]
          BY <2>12, <3>1, <3>3, GotoOK DEF SucceedAttempt
        <4>2. QED
          BY <2>12, <3>3, <4>1 DEF SucceedAttempt
      <3>4. QED
        BY <3>2, <3>3
    <2>14. CASE FailAttempt(w)
      <3>1. req[w] \in Busy
        BY <2>14, BusyRequest DEF FailAttempt
      <3>2. outcome' \in [Jobs -> [AttemptNumbers -> {"none", "succeeded", "failed"}]]
        BY <2>14, <3>1, OutcomeOK DEF FailAttempt, Busy
      <3>3. req' \in [Workers -> Requests]
        BY <2>14, LeaveOK DEF FailAttempt
      <3>4. QED
        BY <2>14, <3>2, <3>3 DEF FailAttempt
    <2>15. QED
      BY <1>3, <2>1, <2>2, <2>4, <2>6, <2>7, <2>9, <2>11, <2>12, <2>14 DEF Progress
  <1>4. ASSUME NEW w \in Workers, DatabaseError(w) \/ Crash(w) \/ RevokeSession(w)
        PROVE TypeOK'
    <2>1. ASSUME RevokeSession(w) PROVE req' \in [Workers -> Requests]
      <3>1. [req[w] EXCEPT !.live = FALSE] \in Busy
        BY <2>1, BusyRequest DEF RevokeSession, Busy
      <3>2. QED
        BY <2>1, <3>1 DEF RevokeSession, Requests
    <2>2. req' \in [Workers -> Requests] /\ faults' \in 0..MaxFaults
      BY <1>4, <2>1, GotoOK, LeaveOK, ConstantsAssumption
         DEF DatabaseError, Crash, RevokeSession, Phases
    <2>3. QED
      BY <1>4, <2>2 DEF DatabaseError, Crash, RevokeSession
  <1>5. CASE AddSourceVersion
    BY <1>5, ConstantsAssumption DEF AddSourceVersion, Versions
  <1>6. ASSUME NEW v \in Versions, NEW d \in {"extractable", "barred"}, ReviewSource(v, d)
        PROVE TypeOK'
    BY <1>6 DEF ReviewSource
  <1>7. ASSUME NEW v \in Versions, RaiseClassification(v) PROVE TypeOK'
    BY <1>7 DEF RaiseClassification
  <1>8. ASSUME NEW c \in Configs, Redeploy(c) PROVE TypeOK'
    BY <1>8 DEF Redeploy
  <1>9. QED
    BY <1>1, <1>2, <1>3, <1>4, <1>5, <1>6, <1>7, <1>8 DEF Next

\* Type correctness of the job tables, the Claim tables and the request threads.
THEOREM TypeCorrect == Spec => []TypeOK
  BY InitTypeOK, NextTypeOK, PTL DEF Spec

-----------------------------------------------------------------------------
(* The inductive invariant.                                                 *)

\* A step of thread w that writes no row: every other thread stays put, and w
\* enters a phase only with what the invariant asks of that phase.
ThreadStep(w) ==
  /\ UNCHANGED <<jobVars, claimVars>>
  /\ \A x \in Workers \ {w} : req'[x] = req[x]
  /\ Attempting(w)' => Attempting(w)
  /\ req'[w].pc = "fail" => Attempting(w) \/ req[w].pc \in {"result", "fail"}
  /\ req'[w].pc = "result" => req[w].pc = "result"
  /\ Attempting(w)' \/ req'[w].pc \in {"result", "fail"} =>
       /\ req'[w].job = req[w].job
       /\ req'[w].attempt = req[w].attempt
  /\ req'[w].pc = "submit" =>
       /\ stored[req[w].job]
       /\ req'[w].todo \subseteq proposal[req[w].job]
       /\ \A c \in proposal[req[w].job] \ req'[w].todo :
            \E s \in claims : s.key = ClaimKey(req[w].job, c)
  /\ req'[w].pc \in {"extract", "revalidate", "persist"} => ~stored[req[w].job]
  /\ req'[w].pc \in {"start", "artifact", "extract"} =>
       approval'[req'[w].job.version] = "extractable"

\* Such a step cannot disturb the invariant, as long as approvals are kept.
LEMMA ThreadStepOK ==
  ASSUME IndInv, TypeOK', NEW w \in Workers, ThreadStep(w),
         \A v \in Versions : approval[v] = "extractable" => approval'[v] = "extractable"
  PROVE  IndInv'
  <1> USE DEF jobVars, claimVars
  <1>1. \A x \in Workers : Holds(x)' =>
          Holds(x) /\ req'[x].job = req[x].job /\ req'[x].attempt = req[x].attempt
    <2> TAKE x \in Workers
    <2>1. CASE x # w
      BY <2>1 DEF ThreadStep, Holds, Attempting
    <2>2. CASE x = w
      BY <2>2 DEF ThreadStep, Holds, Attempting, IndInv, CarriesAttempt
    <2>3. QED
      BY <2>1, <2>2
  <1>2. OneActiveAttempt'
    BY <1>1 DEF IndInv, OneActiveAttempt, ThreadStep
  <1>3. AttemptHistory' /\ ArtifactRows' /\ SucceededIsComplete'
        /\ ClaimsComeFromProposals' /\ SubmittedOnce'
    BY DEF IndInv, ThreadStep, AttemptHistory, ArtifactRows, SucceededIsComplete,
       ClaimsComeFromProposals, SubmittedOnce
  <1>4. CarriesAttempt'
    BY DEF IndInv, ThreadStep, CarriesAttempt, Attempting
  <1>5. SubmitsProposal'
    <2> SUFFICES ASSUME NEW x \in Workers, req'[x].pc = "submit"
                 PROVE  /\ stored[req'[x].job]
                        /\ req'[x].todo \subseteq proposal[req'[x].job]
                        /\ \A c \in proposal[req'[x].job] \ req'[x].todo :
                             \E s \in claims : s.key = ClaimKey(req'[x].job, c)
      BY DEF ThreadStep, SubmitsProposal, ClaimKey
    <2>1. CASE x # w
      BY <2>1 DEF IndInv, ThreadStep, SubmitsProposal
    <2>2. CASE x = w
      BY <2>2 DEF ThreadStep, Attempting
    <2>3. QED
      BY <2>1, <2>2
  <1>6. ExtractsOnce'
    <2>1. \A x \in Workers : req[x].pc \in {"start", "artifact", "extract"} =>
            req[x].job.version \in Versions
      BY BusyRequest DEF IndInv, TypeOK, Busy, Jobs
    <2> SUFFICES ASSUME NEW x \in Workers
                 PROVE  /\ req'[x].pc \in {"extract", "revalidate", "persist"} => ~stored[req'[x].job]
                        /\ req'[x].pc \in {"start", "artifact", "extract"} =>
                             approval'[req'[x].job.version] = "extractable"
      BY DEF ThreadStep, ExtractsOnce
    <2>2. CASE x # w
      BY <2>1, <2>2 DEF IndInv, ThreadStep, ExtractsOnce
    <2>3. CASE x = w
      BY <2>3 DEF ThreadStep, Attempting
    <2>4. QED
      BY <2>2, <2>3
  <1>7. QED
    BY <1>2, <1>3, <1>4, <1>5, <1>6 DEF IndInv

\* Leaving a request, or accepting one, is such a step.
LEMMA LeaveKeeps ==
  ASSUME IndInv, TypeOK', NEW w \in Workers, Leave(w),
         UNCHANGED <<jobVars, claimVars, approval>>
  PROVE  IndInv'
  <1>1. /\ req'[w].pc = "idle"
        /\ \A x \in Workers \ {w} : req'[x] = req[x]
    BY DEF IndInv, TypeOK, Leave, Idle, Request
  <1>2. ThreadStep(w)
    BY <1>1 DEF ThreadStep, Attempting
  <1>3. QED
    BY <1>2, ThreadStepOK

LEMMA AcceptKeeps ==
  ASSUME IndInv, TypeOK', NEW w \in Workers, NEW o, NEW j,
         NEW pc \in {"create", "load"}, Accept(w, o, j, pc),
         UNCHANGED <<jobVars, claimVars, approval>>
  PROVE  IndInv'
  <1>1. /\ req'[w].pc = pc
        /\ \A x \in Workers \ {w} : req'[x] = req[x]
    BY DEF IndInv, TypeOK, Accept, Request
  <1>2. ThreadStep(w)
    BY <1>1 DEF ThreadStep, Attempting
  <1>3. QED
    BY <1>2, ThreadStepOK

\* What Goto changes and what it keeps.
LEMMA GotoEffect ==
  ASSUME TypeOK, NEW w \in Workers, req[w].pc # "idle", NEW to, Goto(w, to)
  PROVE  /\ req'[w].pc = to
         /\ req'[w].job = req[w].job /\ req'[w].attempt = req[w].attempt
         /\ req'[w].todo = req[w].todo
         /\ \A x \in Workers \ {w} : req'[x] = req[x]
  BY BusyRequest DEF TypeOK, Goto, Busy

\* Going to the failure path from inside the try block is such a step.
LEMMA FailingKeeps ==
  ASSUME IndInv, TypeOK', NEW w \in Workers, Goto(w, "fail"),
         Attempting(w) \/ req[w].pc = "result",
         UNCHANGED <<jobVars, claimVars, approval>>
  PROVE  IndInv'
  <1>1. req[w].pc # "idle" /\ TypeOK
    BY DEF Attempting, IndInv
  <1>2. /\ req'[w].pc = "fail"
        /\ req'[w].job = req[w].job /\ req'[w].attempt = req[w].attempt
        /\ \A x \in Workers \ {w} : req'[x] = req[x]
    BY <1>1, GotoEffect
  <1>3. ThreadStep(w)
    BY <1>2 DEF ThreadStep, Attempting
  <1>4. QED
    BY <1>3, ThreadStepOK

\* The steps of a run that read, or call GLM, but write no row.
LEMMA ReadingStepOK ==
  ASSUME IndInv, TypeOK', NEW w \in Workers,
         \/ QueueCheck(w) \/ RunLoadSource(w) \/ StartRefused(w)
         \/ LoadArtifact(w) \/ CallGLM(w) \/ Revalidate(w)
         \/ PersistRefused(w) \/ ReadResult(w)
  PROVE  IndInv'
  <1> USE DEF sourceVars
  <1> TypeOK
    BY DEF IndInv
  <1>1. CASE QueueCheck(w)
    <2>1. ASSUME Goto(w, "insert") PROVE ThreadStep(w)
      BY <1>1, <2>1, GotoEffect DEF QueueCheck, ThreadStep, Attempting
    <2>2. QED
      BY <1>1, <2>1, ThreadStepOK, LeaveKeeps DEF QueueCheck
  <1>2. CASE RunLoadSource(w)
    <2>1. ASSUME Goto(w, "start"), Loadable(req[w].job.version) PROVE ThreadStep(w)
      BY <1>2, <2>1, GotoEffect DEF RunLoadSource, ThreadStep, Attempting, Loadable
    <2>2. QED
      BY <1>2, <2>1, ThreadStepOK, LeaveKeeps DEF RunLoadSource
  <1>3. CASE StartRefused(w)
    BY <1>3, LeaveKeeps DEF StartRefused
  <1>4. CASE LoadArtifact(w)
    <2>1. CASE stored[req[w].job]
      <3>1. req' = [req EXCEPT ![w].pc = "submit", ![w].todo = proposal[req[w].job]]
        BY <1>4, <2>1 DEF LoadArtifact
      <3>2. /\ req'[w].pc = "submit" /\ req'[w].job = req[w].job
            /\ req'[w].attempt = req[w].attempt /\ req'[w].todo = proposal[req[w].job]
            /\ \A x \in Workers \ {w} : req'[x] = req[x]
        BY <1>4, <3>1, BusyRequest DEF LoadArtifact, TypeOK, Busy
      <3>3. ThreadStep(w)
        BY <1>4, <2>1, <3>2 DEF LoadArtifact, ThreadStep, Attempting
      <3>4. QED
        BY <1>4, <3>3, ThreadStepOK DEF LoadArtifact
    <2>2. CASE ~stored[req[w].job]
      <3>1. approval[req[w].job.version] = "extractable"
        BY <1>4 DEF LoadArtifact, IndInv, ExtractsOnce
      <3>2. Goto(w, "extract") /\ req[w].pc = "artifact"
        BY <1>4, <2>2 DEF LoadArtifact
      <3>3. ThreadStep(w)
        BY <1>4, <2>2, <3>1, <3>2, GotoEffect DEF LoadArtifact, ThreadStep, Attempting
      <3>4. QED
        BY <1>4, <3>3, ThreadStepOK DEF LoadArtifact
    <2>3. QED
      BY <2>1, <2>2
  <1>5. CASE CallGLM(w)
    <2>1. req[w].pc = "extract" /\ ~stored[req[w].job]
      BY <1>5 DEF CallGLM, IndInv, ExtractsOnce
    <2>2. ASSUME NEW found \in SUBSET Claims,
                 req' = [req EXCEPT ![w].pc = "revalidate", ![w].todo = found]
          PROVE ThreadStep(w)
      <3>1. /\ req'[w].pc = "revalidate" /\ req'[w].job = req[w].job
            /\ req'[w].attempt = req[w].attempt
            /\ \A x \in Workers \ {w} : req'[x] = req[x]
        BY <2>1, <2>2, BusyRequest DEF TypeOK, Busy
      <3>2. QED
        BY <1>5, <2>1, <3>1 DEF CallGLM, ThreadStep, Attempting
    <2>3. ASSUME Goto(w, "fail") PROVE IndInv'
      BY <1>5, <2>1, <2>3, FailingKeeps DEF CallGLM, Attempting
    <2>4. QED
      BY <1>5, <2>2, <2>3, ThreadStepOK DEF CallGLM
  <1>6. CASE Revalidate(w)
    <2>1. req[w].pc = "revalidate" /\ ~stored[req[w].job]
      BY <1>6 DEF Revalidate, IndInv, ExtractsOnce
    <2>2. ASSUME Goto(w, "persist") PROVE ThreadStep(w)
      BY <1>6, <2>1, <2>2, GotoEffect DEF Revalidate, ThreadStep, Attempting
    <2>3. ASSUME Goto(w, "fail") PROVE IndInv'
      BY <1>6, <2>1, <2>3, FailingKeeps DEF Revalidate, Attempting
    <2>4. QED
      BY <1>6, <2>2, <2>3, ThreadStepOK DEF Revalidate
  <1>7. CASE PersistRefused(w)
    BY <1>7, FailingKeeps DEF PersistRefused, Attempting
  <1>8. CASE ReadResult(w)
    BY <1>8, FailingKeeps, LeaveKeeps DEF ReadResult
  <1>9. QED
    BY <1>1, <1>2, <1>3, <1>4, <1>5, <1>6, <1>7, <1>8

\* A replayed submission, and a refused one.
LEMMA NoRowSubmissionOK ==
  ASSUME IndInv, TypeOK', NEW w \in Workers, NEW c \in Claims,
         SubmitReplays(w, c) \/ SubmitRefused(w, c)
  PROVE  IndInv'
  <1> USE DEF sourceVars
  <1> TypeOK /\ req[w].pc = "submit"
    BY DEF IndInv, SubmitReplays, SubmitRefused, NextSubmission
  <1>1. CASE SubmitReplays(w, c)
    <2>1. req' = [req EXCEPT ![w].todo = req[w].todo \ {c}]
      BY <1>1 DEF SubmitReplays
    <2>2. /\ req'[w].pc = "submit" /\ req'[w].job = req[w].job
          /\ req'[w].attempt = req[w].attempt /\ req'[w].todo = req[w].todo \ {c}
          /\ \A x \in Workers \ {w} : req'[x] = req[x]
      BY <2>1, BusyRequest DEF TypeOK, Busy
    <2>3. \E s \in claims : s.key = ClaimKey(req[w].job, c)
      BY <1>1 DEF SubmitReplays, IndInv, SubmittedOnce, Submission
    <2>4. \A d \in proposal[req[w].job] \ (req[w].todo \ {c}) :
            \E s \in claims : s.key = ClaimKey(req[w].job, d)
      BY <2>3 DEF IndInv, SubmitsProposal
    <2>5. ThreadStep(w)
      BY <1>1, <2>2, <2>4 DEF SubmitReplays, ThreadStep, Attempting, IndInv, SubmitsProposal
    <2>6. QED
      BY <1>1, <2>5, ThreadStepOK DEF SubmitReplays
  <1>2. CASE SubmitRefused(w, c)
    BY <1>2, FailingKeeps DEF SubmitRefused, Attempting
  <1>3. QED
    BY <1>1, <1>2

\* Faults, revocations and everyone else's decisions.
LEMMA SurroundingStepOK ==
  ASSUME IndInv, TypeOK',
         \/ \E w \in Workers : DatabaseError(w) \/ Crash(w) \/ RevokeSession(w)
         \/ AddSourceVersion
         \/ \E v \in Versions : RaiseClassification(v)
         \/ \E v \in Versions : \E d \in {"extractable", "barred"} : ReviewSource(v, d)
         \/ \E c \in Configs : Redeploy(c)
  PROVE  IndInv'
  <1> USE DEF sourceVars
  <1> TypeOK
    BY DEF IndInv
  <1>1. ASSUME NEW w \in Workers, DatabaseError(w) PROVE IndInv'
    BY <1>1, FailingKeeps DEF DatabaseError, Attempting
  <1>2. ASSUME NEW w \in Workers, Crash(w) PROVE IndInv'
    BY <1>2, LeaveKeeps DEF Crash
  <1>3. ASSUME NEW w \in Workers, RevokeSession(w) PROVE IndInv'
    <2>1. /\ req'[w].pc = req[w].pc /\ req'[w].job = req[w].job
          /\ req'[w].attempt = req[w].attempt /\ req'[w].todo = req[w].todo
          /\ \A x \in Workers \ {w} : req'[x] = req[x]
      BY <1>3, BusyRequest DEF RevokeSession, TypeOK, Busy
    <2>2. ThreadStep(w)
      BY <1>3, <2>1
         DEF RevokeSession, ThreadStep, Attempting, IndInv, SubmitsProposal, ExtractsOnce
    <2>3. QED
      BY <1>3, <2>2, ThreadStepOK DEF RevokeSession
  <1>4. ASSUME UNCHANGED <<jobVars, claimVars, req>>,
               \A v \in Versions : approval[v] = "extractable" => approval'[v] = "extractable"
        PROVE IndInv'
    <2>1. \A x \in Workers : req[x].pc \in {"start", "artifact", "extract"} =>
            req[x].job.version \in Versions
      BY BusyRequest DEF TypeOK, Busy, Jobs
    <2>2. ExtractsOnce'
      BY <1>4, <2>1 DEF IndInv, ExtractsOnce, jobVars
    <2>3. QED
      BY <1>4, <2>2 DEF IndInv, OneActiveAttempt, Holds, Attempting, AttemptHistory,
         CarriesAttempt, SubmitsProposal, ArtifactRows, SucceededIsComplete,
         ClaimsComeFromProposals, SubmittedOnce, jobVars, claimVars
  <1>5. CASE AddSourceVersion
    BY <1>4, <1>5 DEF AddSourceVersion
  <1>6. ASSUME NEW v \in Versions, RaiseClassification(v) PROVE IndInv'
    BY <1>4, <1>6 DEF RaiseClassification
  <1>7. ASSUME NEW v \in Versions, NEW d \in {"extractable", "barred"}, ReviewSource(v, d)
        PROVE IndInv'
    BY <1>4, <1>7 DEF ReviewSource, TypeOK, SourceTypeOK
  <1>8. ASSUME NEW c \in Configs, Redeploy(c) PROVE IndInv'
    BY <1>4, <1>8 DEF Redeploy
  <1>9. QED
    BY <1>1, <1>2, <1>3, <1>5, <1>6, <1>7, <1>8

\* Inserting a job: only an absent job changes status, and it has no attempt.
LEMMA QueueInsertOK ==
  ASSUME IndInv, TypeOK', NEW w \in Workers, QueueInsert(w)
  PROVE  IndInv'
  <1> DEFINE j == req[w].job
  <1> USE DEF QueueInsert
  <1>1. TypeOK /\ JobTypeOK
    BY DEF IndInv, TypeOK
  <1>2. req[w] \in Busy /\ j \in Jobs
    BY <1>1, BusyRequest DEF TypeOK, Busy
  <1>3. /\ req'[w].pc = "idle"
        /\ \A x \in Workers \ {w} : req'[x] = req[x]
    BY <1>1 DEF TypeOK, Leave, Idle, Request
  <1>4. /\ \A i \in Jobs : status[i] # "absent" => status'[i] = status[i]
        /\ \A i \in Jobs : status[i] = "absent" => status'[i] \in {"absent", "queued"}
    BY <1>1, <1>2 DEF JobTypeOK
  <1>5. \A x \in Workers : Holds(x)' => Holds(x) /\ x # w /\ req[x].job \in Jobs
    BY <1>1, <1>3, BusyRequest DEF Holds, Attempting, TypeOK, Busy
  <1>6. OneActiveAttempt'
    BY <1>3, <1>4, <1>5 DEF IndInv, OneActiveAttempt
  <1>7. AttemptHistory'
    BY <1>4 DEF IndInv, AttemptHistory
  <1>8. ArtifactRows' /\ SucceededIsComplete'
    BY <1>4 DEF IndInv, ArtifactRows, SucceededIsComplete, claimVars
  <1>9. CarriesAttempt' /\ SubmitsProposal' /\ ExtractsOnce'
    BY <1>3 DEF IndInv, CarriesAttempt, Attempting, SubmitsProposal, ExtractsOnce,
       claimVars, sourceVars
  <1>10. ClaimsComeFromProposals' /\ SubmittedOnce'
    BY DEF IndInv, ClaimsComeFromProposals, SubmittedOnce, claimVars
  <1>11. QED
    BY <1>6, <1>7, <1>8, <1>9, <1>10 DEF IndInv

\* Starting an attempt: nobody holds a job that is queued or failed, and every
\* attempt it has had is recorded.
LEMMA StartAttemptOK ==
  ASSUME IndInv, TypeOK', NEW w \in Workers, StartAttempt(w)
  PROVE  IndInv'
  <1> DEFINE j == req[w].job
             n == attempt_count[j] + 1
  <1>1. TypeOK /\ JobTypeOK
    BY DEF IndInv, TypeOK
  <1>2. req[w] \in Busy /\ j \in Jobs
    BY <1>1, BusyRequest DEF StartAttempt, TypeOK, Busy
  <1>3. /\ attempt_count[j] \in Nat /\ n \in AttemptNumbers
        /\ status[j] \in {"queued", "failed"}
    BY <1>1, <1>2, ConstantsAssumption
       DEF StartAttempt, Startable, JobTypeOK, AttemptNumbers
  <1>4. /\ req'[w].pc = "artifact" /\ req'[w].job = j /\ req'[w].attempt = n
        /\ \A x \in Workers \ {w} : req'[x] = req[x]
    BY <1>1, <1>2 DEF StartAttempt, TypeOK, Busy
  <1>5. /\ status'[j] = "running" /\ attempt_count'[j] = n
        /\ \A i \in Jobs \ {j} : status'[i] = status[i] /\ attempt_count'[i] = attempt_count[i]
        /\ UNCHANGED <<outcome, stored, proposal, claims, idempotency, approval>>
    BY <1>1, <1>2 DEF StartAttempt, JobTypeOK, claimVars, sourceVars
  <1>6. \A x \in Workers \ {w} : Holds(x)' => Holds(x) /\ req[x].job \in Jobs \ {j}
    <2> TAKE x \in Workers \ {w}
    <2>1. Holds(x)' => Holds(x)
      BY <1>4, <1>5 DEF Holds, Attempting
    <2>2. Holds(x) => req[x].job \in Jobs /\ status[req[x].job] = "running"
      BY <1>1, BusyRequest DEF IndInv, OneActiveAttempt, Holds, Attempting, TypeOK, Busy
    <2>3. QED
      BY <1>3, <2>1, <2>2
  <1>7. OneActiveAttempt'
    <2>1. \A x \in Workers : Holds(x)' =>
            status'[req'[x].job] = "running" /\ attempt_count'[req'[x].job] = req'[x].attempt
      BY <1>4, <1>5, <1>6 DEF IndInv, OneActiveAttempt
    <2>2. \A x, y \in Workers : Holds(x)' /\ Holds(y)' /\ req'[x].job = req'[y].job => x = y
      BY <1>4, <1>6 DEF IndInv, OneActiveAttempt
    <2>3. QED
      BY <2>1, <2>2 DEF OneActiveAttempt
  <1>8. AttemptHistory'
    <2> SUFFICES ASSUME NEW i \in Jobs, NEW k \in AttemptNumbers
                 PROVE  /\ outcome[i][k] # "none" <=>
                             k < attempt_count'[i] \/ (k = attempt_count'[i] /\ status'[i] # "running")
                        /\ outcome[i][k] = "succeeded" => status'[i] = "succeeded" /\ k = attempt_count'[i]
      BY <1>5 DEF AttemptHistory
    <2>1. k \in Nat
      BY ConstantsAssumption DEF AttemptNumbers
    <2>2. CASE i = j
      BY <1>3, <1>5, <2>1, <2>2 DEF IndInv, AttemptHistory
    <2>3. CASE i # j
      BY <1>5, <2>3 DEF IndInv, AttemptHistory
    <2>4. QED
      BY <2>2, <2>3
  <1>9. ArtifactRows' /\ SucceededIsComplete'
    BY <1>3, <1>5 DEF IndInv, ArtifactRows, SucceededIsComplete
  <1>10. CarriesAttempt' /\ SubmitsProposal'
    BY <1>3, <1>4, <1>5 DEF IndInv, CarriesAttempt, Attempting, SubmitsProposal
  <1>11. ExtractsOnce'
    <2>1. req[w].pc = "start"
      BY DEF StartAttempt
    <2>2. QED
      BY <1>4, <1>5, <2>1 DEF IndInv, ExtractsOnce
  <1>12. ClaimsComeFromProposals' /\ SubmittedOnce'
    BY <1>5 DEF IndInv, ClaimsComeFromProposals, SubmittedOnce
  <1>13. QED
    BY <1>7, <1>8, <1>9, <1>10, <1>11, <1>12 DEF IndInv

\* What a commit does to the thread, with or without its reply.
LEMMA CommitsEffect ==
  ASSUME TypeOK, NEW w \in Workers, req[w].pc # "idle", NEW to, NEW T, Commits(w, to, T)
  PROVE  /\ (req'[w].pc = to /\ req'[w].todo = T) \/ req'[w].pc = "fail"
         /\ req'[w].job = req[w].job /\ req'[w].attempt = req[w].attempt
         /\ \A x \in Workers \ {w} : req'[x] = req[x]
  <1>1. req[w] \in Busy
    BY BusyRequest DEF TypeOK
  <1>2. CASE req' = [req EXCEPT ![w].pc = to, ![w].todo = T]
    BY <1>1, <1>2 DEF TypeOK, Busy
  <1>3. CASE Goto(w, "fail")
    BY <1>3, GotoEffect
  <1>4. QED
    BY <1>2, <1>3 DEF Commits

\* Persisting the proposal: no thread on the same job is extracting besides w,
\* and a proposal already stored is the same one.
LEMMA PersistProposalOK ==
  ASSUME IndInv, TypeOK', NEW w \in Workers, PersistProposal(w)
  PROVE  IndInv'
  <1> DEFINE j == req[w].job
             T == req[w].todo
  <1>1. TypeOK /\ JobTypeOK
    BY DEF IndInv, TypeOK
  <1>2. req[w] \in Busy /\ j \in Jobs /\ T \subseteq Claims /\ req[w].pc = "persist"
    BY <1>1, BusyRequest DEF PersistProposal, TypeOK, Busy
  <1>3. status[j] = "running" /\ ~stored[j] /\ Holds(w)
    BY <1>2 DEF PersistProposal, Persistable, IndInv, ExtractsOnce, Holds, Attempting
  <1>4. /\ (req'[w].pc = "submit" /\ req'[w].todo = T) \/ req'[w].pc = "fail"
        /\ req'[w].job = j /\ req'[w].attempt = req[w].attempt
        /\ \A x \in Workers \ {w} : req'[x] = req[x]
    BY <1>1, <1>2, CommitsEffect DEF PersistProposal
  <1>5. /\ stored'[j] = TRUE /\ proposal'[j] = T
        /\ \A i \in Jobs \ {j} : stored'[i] = stored[i] /\ proposal'[i] = proposal[i]
        /\ UNCHANGED <<status, attempt_count, outcome, claims, idempotency, approval>>
    BY <1>1, <1>2 DEF PersistProposal, JobTypeOK, claimVars, sourceVars
  <1>6. \A x \in Workers : req[x].pc \in Phases \ {"idle"} => req[x].job \in Jobs
    BY <1>1, BusyRequest DEF TypeOK, Busy
  <1>7. OneActiveAttempt'
    <2>1. \A x \in Workers : Holds(x)' =>
            Holds(x) /\ req'[x].job = req[x].job /\ req'[x].attempt = req[x].attempt
      BY <1>3, <1>4, <1>5 DEF Holds, Attempting
    <2>2. QED
      BY <1>5, <2>1 DEF IndInv, OneActiveAttempt
  <1>8. AttemptHistory' /\ SubmittedOnce'
    BY <1>5 DEF IndInv, AttemptHistory, SubmittedOnce
  <1>9. CarriesAttempt'
    BY <1>2, <1>4, <1>5 DEF IndInv, CarriesAttempt, Attempting
  <1>10. SubmitsProposal'
    <2>1. \A x \in Workers \ {w} : req[x].pc = "submit" => req[x].job \in Jobs \ {j}
      BY <1>3, <1>6 DEF IndInv, SubmitsProposal, Phases
    <2>2. QED
      BY <1>4, <1>5, <2>1 DEF IndInv, SubmitsProposal, ClaimKey
  <1>11. ExtractsOnce'
    <2>1. \A x \in Workers \ {w} : req[x].pc \in {"extract", "revalidate", "persist"} =>
            req[x].job \in Jobs \ {j}
      BY <1>3, <1>6 DEF IndInv, OneActiveAttempt, Holds, Attempting, Phases
    <2>2. QED
      BY <1>4, <1>5, <2>1 DEF IndInv, ExtractsOnce
  <1>12. ArtifactRows' /\ SucceededIsComplete'
    BY <1>3, <1>5 DEF IndInv, ArtifactRows, SucceededIsComplete, ClaimKey
  <1>13. ClaimsComeFromProposals'
    BY <1>3, <1>5 DEF IndInv, ClaimsComeFromProposals, ArtifactRows, ClaimKey
  <1>14. QED
    BY <1>7, <1>8, <1>9, <1>10, <1>11, <1>12, <1>13 DEF IndInv

\* Submitting a Claim: it belongs to the stored proposal and was not queued.
LEMMA SubmitClaimOK ==
  ASSUME IndInv, TypeOK', NEW w \in Workers, NEW c \in Claims, SubmitClaim(w, c)
  PROVE  IndInv'
  <1> DEFINE j == req[w].job
  <1>1. TypeOK
    BY DEF IndInv
  <1>2. req[w] \in Busy /\ j \in Jobs /\ req[w].pc = "submit" /\ c \in req[w].todo
    BY <1>1, BusyRequest DEF SubmitClaim, NextSubmission, TypeOK, Busy
  <1>3. stored[j] /\ c \in proposal[j]
    BY <1>2 DEF IndInv, SubmitsProposal
  <1>4. /\ (req'[w].pc = "submit" /\ req'[w].todo = req[w].todo \ {c}) \/ req'[w].pc = "fail"
        /\ req'[w].job = j /\ req'[w].attempt = req[w].attempt
        /\ \A x \in Workers \ {w} : req'[x] = req[x]
    BY <1>1, <1>2, CommitsEffect DEF SubmitClaim
  <1>5. /\ claims' = claims \cup {Submission(w, c)} /\ idempotency' = idempotency \cup {Submission(w, c)}
        /\ \A s \in claims : s.key # ClaimKey(j, c)
        /\ Submission(w, c).key = ClaimKey(j, c)
        /\ UNCHANGED <<status, attempt_count, outcome, stored, proposal, approval>>
    BY DEF SubmitClaim, Insertable, jobVars, sourceVars, Submission
  <1>6. OneActiveAttempt'
    <2>1. \A x \in Workers : Holds(x)' =>
            Holds(x) /\ req'[x].job = req[x].job /\ req'[x].attempt = req[x].attempt
      BY <1>2, <1>4, <1>5 DEF Holds, Attempting
    <2>2. QED
      BY <1>5, <2>1 DEF IndInv, OneActiveAttempt
  <1>7. AttemptHistory' /\ ArtifactRows'
    BY <1>5 DEF IndInv, AttemptHistory, ArtifactRows
  <1>8. CarriesAttempt' /\ ExtractsOnce'
    BY <1>2, <1>4, <1>5 DEF IndInv, CarriesAttempt, Attempting, ExtractsOnce
  <1>9. SubmitsProposal'
    <2> SUFFICES ASSUME NEW x \in Workers, req'[x].pc = "submit"
                 PROVE  /\ stored[req'[x].job]
                        /\ req'[x].todo \subseteq proposal[req'[x].job]
                        /\ \A d \in proposal[req'[x].job] \ req'[x].todo :
                             \E s \in claims' : s.key = ClaimKey(req'[x].job, d)
      BY <1>5 DEF SubmitsProposal, ClaimKey
    <2>1. CASE x # w
      BY <1>4, <1>5, <2>1 DEF IndInv, SubmitsProposal
    <2>2. CASE x = w
      <3>1. req'[w].todo = req[w].todo \ {c}
        BY <1>4, <2>2
      <3>2. \A d \in proposal[j] \ req[w].todo : \E s \in claims : s.key = ClaimKey(j, d)
        BY <1>2 DEF IndInv, SubmitsProposal
      <3>3. QED
        BY <1>2, <1>3, <1>4, <1>5, <2>2, <3>1, <3>2 DEF IndInv, SubmitsProposal
    <2>3. QED
      BY <2>1, <2>2
  <1>10. SucceededIsComplete'
    BY <1>5 DEF IndInv, SucceededIsComplete, ClaimKey
  <1>11. ClaimsComeFromProposals'
    BY <1>2, <1>3, <1>5 DEF IndInv, ClaimsComeFromProposals, ClaimKey
  <1>12. SubmittedOnce'
    BY <1>5 DEF IndInv, SubmittedOnce
  <1>13. QED
    BY <1>6, <1>7, <1>8, <1>9, <1>10, <1>11, <1>12 DEF IndInv

\* The two rows a verdict r on attempt n of job j writes.
Records(j, n, r) ==
  /\ outcome' = [outcome EXCEPT ![j][n] = r]
  /\ status' = [status EXCEPT ![j] = r]
  /\ UNCHANGED attempt_count

\* _finish_attempt on the active attempt: it and its job get the same verdict,
\* which closes the history and touches no other attempt.
LEMMA EndAttempt ==
  ASSUME IndInv, NEW j \in Jobs, NEW n \in AttemptNumbers, Active(j, n),
         NEW r \in {"succeeded", "failed"},
         Records(j, n, r)
  PROVE  /\ outcome'[j][n] = r /\ status'[j] = r
         /\ \A i \in Jobs, k \in AttemptNumbers :
              i # j \/ k # n => outcome'[i][k] = outcome[i][k]
         /\ \A i \in Jobs \ {j} : status'[i] = status[i]
         /\ AttemptHistory'
  <1>1. TypeOK /\ JobTypeOK
    BY DEF IndInv, TypeOK
  <1>2. outcome[j] \in [AttemptNumbers -> {"none", "succeeded", "failed"}]
    BY <1>1 DEF JobTypeOK
  <1>3. /\ outcome'[j] = [outcome[j] EXCEPT ![n] = r]
        /\ \A i \in Jobs \ {j} : outcome'[i] = outcome[i]
    BY <1>1 DEF JobTypeOK, Records
  <1>4. /\ outcome'[j][n] = r
        /\ \A i \in Jobs, k \in AttemptNumbers :
             i # j \/ k # n => outcome'[i][k] = outcome[i][k]
    BY <1>2, <1>3
  <1>5. /\ status'[j] = r /\ \A i \in Jobs \ {j} : status'[i] = status[i]
        /\ UNCHANGED attempt_count
    BY <1>1 DEF JobTypeOK, Records
  <1>6. AttemptHistory'
    <2> SUFFICES ASSUME NEW i \in Jobs, NEW k \in AttemptNumbers
                 PROVE  /\ outcome'[i][k] # "none" <=>
                             k < attempt_count[i] \/ (k = attempt_count[i] /\ status'[i] # "running")
                        /\ outcome'[i][k] = "succeeded" =>
                             status'[i] = "succeeded" /\ k = attempt_count[i]
      BY <1>5 DEF AttemptHistory
    <2>1. CASE i = j /\ k = n
      BY <1>4, <1>5, <2>1 DEF Active, AttemptNumbers
    <2>2. CASE i = j /\ k # n
      BY <1>4, <1>5, <2>2 DEF IndInv, AttemptHistory, Active
    <2>3. CASE i # j
      BY <1>4, <1>5, <2>3 DEF IndInv, AttemptHistory
    <2>4. QED
      BY <2>1, <2>2, <2>3
  <1>7. QED
    BY <1>4, <1>5, <1>6

\* Recording the verdict keeps the invariant when the thread was the holder of
\* the attempt, and a success had every Claim submitted.
LEMMA VerdictOK ==
  ASSUME IndInv, TypeOK', NEW w \in Workers, Holds(w),
         NEW j \in Jobs, NEW n \in AttemptNumbers, req[w].job = j, req[w].attempt = n,
         NEW r \in {"succeeded", "failed"}, Active(j, n),
         Records(j, n, r),
         UNCHANGED <<stored, proposal, claims, idempotency, approval>>,
         \A x \in Workers \ {w} : req'[x] = req[x],
         \/ req'[w].pc = "idle"
         \/ /\ r = "succeeded" /\ req'[w].pc \in {"result", "fail"}
            /\ req'[w].job = j /\ req'[w].attempt = n,
         r = "succeeded" =>
            /\ stored[j]
            /\ \A c \in proposal[j] : \E s \in claims : s.key = ClaimKey(j, c)
  PROVE  IndInv'
  <1>1. TypeOK
    BY DEF IndInv
  <1>3. /\ outcome'[j][n] = r /\ status'[j] = r
        /\ \A i \in Jobs, k \in AttemptNumbers :
             i # j \/ k # n => outcome'[i][k] = outcome[i][k]
        /\ \A i \in Jobs \ {j} : status'[i] = status[i]
        /\ AttemptHistory'
    BY EndAttempt
  <1>2. UNCHANGED attempt_count
    BY DEF Records
  <1>4. \A x \in Workers : req[x].pc # "idle" => req[x].job \in Jobs
    BY <1>1, BusyRequest DEF TypeOK, Busy
  <1>5. \A x \in Workers : Holds(x)' => x # w /\ Holds(x) /\ req[x].job \in Jobs \ {j}
    <2> TAKE x \in Workers
    <2>1. CASE x = w
      BY <1>3, <2>1 DEF Holds, Attempting
    <2>2. CASE x # w /\ Attempting(x)
      BY <1>4, <2>2 DEF IndInv, OneActiveAttempt, Holds, Attempting
    <2>3. CASE x # w /\ req[x].pc = "fail"
      <3>1. req[x].job \in Jobs /\ req[x].attempt \in AttemptNumbers
        BY <1>4, <2>3 DEF IndInv, CarriesAttempt
      <3>2. Holds(x)' => outcome[req[x].job][req[x].attempt] = "none"
        BY <1>3, <2>3, <3>1 DEF Holds, Attempting
      <3>3. Holds(x)' => Holds(x)
        BY <2>3, <3>2 DEF Holds
      <3>4. QED
        BY <2>3, <3>1, <3>3 DEF IndInv, OneActiveAttempt
    <2>4. QED
      BY <2>1, <2>2, <2>3 DEF Holds, Attempting
  <1>6. OneActiveAttempt'
    BY <1>2, <1>3, <1>5 DEF IndInv, OneActiveAttempt
  <1>7. CarriesAttempt'
    <2> SUFFICES ASSUME NEW x \in Workers
                 PROVE  /\ Attempting(x)' \/ req'[x].pc \in {"result", "fail"} =>
                             req'[x].attempt \in AttemptNumbers
                        /\ req'[x].pc = "result" =>
                             outcome'[req'[x].job][req'[x].attempt] = "succeeded"
      BY DEF CarriesAttempt
    <2>1. CASE x = w
      BY <1>3, <2>1 DEF Attempting
    <2>2. CASE x # w
      <3>1. Attempting(x) \/ req[x].pc \in {"result", "fail"} => req[x].attempt \in AttemptNumbers
        BY DEF IndInv, CarriesAttempt
      <3>2. req[x].pc = "result" =>
              /\ outcome[req[x].job][req[x].attempt] = "succeeded"
              /\ req[x].job \in Jobs /\ req[x].attempt \in AttemptNumbers
        BY <1>4 DEF IndInv, CarriesAttempt
      <3>3. QED
        BY <1>3, <2>2, <3>1, <3>2 DEF Attempting, Active
    <2>3. QED
      BY <2>1, <2>2
  <1>8. SubmitsProposal' /\ ExtractsOnce'
    BY DEF IndInv, SubmitsProposal, ExtractsOnce
  <1>9. ArtifactRows'
    BY <1>3 DEF IndInv, ArtifactRows
  <1>10. SucceededIsComplete'
    BY <1>3 DEF IndInv, SucceededIsComplete, ClaimKey
  <1>11. ClaimsComeFromProposals' /\ SubmittedOnce'
    BY DEF IndInv, ClaimsComeFromProposals, SubmittedOnce
  <1>12. QED
    BY <1>3, <1>6, <1>7, <1>8, <1>9, <1>10, <1>11 DEF IndInv

\* Success: all Claims are submitted, and the thread still holds the attempt.
LEMMA SucceedAttemptOK ==
  ASSUME IndInv, TypeOK', NEW w \in Workers, SucceedAttempt(w)
  PROVE  IndInv'
  <1>1. TypeOK /\ req[w].pc = "submit" /\ Attempting(w) /\ Holds(w)
    BY DEF IndInv, SucceedAttempt, Attempting, Holds
  <1>2. PICK j \in Jobs, n \in AttemptNumbers : req[w].job = j /\ req[w].attempt = n
    BY <1>1, BusyRequest DEF TypeOK, Busy, IndInv, CarriesAttempt
  <1>3. CASE Active(j, n) /\ stored[j]
    <2>1. Records(j, n, "succeeded") /\ Commits(w, "result", {})
      BY <1>2, <1>3 DEF SucceedAttempt, Records
    <2>2. /\ req'[w].pc \in {"result", "fail"}
          /\ req'[w].job = j /\ req'[w].attempt = n
          /\ \A x \in Workers \ {w} : req'[x] = req[x]
      BY <1>1, <1>2, <2>1, CommitsEffect
    <2>3. \A c \in proposal[j] : \E s \in claims : s.key = ClaimKey(j, c)
      BY <1>1, <1>2 DEF SucceedAttempt, IndInv, SubmitsProposal
    <2>4. UNCHANGED <<stored, proposal, claims, idempotency, approval>>
      BY DEF SucceedAttempt, claimVars, sourceVars
    <2>5. QED
      BY <1>1, <1>2, <1>3, <2>1, <2>2, <2>3, <2>4, VerdictOK
  <1>4. CASE ~(Active(j, n) /\ stored[j])
    <2>1. Goto(w, "fail") /\ UNCHANGED <<jobVars, claimVars, approval>>
      BY <1>2, <1>4 DEF SucceedAttempt, jobVars, sourceVars
    <2>2. QED
      BY <1>1, <2>1, FailingKeeps
  <1>5. QED
    BY <1>3, <1>4

\* Failure: it is recorded only for the active attempt, which the thread holds.
LEMMA FailAttemptOK ==
  ASSUME IndInv, TypeOK', NEW w \in Workers, FailAttempt(w)
  PROVE  IndInv'
  <1>1. TypeOK /\ req[w].pc = "fail"
    BY DEF IndInv, FailAttempt
  <1>2. PICK j \in Jobs, n \in AttemptNumbers : req[w].job = j /\ req[w].attempt = n
    BY <1>1, BusyRequest DEF TypeOK, Busy, IndInv, CarriesAttempt
  <1>3. CASE Active(j, n)
    <2>1. Records(j, n, "failed") /\ Holds(w)
      BY <1>1, <1>2, <1>3 DEF FailAttempt, Records, Holds, Active
    <2>2. /\ req'[w].pc = "idle"
          /\ \A x \in Workers \ {w} : req'[x] = req[x]
      BY <1>1 DEF FailAttempt, Leave, TypeOK, Idle, Request
    <2>3. UNCHANGED <<stored, proposal, claims, idempotency, approval>>
      BY DEF FailAttempt, claimVars, sourceVars
    <2>4. QED
      BY <1>2, <1>3, <2>1, <2>2, <2>3, VerdictOK
  <1>4. CASE ~Active(j, n)
    <2>1. Leave(w) /\ UNCHANGED <<jobVars, claimVars, approval>>
      BY <1>2, <1>4 DEF FailAttempt, jobVars, sourceVars
    <2>2. QED
      BY <2>1, LeaveKeeps
  <1>5. QED
    BY <1>3, <1>4

LEMMA InitIndInv == Init => IndInv
  <1> SUFFICES ASSUME Init PROVE IndInv
    OBVIOUS
  <1>1. TypeOK
    BY InitTypeOK
  <1>2. \A w \in Workers : req[w].pc = "idle"
    BY DEF Init, Idle, Request
  <1>3. AttemptHistory
    BY ConstantsAssumption DEF Init, AttemptHistory, AttemptNumbers
  <1>4. OneActiveAttempt /\ CarriesAttempt /\ SubmitsProposal /\ ExtractsOnce
    BY <1>2 DEF OneActiveAttempt, Holds, Attempting, CarriesAttempt, SubmitsProposal,
       ExtractsOnce
  <1>5. ArtifactRows /\ SucceededIsComplete /\ ClaimsComeFromProposals /\ SubmittedOnce
    BY DEF Init, ArtifactRows, SucceededIsComplete, ClaimsComeFromProposals, SubmittedOnce
  <1>6. QED
    BY <1>1, <1>3, <1>4, <1>5 DEF IndInv

LEMMA NextIndInv == IndInv /\ [Next]_vars => IndInv'
  <1> SUFFICES ASSUME IndInv, [Next]_vars PROVE IndInv'
    OBVIOUS
  <1>1. TypeOK'
    BY NextTypeOK DEF IndInv
  <1>2. CASE UNCHANGED vars
    BY <1>2 DEF vars, sourceVars, jobVars, claimVars, IndInv, TypeOK, SourceTypeOK, JobTypeOK,
       OneActiveAttempt, Holds, Attempting, AttemptHistory, CarriesAttempt, SubmitsProposal,
       ExtractsOnce, ArtifactRows, SucceededIsComplete, ClaimsComeFromProposals, SubmittedOnce
  <1>3. ASSUME NEW w \in Workers, NEW o \in Operators, NEW j \in Jobs,
               QueueLoad(w, o, j) \/ RunSnapshot(w, o, j)
        PROVE IndInv'
    BY <1>1, <1>3, AcceptKeeps DEF QueueLoad, RunSnapshot, sourceVars
  <1>4. ASSUME NEW w \in Workers, Progress(w) PROVE IndInv'
    BY <1>1, <1>4, ReadingStepOK, NoRowSubmissionOK, QueueInsertOK, StartAttemptOK,
       PersistProposalOK, SubmitClaimOK, SucceedAttemptOK, FailAttemptOK DEF Progress
  <1>5. ASSUME \/ \E w \in Workers : DatabaseError(w) \/ Crash(w) \/ RevokeSession(w)
               \/ AddSourceVersion
               \/ \E v \in Versions : RaiseClassification(v)
               \/ \E v \in Versions : \E d \in {"extractable", "barred"} : ReviewSource(v, d)
               \/ \E c \in Configs : Redeploy(c)
        PROVE IndInv'
    BY <1>1, <1>5, SurroundingStepOK
  <1>6. QED
    BY <1>2, <1>3, <1>4, <1>5 DEF Next

\* The inductive invariant holds in every reachable state.
THEOREM Invariance == Spec => []IndInv
  BY InitIndInv, NextIndInv, PTL DEF Spec

\* A job has at most one thread in an attempt, and it holds the running attempt
\* (start_attempt decides under the row lock).
THEOREM ActiveAttemptIsUnique == Spec => []OneActiveAttempt
  <1>1. IndInv => OneActiveAttempt
    BY DEF IndInv
  <1>2. QED
    BY <1>1, Invariance, PTL

\* Attempt rows are a gapless history that agrees with the job's status
\* (start_attempt and _finish_attempt).
THEOREM HistoryIsConsistent == Spec => []AttemptHistory
  <1>1. IndInv => AttemptHistory
    BY DEF IndInv
  <1>2. QED
    BY <1>1, Invariance, PTL

\* A SUCCEEDED job has its proposal and all its Claims in review (run).
THEOREM SuccessIsComplete == Spec => []SucceededIsComplete
  <1>1. IndInv => SucceededIsComplete
    BY DEF IndInv
  <1>2. QED
    BY <1>1, Invariance, PTL

\* No Claim in review without a stored proposal that contains it (run).
THEOREM ReviewedClaimsAreProposed == Spec => []ClaimsComeFromProposals
  <1>1. IndInv => ClaimsComeFromProposals
    BY DEF IndInv
  <1>2. QED
    BY <1>1, Invariance, PTL

\* A Claim has one row, with the idempotency record of its submission (submit_claim).
THEOREM ClaimsAreSubmittedOnce == Spec => []SubmittedOnce
  <1>1. IndInv => SubmittedOnce
    BY DEF IndInv
  <1>2. QED
    BY <1>1, Invariance, PTL

-----------------------------------------------------------------------------
(* Action properties.                                                       *)

\* Which steps write which rows.
LEMMA WritersOnly ==
  ASSUME [Next]_vars
  PROVE  /\ UNCHANGED outbound \/ \E w \in Workers : CallGLM(w)
         /\ \/ UNCHANGED <<jobVars, claimVars>>
            \/ \E w \in Workers :
                 \/ QueueInsert(w) \/ StartAttempt(w) \/ PersistProposal(w)
                 \/ SucceedAttempt(w) \/ FailAttempt(w)
                 \/ \E c \in Claims : SubmitClaim(w, c)
  <1>1. CASE UNCHANGED vars
    BY <1>1 DEF vars
  <1>2. ASSUME NEW w \in Workers, NEW o \in Operators, NEW j \in Jobs,
               QueueLoad(w, o, j) \/ RunSnapshot(w, o, j)
        PROVE UNCHANGED <<jobVars, claimVars, outbound>>
    BY <1>2 DEF QueueLoad, RunSnapshot
  <1>3. ASSUME NEW w \in Workers,
               \/ QueueCheck(w) \/ RunLoadSource(w) \/ StartRefused(w) \/ LoadArtifact(w)
               \/ Revalidate(w) \/ PersistRefused(w) \/ ReadResult(w)
               \/ \E c \in Claims : SubmitReplays(w, c) \/ SubmitRefused(w, c)
               \/ DatabaseError(w) \/ Crash(w) \/ RevokeSession(w)
        PROVE UNCHANGED <<jobVars, claimVars, outbound>>
    BY <1>3 DEF QueueCheck, RunLoadSource, StartRefused, LoadArtifact, Revalidate,
       PersistRefused, ReadResult, SubmitReplays, SubmitRefused, DatabaseError, Crash,
       RevokeSession
  <1>4. ASSUME NEW w \in Workers, CallGLM(w) PROVE UNCHANGED <<jobVars, claimVars>>
    BY <1>4 DEF CallGLM
  <1>5. ASSUME NEW w \in Workers,
               \/ QueueInsert(w) \/ StartAttempt(w) \/ PersistProposal(w)
               \/ SucceedAttempt(w) \/ FailAttempt(w)
               \/ \E c \in Claims : SubmitClaim(w, c)
        PROVE UNCHANGED outbound
    BY <1>5 DEF QueueInsert, StartAttempt, PersistProposal, SucceedAttempt, FailAttempt,
       SubmitClaim
  <1>6. ASSUME \/ AddSourceVersion
               \/ \E v \in Versions :
                    \/ \E d \in {"extractable", "barred"} : ReviewSource(v, d)
                    \/ RaiseClassification(v)
               \/ \E c \in Configs : Redeploy(c)
        PROVE UNCHANGED <<jobVars, claimVars, outbound>>
    BY <1>6 DEF AddSourceVersion, ReviewSource, RaiseClassification, Redeploy
  <1>7. QED
    BY <1>1, <1>2, <1>3, <1>4, <1>5, <1>6 DEF Next, Progress

\* Text leaves only for a job without a proposal and an approved version.
THEOREM OutboundIsNeeded == Spec => NoNeedlessOutbound
  <1>1. ASSUME IndInv, [Next]_vars, NEW j \in Jobs, outbound'[j] # outbound[j]
        PROVE  ~stored[j] /\ approval[j.version] = "extractable"
    <2>1. PICK w \in Workers : CallGLM(w)
      BY <1>1, WritersOnly
    <2>2. j = req[w].job
      BY <1>1, <2>1 DEF CallGLM, IndInv, TypeOK
    <2>3. QED
      BY <1>1, <2>1, <2>2 DEF CallGLM, IndInv, ExtractsOnce
  <1>2. IndInv /\ [Next]_vars =>
          [\A j \in Jobs : outbound'[j] # outbound[j] =>
             ~stored[j] /\ approval[j.version] = "extractable"]_vars
    BY <1>1
  <1>3. QED
    BY <1>2, Invariance, PTL DEF Spec, NoNeedlessOutbound

\* No late failure path undoes a success, an artifact or a recorded outcome.
THEOREM TerminalRowsAreFinal == Spec => TerminalIsFinal
  <1> DEFINE Final(j) ==
        /\ status[j] = "succeeded" => status'[j] = "succeeded"
        /\ stored[j] => stored'[j] /\ proposal'[j] = proposal[j]
        /\ \A n \in AttemptNumbers :
             outcome[j][n] # "none" => outcome'[j][n] = outcome[j][n]
  <1>1. ASSUME IndInv, NEW i \in Jobs, NEW n \in AttemptNumbers, Active(i, n),
               NEW r \in {"succeeded", "failed"}, Records(i, n, r),
               UNCHANGED <<stored, proposal>>, NEW j \in Jobs
        PROVE  Final(j)
    <2>1. /\ \A a \in Jobs, k \in AttemptNumbers :
               a # i \/ k # n => outcome'[a][k] = outcome[a][k]
          /\ \A a \in Jobs \ {i} : status'[a] = status[a]
      BY <1>1, EndAttempt
    <2>2. QED
      BY <1>1, <2>1 DEF Active
  <1>2. ASSUME IndInv, [Next]_vars, NEW j \in Jobs PROVE Final(j)
    <2>1. CASE UNCHANGED <<jobVars, claimVars>>
      BY <2>1 DEF jobVars
    <2>2. ASSUME NEW w \in Workers, QueueInsert(w) PROVE Final(j)
      BY <1>2, <2>2 DEF QueueInsert, IndInv, TypeOK, JobTypeOK
    <2>3. ASSUME NEW w \in Workers, StartAttempt(w) PROVE Final(j)
      BY <1>2, <2>3 DEF StartAttempt, Startable, IndInv, TypeOK, JobTypeOK
    <2>4. ASSUME NEW w \in Workers, PersistProposal(w) PROVE Final(j)
      BY <1>2, <2>4 DEF PersistProposal, Persistable, IndInv, TypeOK, JobTypeOK
    <2>5. ASSUME NEW w \in Workers, NEW c \in Claims, SubmitClaim(w, c) PROVE Final(j)
      BY <2>5 DEF SubmitClaim, jobVars
    <2>6. ASSUME NEW w \in Workers, SucceedAttempt(w) \/ FailAttempt(w) PROVE Final(j)
      <3>1. PICK i \in Jobs, n \in AttemptNumbers : req[w].job = i /\ req[w].attempt = n
        BY <1>2, <2>6, BusyRequest
           DEF SucceedAttempt, FailAttempt, IndInv, TypeOK, Busy, CarriesAttempt, Attempting
      <3>2. UNCHANGED <<stored, proposal>>
        BY <2>6 DEF SucceedAttempt, FailAttempt
      <3>3. CASE Active(i, n) /\ \E r \in {"succeeded", "failed"} : Records(i, n, r)
        BY <1>1, <1>2, <3>2, <3>3
      <3>4. CASE UNCHANGED <<outcome, status>>
        BY <3>2, <3>4
      <3>5. QED
        BY <2>6, <3>1, <3>3, <3>4 DEF SucceedAttempt, FailAttempt, Records
    <2>7. QED
      BY <1>2, <2>1, <2>2, <2>3, <2>4, <2>5, <2>6, WritersOnly
  <1>3. IndInv /\ [Next]_vars => [\A j \in Jobs : Final(j)]_vars
    BY <1>2
  <1>4. QED
    BY <1>3, Invariance, PTL DEF Spec, TerminalIsFinal

-----------------------------------------------------------------------------
(* Refinement of JobLedger.                                                 *)

Phase == [j \in Jobs |-> PhaseOf(status[j], stored[j])]
Entered == [j \in Jobs |-> {c \in proposal[j] : InQueue(j, c)}]
abstract == <<Phase, proposal, Entered>>

\* An opened job row.
LEMMA OpenStep ==
  ASSUME IndInv, TypeOK', NEW w \in Workers, QueueInsert(w)
  PROVE  (\E j \in Jobs : Ledger!Open(j)) \/ UNCHANGED abstract
  <1>1. PICK j \in Jobs : j = req[w].job
    BY BusyRequest DEF IndInv, TypeOK, QueueInsert, Busy
  <1>2. TypeOK /\ JobTypeOK
    BY DEF IndInv, TypeOK
  <1>3. UNCHANGED <<stored, proposal, claims>>
    BY DEF QueueInsert, claimVars
  <1>4. UNCHANGED Entered
    BY <1>3 DEF Entered, InQueue, ClaimKey
  <1>5. CASE status[j] # "absent"
    <2>1. UNCHANGED status
      BY <1>1, <1>2, <1>5 DEF QueueInsert, JobTypeOK
    <2>2. UNCHANGED Phase
      BY <1>3, <2>1 DEF Phase
    <2>3. QED
      BY <1>3, <1>4, <2>2 DEF abstract
  <1>6. CASE status[j] = "absent"
    <2>1. status' = [status EXCEPT ![j] = "queued"]
      BY <1>1, <1>2, <1>6 DEF QueueInsert
    <2>2. ~stored[j]
      BY <1>6 DEF IndInv, ArtifactRows
    <2>3. Phase' = [Phase EXCEPT ![j] = "open"]
      BY <1>2, <1>3, <2>1, <2>2 DEF Phase, PhaseOf, JobTypeOK
    <2>4. Phase[j] = "absent"
      BY <1>6 DEF Phase, PhaseOf
    <2>5. Ledger!Open(j)
      BY <1>3, <1>4, <2>3, <2>4 DEF Ledger!Open, Phase, Entered
    <2>6. QED
      BY <2>5
  <1>7. QED
    BY <1>5, <1>6

\* A fixed proposal.
LEMMA ProposeStep ==
  ASSUME IndInv, TypeOK', NEW w \in Workers, PersistProposal(w)
  PROVE  \E j \in Jobs, found, already \in SUBSET Claims : Ledger!Propose(j, found, already)
  <1>1. PICK j \in Jobs : j = req[w].job
    BY BusyRequest DEF IndInv, TypeOK, PersistProposal, Busy
  <1>2. TypeOK /\ JobTypeOK
    BY DEF IndInv, TypeOK
  <1>3. PICK T \in SUBSET Claims : T = req[w].todo
    BY BusyRequest DEF IndInv, TypeOK, PersistProposal, Busy
  <1>4. status[j] = "running" /\ ~stored[j]
    BY <1>1 DEF PersistProposal, Persistable, IndInv, ExtractsOnce
  <1>5. /\ stored' = [stored EXCEPT ![j] = TRUE]
        /\ proposal' = [proposal EXCEPT ![j] = T]
        /\ UNCHANGED <<status, claims>>
    BY <1>1, <1>3 DEF PersistProposal, claimVars
  <1>6. Phase' = [Phase EXCEPT ![j] = "proposed"]
    BY <1>2, <1>4, <1>5 DEF Phase, PhaseOf, JobTypeOK
  <1>7. Phase[j] = "open"
    BY <1>4 DEF Phase, PhaseOf
  <1>8. PICK A \in SUBSET Claims : A = {c \in T : InQueue(j, c)}
    OBVIOUS
  <1>9. Entered' = [Entered EXCEPT ![j] = A]
    <2>1. \A i \in Jobs : \A c : InQueue(i, c)' = InQueue(i, c)
      BY <1>5 DEF InQueue, ClaimKey
    <2>2. \A i \in Jobs : Entered'[i] = {c \in proposal'[i] : InQueue(i, c)}
      BY <2>1 DEF Entered
    <2>3. proposal'[j] = T /\ \A i \in Jobs \ {j} : proposal'[i] = proposal[i]
      BY <1>2, <1>5 DEF JobTypeOK
    <2>4. Entered'[j] = A /\ \A i \in Jobs \ {j} : Entered'[i] = Entered[i]
      BY <1>8, <2>2, <2>3 DEF Entered
    <2>5. QED
      BY <2>4 DEF Entered
  <1>10. Ledger!Propose(j, T, A)
    <2>1. [k \in Jobs |-> PhaseOf(status[k], stored[k])][j] = "open"
      BY <1>7 DEF Phase
    <2>2. [k \in Jobs |-> PhaseOf(status[k], stored[k])]'
            = [[k \in Jobs |-> PhaseOf(status[k], stored[k])] EXCEPT ![j] = "proposed"]
      BY <1>6 DEF Phase
    <2>3. [k \in Jobs |-> {c \in proposal[k] : InQueue(k, c)}]'
            = [[k \in Jobs |-> {c \in proposal[k] : InQueue(k, c)}] EXCEPT ![j] = A]
      BY <1>9 DEF Entered
    <2>4. QED
      BY ONLY <1>5, <1>8, <2>1, <2>2, <2>3 DEF Ledger!Propose
  <1>11. QED
    BY <1>10

\* A Claim in the queue.
LEMMA EnterStep ==
  ASSUME IndInv, TypeOK', NEW w \in Workers, NEW c \in Claims, SubmitClaim(w, c)
  PROVE  \E S \in SUBSET Jobs : Ledger!Enter(c, S)
  <1>1. PICK j \in Jobs : j = req[w].job
    BY BusyRequest DEF IndInv, TypeOK, SubmitClaim, NextSubmission, Busy
  <1>2. /\ req[w].pc = "submit" /\ c \in req[w].todo
        /\ \A s \in claims : s.key # ClaimKey(j, c)
        /\ claims' = claims \cup {Submission(w, c)}
        /\ Submission(w, c).key = ClaimKey(j, c)
        /\ UNCHANGED jobVars
    BY <1>1 DEF SubmitClaim, NextSubmission, Insertable, Submission
  <1>3. stored[j] /\ c \in proposal[j]
    BY <1>1, <1>2 DEF IndInv, SubmitsProposal
  <1>4. PICK S \in SUBSET Jobs :
          S = {i \in Jobs : c \in proposal[i] /\ ClaimKey(i, c) = ClaimKey(j, c)}
    OBVIOUS
  <1>5. S # {}
    BY <1>3, <1>4
  <1>6. ASSUME NEW i \in S PROVE Phase[i] = "proposed" /\ c \in proposal[i] \ Entered[i]
    <2>1. i \in Jobs /\ c \in proposal[i] /\ ~InQueue(i, c)
      BY <1>2, <1>4 DEF InQueue
    <2>2. stored[i] /\ status[i] # "absent" /\ status[i] # "succeeded"
      BY <2>1 DEF IndInv, ArtifactRows, SucceededIsComplete, InQueue
    <2>3. QED
      BY <2>1, <2>2 DEF Phase, PhaseOf, Entered
  <1>7. UNCHANGED Phase
    BY <1>2 DEF Phase, jobVars
  <1>8. Entered' = [i \in Jobs |-> IF i \in S THEN Entered[i] \cup {c} ELSE Entered[i]]
    <2>1. ASSUME NEW i \in Jobs, NEW d
          PROVE  InQueue(i, d)' <=> InQueue(i, d) \/ (ClaimKey(i, d) = ClaimKey(j, c))
      <3>1. InQueue(i, d)' <=> \E s \in claims' : s.key = ClaimKey(i, d)
        BY DEF InQueue, ClaimKey
      <3>2. QED
        BY <1>2, <3>1 DEF InQueue
    <2>2. ASSUME NEW i \in Jobs, NEW d, ClaimKey(i, d) = ClaimKey(j, c)
          PROVE  d = c
      BY <2>2 DEF ClaimKey
    <2>3. ASSUME NEW i \in Jobs
          PROVE  Entered'[i] = IF i \in S THEN Entered[i] \cup {c} ELSE Entered[i]
      <3>1. Entered'[i] = {d \in proposal[i] : InQueue(i, d)'}
        BY <1>2 DEF Entered, jobVars
      <3>2. Entered[i] = {d \in proposal[i] : InQueue(i, d)}
        BY DEF Entered
      <3>3. CASE i \in S
        <4>1. c \in proposal[i] /\ ClaimKey(i, c) = ClaimKey(j, c)
          BY <1>4, <3>3
        <4>2. \A d : d \in Entered'[i] <=> d \in Entered[i] \cup {c}
          BY <2>1, <2>2, <3>1, <3>2, <4>1
        <4>3. QED
          BY <3>3, <4>2, <3>1, <3>2
      <3>4. CASE i \notin S
        <4>1. \A d \in proposal[i] : ClaimKey(i, d) # ClaimKey(j, c)
          BY <1>4, <2>2, <3>4
        <4>2. \A d : d \in Entered'[i] <=> d \in Entered[i]
          BY <2>1, <3>1, <3>2, <4>1
        <4>3. QED
          BY <3>4, <4>2, <3>1, <3>2
      <3>5. QED
        BY <3>3, <3>4
    <2>4. QED
      BY <2>3 DEF Entered
  <1>9. Ledger!Enter(c, S)
    <2>1. \A i \in S :
            /\ [k \in Jobs |-> PhaseOf(status[k], stored[k])][i] = "proposed"
            /\ c \in proposal[i] \ [k \in Jobs |-> {d \in proposal[k] : InQueue(k, d)}][i]
      BY <1>6 DEF Phase, Entered
    <2>2. [k \in Jobs |-> {d \in proposal[k] : InQueue(k, d)}]'
            = [i \in Jobs |->
                 IF i \in S
                 THEN [k \in Jobs |-> {d \in proposal[k] : InQueue(k, d)}][i] \cup {c}
                 ELSE [k \in Jobs |-> {d \in proposal[k] : InQueue(k, d)}][i]]
      BY <1>8 DEF Entered
    <2>3. UNCHANGED <<[k \in Jobs |-> PhaseOf(status[k], stored[k])], proposal>>
      BY <1>2, <1>7 DEF Phase, jobVars
    <2>4. QED
      BY ONLY <1>5, <2>1, <2>2, <2>3 DEF Ledger!Enter
  <1>10. QED
    BY <1>9

\* A recorded success.
LEMMA FinishStep ==
  ASSUME IndInv, TypeOK', NEW w \in Workers, SucceedAttempt(w)
  PROVE  (\E j \in Jobs : Ledger!Finish(j)) \/ UNCHANGED abstract
  <1>1. PICK j \in Jobs : j = req[w].job
    BY BusyRequest DEF IndInv, TypeOK, SucceedAttempt, Busy
  <1>2. TypeOK /\ JobTypeOK
    BY DEF IndInv, TypeOK
  <1>3. UNCHANGED <<stored, proposal, claims>>
    BY DEF SucceedAttempt, claimVars
  <1>4. UNCHANGED Entered
    BY <1>3 DEF Entered, InQueue, ClaimKey
  <1>5. CASE UNCHANGED status
    <2>1. UNCHANGED Phase
      BY <1>3, <1>5 DEF Phase
    <2>2. QED
      BY <1>3, <1>4, <2>1 DEF abstract
  <1>6. CASE ~UNCHANGED status
    <2>1. status[j] = "running" /\ stored[j] /\ status' = [status EXCEPT ![j] = "succeeded"]
      BY <1>1, <1>6 DEF SucceedAttempt, Active
    <2>2. Phase' = [Phase EXCEPT ![j] = "done"]
      BY <1>2, <1>3, <2>1 DEF Phase, PhaseOf, JobTypeOK
    <2>3. Phase[j] = "proposed"
      BY <2>1 DEF Phase, PhaseOf
    <2>4. \A c \in proposal[j] : InQueue(j, c)
      BY <1>1 DEF SucceedAttempt, IndInv, SubmitsProposal, InQueue
    <2>5. Entered[j] = proposal[j]
      BY <2>4 DEF Entered
    <2>6. /\ [k \in Jobs |-> PhaseOf(status[k], stored[k])][j] = "proposed"
          /\ [k \in Jobs |-> PhaseOf(status[k], stored[k])]'
               = [[k \in Jobs |-> PhaseOf(status[k], stored[k])] EXCEPT ![j] = "done"]
      BY <2>2, <2>3 DEF Phase
    <2>7. /\ [k \in Jobs |-> {c \in proposal[k] : InQueue(k, c)}][j] = proposal[j]
          /\ UNCHANGED <<proposal, [k \in Jobs |-> {c \in proposal[k] : InQueue(k, c)}]>>
      BY <1>3, <1>4, <2>5 DEF Entered
    <2>8. Ledger!Finish(j)
      BY ONLY <2>6, <2>7 DEF Ledger!Finish
    <2>9. QED
      BY <2>8
  <1>7. QED
    BY <1>5, <1>6

\* Starting and failing an attempt is the ledger's stuttering.
LEMMA AttemptStutters ==
  ASSUME IndInv, TypeOK', NEW w \in Workers, StartAttempt(w) \/ FailAttempt(w)
  PROVE  UNCHANGED abstract
  <1>1. PICK j \in Jobs : j = req[w].job
    BY BusyRequest DEF IndInv, TypeOK, StartAttempt, FailAttempt, Busy
  <1>2. TypeOK /\ JobTypeOK
    BY DEF IndInv, TypeOK
  <1>3. UNCHANGED <<stored, proposal, claims>>
    BY DEF StartAttempt, FailAttempt, claimVars
  <1>4. UNCHANGED Entered
    BY <1>3 DEF Entered, InQueue, ClaimKey
  <1>5. PICK s \in {"running", "failed"} :
          \/ /\ status[j] \in {"queued", "running", "failed"}
             /\ status' = [status EXCEPT ![j] = s]
          \/ UNCHANGED status
    BY <1>1 DEF StartAttempt, Startable, FailAttempt, Active
  <1>6. UNCHANGED Phase
    BY <1>2, <1>3, <1>5 DEF Phase, PhaseOf, JobTypeOK
  <1>7. QED
    BY <1>3, <1>4, <1>6 DEF abstract

\* No rows: the ledger is empty.
LEMMA InitRefines == Init => Ledger!Init
  BY DEF Init, Ledger!Init, PhaseOf

\* Every step is a step of the ledger or leaves it alone.
LEMMA NextRefines == IndInv /\ TypeOK' /\ [Next]_vars => [Ledger!Next]_(Ledger!ledger)
  <1> SUFFICES ASSUME IndInv, TypeOK', [Next]_vars
               PROVE  Ledger!Next \/ UNCHANGED abstract
    BY DEF abstract, Phase, Entered, Ledger!ledger
  <1>1. CASE UNCHANGED <<jobVars, claimVars>>
    BY <1>1 DEF jobVars, claimVars, abstract, Phase, Entered, InQueue, ClaimKey
  <1>2. ASSUME NEW w \in Workers, QueueInsert(w) PROVE Ledger!Next \/ UNCHANGED abstract
    <2>1. (\E j \in Jobs : Ledger!Open(j)) \/ UNCHANGED abstract
      BY <1>2, OpenStep
    <2>2. QED
      BY <2>1 DEF Ledger!Next
  <1>3. ASSUME NEW w \in Workers, PersistProposal(w) PROVE Ledger!Next
    <2>1. \E j \in Jobs, found, already \in SUBSET Claims : Ledger!Propose(j, found, already)
      BY <1>3, ProposeStep
    <2>2. QED
      BY <2>1 DEF Ledger!Next
  <1>4. ASSUME NEW w \in Workers, NEW c \in Claims, SubmitClaim(w, c) PROVE Ledger!Next
    <2>1. \E S \in SUBSET Jobs : Ledger!Enter(c, S)
      BY <1>4, EnterStep
    <2>2. QED
      BY <2>1 DEF Ledger!Next
  <1>5. ASSUME NEW w \in Workers, SucceedAttempt(w) PROVE Ledger!Next \/ UNCHANGED abstract
    <2>1. (\E j \in Jobs : Ledger!Finish(j)) \/ UNCHANGED abstract
      BY <1>5, FinishStep
    <2>2. QED
      BY <2>1 DEF Ledger!Next
  <1>6. QED
    BY <1>1, <1>2, <1>3, <1>4, <1>5, AttemptStutters, WritersOnly

\* The job, artifact and Claim tables implement the ledger: whatever crashes,
\* races and retries happen, a job has one proposal, exactly its Claims enter
\* review one at a time, and it is done only when all have (production_jobs.py).
THEOREM Refinement == Spec => ImplementsLedger
  <1>1. IndInv => TypeOK
    BY DEF IndInv
  <1>2. QED
    BY <1>1, InitRefines, NextRefines, Invariance, PTL DEF Spec, ImplementsLedger, Ledger!Spec
=============================================================================
