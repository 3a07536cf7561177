------------------------- MODULE GovernanceClients -------------------------
(***************************************************************************)
(* The batch commands of security/governance_source_cli.py,                *)
(* governance_permission_cli.py and governance_account_cli.py against the  *)
(* service: every request is sent once and may time out, to be handled     *)
(* later or never; a batch is completed by running the command again.      *)
(*                                                                         *)
(* The service handles a request in one transaction, and answers one that  *)
(* comes again with its Idempotency-Key from the record of the first       *)
(* (persistence/idempotency.py).  Accounts are created without a key.      *)
(***************************************************************************)
EXTENDS GovernanceRoles, FiniteSets, Sequences

CONSTANTS
  Administrators,  \* accounts that may create accounts
  Batch,           \* number of files in the batch, and of accounts to provision
  MaxRuns,         \* bound: runs of a command, each with a session of its own
  MaxChain         \* bound: permission requests of one version

ASSUME ClientConstants ==
  /\ Administrators \subseteq Users
  /\ Batch \in Nat \ {0} /\ MaxRuns \in Nat /\ MaxChain \in Nat \ {0}

Items == 1..Batch
Runs == 1..MaxRuns

VARIABLES
  damaged,   \* files that are not what the acquisition results commit to
  chain,     \* permission requests of each file's Source version, in order
  ruled,     \* files whose Source version is decided
  accounts,  \* provisioned accounts
  answers,   \* completed idempotency records
  live,      \* sessions that are not revoked
  late,      \* requests that timed out and may still be handled
  started,   \* runs begun
  cli,       \* the run each user has going, or None
  report     \* what each run has printed, or None

serverVars == <<chain, ruled, accounts, answers, live>>
clientVars == <<damaged, serverVars, late, started, cli, report>>

Commands == {"register", "amend", "provision"}
Posts == [by : Users, cmd : Commands, item : Items, session : Runs]
Answers == [by : Users, cmd : {"register", "amend"}, item : Items, sequence : 1..MaxChain]
ChainEntries == [by : Users, cmd : {"register", "amend"}] \cup [by : {None}, cmd : {"other"}]

Invocations ==
  [run : Runs, cmd : Commands, at : {"login", "items", "logout"}, next : 1..(Batch + 1),
   accepted : SUBSET Items]
Reports ==
  [cmd : Commands, status : {"succeeded", "partial_failure", "failed"},
   login : {"not_attempted", "succeeded", "failed", "unanswered"},
   accepted : SUBSET Items, logout : {"not_attempted", "succeeded", "failed"}]

ASSUME AbsentRun == None \notin Invocations \cup Reports

ClientTypeOK ==
  /\ damaged \subseteq Items /\ ruled \subseteq Items /\ accounts \subseteq Items
  /\ chain \in [Items -> Seq(ChainEntries)]
  /\ answers \subseteq Answers
  /\ live \subseteq Runs /\ late \subseteq Posts /\ started \in 0..MaxRuns
  /\ cli \in [Users -> Invocations \cup {None}]
  /\ report \in [Runs -> Reports \cup {None}]

\* An account with other roles beside operator submits nothing.
RolesExpected(u, cmd) == cmd # "provision" => u \notin Reviewers \cup Administrators

\* A run of the past may have registered some of the batch.
ClientInit ==
  /\ damaged \in SUBSET Items
  /\ \E u \in Operators, registered \in SUBSET Items :
       /\ RolesExpected(u, "register")
       /\ chain = [i \in Items |->
            IF i \in registered THEN <<[by |-> u, cmd |-> "register"]>> ELSE <<>>]
       /\ answers = [by : {u}, cmd : {"register"}, item : registered, sequence : {1}]
  /\ ruled = {} /\ accounts = {} /\ live = {} /\ late = {}
  /\ started = 0
  /\ cli = [u \in Users |-> None]
  /\ report = [n \in Runs |-> None]

-----------------------------------------------------------------------------
(* The service.                                                             *)

\* Mutant: no record is found.
Mutant_Stored(u, cmd, i) == {}

\* The completed record under the actor, the operation and the key.
Stored(u, cmd, i) == {a \in answers : a.by = u /\ a.cmd = cmd /\ a.item = i}

LastRequest(i) == chain[i][Len(chain[i])]

\* A registration is answered again only while its request is the version's latest.
Replays(u, cmd, i) ==
  Stored(u, cmd, i) # {} /\ (cmd = "register" => Len(chain[i]) = 1)

\* A Source is registered once, a request differs from the one before it, a username
\* is free.
Executes(u, cmd, i) ==
  /\ Stored(u, cmd, i) = {}
  /\ CASE cmd = "register" -> chain[i] = <<>>
       [] cmd = "amend" -> /\ chain[i] # <<>> /\ i \notin ruled
                           /\ LastRequest(i).cmd # "amend"
                           /\ Len(chain[i]) < MaxChain
       [] cmd = "provision" -> i \notin accounts

Answered(u, cmd, i) == Replays(u, cmd, i) \/ Executes(u, cmd, i)

\* The sequence number of the request that the answer shows.
AnsweredSequence(u, cmd, i) ==
  IF Replays(u, cmd, i) THEN (CHOOSE a \in Stored(u, cmd, i) : TRUE).sequence
  ELSE Len(chain[i]) + 1

\* Domain rows and idempotency record are committed together; a refusal leaves nothing.
Handle(u, cmd, i) ==
  IF ~Executes(u, cmd, i) THEN UNCHANGED <<chain, accounts, answers>>
  ELSE IF cmd = "provision" THEN accounts' = accounts \cup {i} /\ UNCHANGED <<chain, answers>>
  ELSE /\ chain' = [chain EXCEPT ![i] = Append(@, [by |-> u, cmd |-> cmd])]
       /\ answers' = answers \cup
            {[by |-> u, cmd |-> cmd, item |-> i, sequence |-> Len(chain[i]) + 1]}
       /\ UNCHANGED accounts

\* A request that timed out is handled after all, unless its session is gone by then.
HandleLate(m) ==
  /\ m \in late
  /\ late' = late \ {m}
  /\ IF m.session \in live THEN Handle(m.by, m.cmd, m.item)
     ELSE UNCHANGED <<chain, accounts, answers>>
  /\ UNCHANGED <<damaged, ruled, live, started, cli, report>>

\* In the meantime operators amend and reviewers decide by other means.
AmendOtherwise(i) ==
  /\ Len(chain[i]) \in 1..(MaxChain - 1) /\ i \notin ruled
  /\ chain' = [chain EXCEPT ![i] = Append(@, [by |-> None, cmd |-> "other"])]
  /\ UNCHANGED <<damaged, ruled, accounts, answers, live, late, started, cli, report>>

DecideVersion(i) ==
  /\ chain[i] # <<>> /\ i \notin ruled
  /\ ruled' = ruled \cup {i}
  /\ UNCHANGED <<damaged, chain, accounts, answers, live, late, started, cli, report>>

-----------------------------------------------------------------------------
(* A run of a command.                                                      *)

\* The payload is the one committed to, and asks for nothing yet.
Sound(i) == i \notin damaged

\* The batch is exactly the committed one.
PreflightPasses(cmd) == cmd # "provision" => \A i \in Items : Sound(i)

InvocationAt(u, place) == cli[u] # None /\ cli[u].at = place

Blank(cmd) ==
  [cmd |-> cmd, status |-> "failed", login |-> "not_attempted",
   accepted |-> {}, logout |-> "not_attempted"]

\* One failed check, and nothing is sent.
StartRun(u, cmd) ==
  LET n == started + 1 IN
  /\ cli[u] = None /\ started < MaxRuns
  /\ u \in IF cmd = "provision" THEN Administrators ELSE Operators
  /\ started' = n
  /\ IF PreflightPasses(cmd)
     THEN /\ cli' = [cli EXCEPT ![u] =
               [run |-> n, cmd |-> cmd, at |-> "login", next |-> 1, accepted |-> {}]]
          /\ UNCHANGED report
     ELSE report' = [report EXCEPT ![n] = Blank(cmd)] /\ UNCHANGED cli
  /\ UNCHANGED <<damaged, serverVars, late>>

\* The session of a login that is refused here is still logged out of.
AfterLogin(u) == IF RolesExpected(u, cli[u].cmd) THEN "items" ELSE "logout"

Printed(u, login, logout) ==
  LET c == cli[u]
      done == c.accepted = Items /\ logout = "succeeded" /\ login = "succeeded" IN
  report' = [report EXCEPT ![c.run] =
    [cmd |-> c.cmd, login |-> login, accepted |-> c.accepted, logout |-> logout,
     status |-> IF done THEN "succeeded"
                ELSE IF c.accepted # {} THEN "partial_failure" ELSE "failed"]]

LogIn(u) ==
  /\ InvocationAt(u, "login")
  /\ live' = live \cup {cli[u].run}
  /\ cli' = [cli EXCEPT ![u].at = AfterLogin(u)]
  /\ UNCHANGED <<damaged, chain, ruled, accounts, answers, late, started, report>>

\* The login is not answered: the session may be there, but its token is not known.
LoginUnanswered(u) ==
  /\ InvocationAt(u, "login")
  /\ live' \in {live, live \cup {cli[u].run}}
  /\ Printed(u, "unanswered", "not_attempted")
  /\ cli' = [cli EXCEPT ![u] = None]
  /\ UNCHANGED <<damaged, chain, ruled, accounts, answers, late, started>>

\* Mutant: any sequence number is accepted.
Mutant_ResponseMatches(u, cmd, i) == Answered(u, cmd, i)

\* An amendment is the second request of its version.
ResponseMatches(u, cmd, i) ==
  Answered(u, cmd, i) /\ (cmd = "amend" => AnsweredSequence(u, cmd, i) = 2)

Advance(c) == [c EXCEPT !.next = @ + 1, !.at = IF c.next = Batch THEN "logout" ELSE "items"]

PostItem(u) ==
  LET c == cli[u] IN
  /\ InvocationAt(u, "items")
  /\ Handle(u, c.cmd, c.next)
  /\ cli' = [cli EXCEPT ![u] =
       [Advance(c) EXCEPT !.accepted =
          IF ResponseMatches(u, c.cmd, c.next) THEN @ \cup {c.next} ELSE @]]
  /\ UNCHANGED <<damaged, ruled, live, late, started, report>>

\* The item is reported as failed, and the run goes on to the next.
PostTimesOut(u) ==
  LET c == cli[u] IN
  /\ InvocationAt(u, "items")
  /\ late' = late \cup {[by |-> u, cmd |-> c.cmd, item |-> c.next, session |-> c.run]}
  /\ cli' = [cli EXCEPT ![u] = Advance(c)]
  /\ UNCHANGED <<damaged, serverVars, started, report>>

\* The answer to the logout decides, with the items, what is printed.
LogOut(u, answered) ==
  LET c == cli[u] IN
  /\ InvocationAt(u, "logout")
  /\ live' \in IF answered THEN {live \ {c.run}} ELSE {live, live \ {c.run}}
  /\ Printed(u, IF RolesExpected(u, c.cmd) THEN "succeeded" ELSE "failed",
                IF answered THEN "succeeded" ELSE "failed")
  /\ cli' = [cli EXCEPT ![u] = None]
  /\ UNCHANGED <<damaged, chain, ruled, accounts, answers, late, started>>

ClientNext ==
  \/ \E m \in late : HandleLate(m)
  \/ \E i \in Items : AmendOtherwise(i) \/ DecideVersion(i)
  \/ \E u \in Users, cmd \in Commands : StartRun(u, cmd)
  \/ \E u \in Users :
       LogIn(u) \/ LoginUnanswered(u) \/ PostItem(u) \/ PostTimesOut(u)
       \/ \E answered \in BOOLEAN : LogOut(u, answered)

ClientSpec == ClientInit /\ [][ClientNext]_clientVars

-----------------------------------------------------------------------------
(* Properties.                                                              *)

Accomplished(cmd, i) ==
  CASE cmd = "register" -> chain[i] # <<>>
    [] cmd = "amend" -> Len(chain[i]) >= 2 /\ chain[i][2].cmd = "amend"
    [] cmd = "provision" -> i \in accounts

\* Whatever is lost, handled late or done by others in between: what a command reports
\* as accepted is in the database and stays there, and the only session that it leaves
\* behind is one whose login or logout was not answered.
ReportsAreTrue ==
  \A n \in Runs : report[n] # None =>
    /\ \A i \in report[n].accepted : Accomplished(report[n].cmd, i)
    /\ report[n].status = "succeeded" => report[n].accepted = Items /\ n \notin live
    /\ n \in live => report[n].login = "unanswered" \/ report[n].logout = "failed"

\* Running a command again, also while a request of an earlier run is still on its way,
\* amends a version once for each operator, and registers it once.
RerunsAddNothing ==
  \A i \in Items :
    /\ \A u \in Users :
         Cardinality({k \in DOMAIN chain[i] : chain[i][k] = [by |-> u, cmd |-> "amend"]}) <= 1
    /\ Cardinality({k \in DOMAIN chain[i] : chain[i][k].cmd = "register"}) <= 1

\* "identical retry after completion: returns the stored result"
StoredResultsReplay == \A a \in answers : Replays(a.by, a.cmd, a.item)
=============================================================================
