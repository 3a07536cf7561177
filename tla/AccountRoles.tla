---------------------------- MODULE AccountRoles ----------------------------
(***************************************************************************)
(* Accounts, their roles and their sessions: AuthService and AdminService  *)
(* of security/services.py with security/repositories.py, over the tables  *)
(* of persistence/models.py and migration 0001.                            *)
(*                                                                         *)
(* Every request is one transaction that locks rows one by one: the        *)
(* session it was sent with, that session's account, then what it changes. *)
(* What it reads of a row it reads when it has locked it, and what it      *)
(* writes is seen at its commit.  No code disables an account or changes a *)
(* password, so these two ways to lose a session are left out.             *)
(***************************************************************************)
EXTENDS GovernanceRoles, FiniteSets, Sequences

CONSTANTS
  Accounts,   \* accounts that exist or may be created
  RoleNames,  \* the role catalogue
  Admin,      \* the role that administers
  Sessions,   \* identities of sessions
  Requests    \* requests that the server handles at once

ASSUME AccountConstants ==
  /\ Accounts \subseteq Users
  /\ Admin \in RoleNames
  /\ None \notin Sessions /\ \A S \in SUBSET RoleNames : S # None
  /\ Sessions \cap Accounts = {}

VARIABLES
  roles,     \* active user_roles of each account; None: no such account
  sessions,  \* user sessions, or None
  request    \* the open transaction of each request, or None

accountVars == <<roles, sessions, request>>

SessionRecords ==
  [of : Accounts, status : {"active", "expired", "revoked"}, due : BOOLEAN]

ASSUME AbsentSession == None \notin SessionRecords

LockableRows == Sessions \cup Accounts
Operations == {"login", "authenticate", "logout", "create", "grant", "revoke", "end"}

\* An open request: what it does, to whom or what, with which role; the rows still to
\* be locked, the rows locked; of what it has read, the roles of the account it signs in
\* or takes a role from, and whether the session it authenticates is active beyond its
\* lifetime.
OpenRequests ==
  [op : Operations, by : Sessions \cup {None}, target : LockableRows, role : RoleNames,
   todo : Seq(LockableRows), held : SUBSET LockableRows,
   before : SUBSET RoleNames, lapsed : BOOLEAN]

AccountTypeOK ==
  /\ roles \in [Accounts -> (SUBSET RoleNames) \cup {None}]
  /\ sessions \in [Sessions -> SessionRecords \cup {None}]
  /\ request \in [Requests -> OpenRequests \cup {None}]

AccountInit ==
  /\ roles = [u \in Accounts |-> None]
  /\ sessions = [s \in Sessions |-> None]
  /\ request = [r \in Requests |-> None]

-----------------------------------------------------------------------------
(* Requests and their locks.                                                *)

\* The users table is locked against inserts, and it is empty.
BootstrapInitialAdmin(u) ==
  /\ \A v \in Accounts : roles[v] = None
  /\ roles' = [roles EXCEPT ![u] = {Admin}]
  /\ UNCHANGED <<sessions, request>>

\* The absolute lifetime of a session passes.
SessionElapses(s) ==
  /\ sessions[s] # None /\ ~sessions[s].due
  /\ sessions' = [sessions EXCEPT ![s].due = TRUE]
  /\ UNCHANGED <<roles, request>>

Administers(op) == op \in {"create", "grant", "revoke", "end"}

\* The rows in the order of their SELECT ... FOR UPDATE.
RowsOf(op, s, target) ==
  CASE op = "login" -> <<target>>
    [] op = "logout" -> <<s>>
    [] op \in {"authenticate", "create"} -> <<s, sessions[s].of>>
    [] op \in {"grant", "revoke", "end"} -> <<s, sessions[s].of, target>>

Targets(op) == IF op \in {"authenticate", "logout", "end"} THEN Sessions ELSE Accounts

HeldByOther(r, row) == \E q \in Requests \ {r} : request[q] # None /\ row \in request[q].held

Blocked(r) == request[r] # None /\ request[r].todo # <<>> /\ HeldByOther(r, Head(request[r].todo))

Alive(s) == sessions[s].status = "active" /\ ~sessions[s].due

\* What the request requires of a row it has locked: of its own session and account as
\* _require_permission does, of its target that it exists.
RowAccepted(q, row) ==
  /\ row \in Accounts => roles[row] # None
  /\ row \in Sessions => sessions[row] # None
  /\ Administers(q.op) /\ row = q.by => Alive(row)
  /\ Administers(q.op) /\ row = sessions[q.by].of => Admin \in roles[row]

\* Mutant: sessions are read without FOR UPDATE.
Mutant_RowLock(row) == {row} \ Sessions

\* Mutant: accounts are read without FOR UPDATE.
MutantOfUsers_RowLock(row) == {row} \ Accounts

RowLock(row) == {row}

\* The request has locked the next row, and read what it will use of it.
Advanced(q) ==
  LET row == Head(q.todo) IN
  [q EXCEPT !.todo = Tail(@), !.held = @ \cup RowLock(row),
            !.before = IF q.op \in {"login", "revoke"} /\ row = q.target THEN roles[row] ELSE @,
            !.lapsed = IF q.op = "authenticate" /\ row = q.by
                       THEN sessions[row].status = "active" /\ sessions[row].due ELSE @]

\* Of a request: a login comes without a session, a token is of a session that was
\* created, and one's own administrator role is not revoked.
WellFormed(op, s, target, role) ==
  /\ op = "login" <=> s = None
  /\ s # None => sessions[s] # None
  /\ target \in Targets(op)
  /\ op \in {"authenticate", "logout"} => target = s
  /\ op \notin {"grant", "revoke"} => role = Admin
  /\ op = "revoke" /\ target = sessions[s].of => role # Admin

\* A transaction begins with its first lock; refused there, it has done nothing.
Begin(r, op, s, target, role) ==
  LET row == Head(RowsOf(op, s, target))
      q == [op |-> op, by |-> s, target |-> target, role |-> role,
            todo |-> RowsOf(op, s, target), held |-> {},
            before |-> {}, lapsed |-> FALSE] IN
  /\ request[r] = None
  /\ WellFormed(op, s, target, role)
  /\ ~HeldByOther(r, row) /\ RowAccepted(q, row)
  /\ request' = [request EXCEPT ![r] = Advanced(q)]
  /\ UNCHANGED <<roles, sessions>>

LockRow(r) ==
  /\ request[r] # None /\ request[r].todo # <<>> /\ ~Blocked(r)
  /\ RowAccepted(request[r], Head(request[r].todo))
  /\ request' = [request EXCEPT ![r] = Advanced(@)]
  /\ UNCHANGED <<roles, sessions>>

Ended(r) == request' = [request EXCEPT ![r] = None]

\* The row is not accepted: the transaction is rolled back.
RefuseRequest(r) ==
  /\ request[r] # None /\ request[r].todo # <<>> /\ ~Blocked(r)
  /\ ~RowAccepted(request[r], Head(request[r].todo))
  /\ Ended(r)
  /\ UNCHANGED <<roles, sessions>>

\* The client is refused for another reason, or the process dies.
AbandonRequest(r) == request[r] # None /\ Ended(r) /\ UNCHANGED <<roles, sessions>>

WaitsOn(r) ==
  IF Blocked(r)
  THEN {q \in Requests \ {r} : request[q] # None /\ Head(request[r].todo) \in request[q].held}
  ELSE {}

\* The database ends one of the transactions that wait for each other.
AbortRequest(r) ==
  /\ \E S \in SUBSET Requests : r \in S /\ \A q \in S : WaitsOn(q) \cap S # {}
  /\ Ended(r)
  /\ UNCHANGED <<roles, sessions>>

Complete(r, op) == request[r] # None /\ request[r].op = op /\ request[r].todo = <<>>

-----------------------------------------------------------------------------
(* What each request commits.                                               *)

\* New identifiers and names are interchangeable: the first free one stands for any.
NewSession == CHOOSE s \in Sessions : sessions[s] = None
FirstAccount == CHOOSE u \in Accounts : TRUE

\* The password is right; an account without a role is refused.
CommitLogin(r) ==
  /\ Complete(r, "login")
  /\ \E s \in Sessions : sessions[s] = None
  /\ request[r].before # {}
  /\ sessions' = [sessions EXCEPT
       ![NewSession] = [of |-> request[r].target, status |-> "active", due |-> FALSE]]
  /\ Ended(r)
  /\ UNCHANGED roles

\* A session that is still active after its lifetime is marked expired.
CommitAuthenticate(r) ==
  LET s == request[r].by IN
  /\ Complete(r, "authenticate")
  /\ sessions' = IF request[r].lapsed
                 THEN [sessions EXCEPT ![s].status = "expired"] ELSE sessions
  /\ Ended(r)
  /\ UNCHANGED roles

\* The roles of the account are read without a lock; that of a revoked one are not.
CommitLogout(r) ==
  LET s == request[r].by IN
  /\ Complete(r, "logout")
  /\ sessions' = IF roles[sessions[s].of] # {}
                 THEN [sessions EXCEPT ![s].status = "revoked"] ELSE sessions
  /\ Ended(r)
  /\ UNCHANGED roles

\* Usernames are unique: the insert of a second one fails, after waiting for the first.
CommitCreateUser(r, granted) ==
  LET u == request[r].target IN
  /\ Complete(r, "create")
  /\ granted # {}
  /\ roles' = IF roles[u] = None THEN [roles EXCEPT ![u] = granted] ELSE roles
  /\ Ended(r)
  /\ UNCHANGED sessions

\* A role that the account has is not granted again.
CommitGrantRole(r) ==
  /\ Complete(r, "grant")
  /\ roles' = [roles EXCEPT ![request[r].target] = @ \cup {request[r].role}]
  /\ Ended(r)
  /\ UNCHANGED sessions

\* An account keeps at least one active role.
CommitRevokeRole(r) ==
  LET q == request[r] IN
  /\ Complete(r, "revoke")
  /\ roles' = IF q.before # {q.role} THEN [roles EXCEPT ![q.target] = @ \ {q.role}] ELSE roles
  /\ Ended(r)
  /\ UNCHANGED sessions

CommitRevokeSession(r) ==
  /\ Complete(r, "end")
  /\ sessions' = [sessions EXCEPT ![request[r].target].status = "revoked"]
  /\ Ended(r)
  /\ UNCHANGED roles

-----------------------------------------------------------------------------
CommitRequest(r) ==
  \/ CommitLogin(r) \/ CommitAuthenticate(r) \/ CommitLogout(r)
  \/ \E granted \in SUBSET RoleNames : CommitCreateUser(r, granted)
  \/ CommitGrantRole(r) \/ CommitRevokeRole(r) \/ CommitRevokeSession(r)

AccountNext ==
  \/ BootstrapInitialAdmin(FirstAccount)
  \/ \E s \in Sessions : SessionElapses(s)
  \/ \E r \in Requests, op \in Operations, s \in Sessions \cup {None}, target \in LockableRows,
        role \in RoleNames : Begin(r, op, s, target, role)
  \/ \E r \in Requests :
       LockRow(r) \/ RefuseRequest(r) \/ AbandonRequest(r) \/ AbortRequest(r) \/ CommitRequest(r)

AccountSpec == AccountInit /\ [][AccountNext]_accountVars

-----------------------------------------------------------------------------
(* Properties.                                                              *)

\* Administrators who take the role from each other at once, in any circle, never take
\* it from the last, though _change_role refuses only one's own; and two who take
\* different roles from one account leave it one: "A user must retain at least one
\* active role".
AdministratorRemains ==
  /\ \A u \in Accounts : roles[u] # {}
  /\ (\E u \in Accounts : roles[u] # None) => \E u \in Accounts : roles[u] # None /\ Admin \in roles[u]

\* Nothing is administered by a session that was revoked, or by an account that lost the
\* role, between the check and the commit; and a revoked session stays revoked, whatever
\* a request sent with it is about to find, and an expired one is never active again.
AuthorityHolds ==
  [][/\ \A r \in Requests :
          request[r] # None /\ Administers(request[r].op) /\ request[r].todo = <<>>
            /\ (roles' # roles \/ sessions' # sessions) /\ request'[r] = None =>
          /\ sessions[request[r].by].status = "active"
          /\ Admin \in roles[sessions[request[r].by].of]
     /\ \A s \in Sessions : sessions[s] # None =>
          /\ sessions[s].status = "revoked" => sessions'[s].status = "revoked"
          /\ sessions[s].status = "expired" => sessions'[s].status # "active"]_accountVars
=============================================================================
