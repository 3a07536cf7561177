------------------------- MODULE AccountRoles_proofs -------------------------
(***************************************************************************)
(* Machine-checked facts about AccountRoles, for any number of accounts,   *)
(* roles, sessions and requests.                                           *)
(***************************************************************************)
EXTENDS AccountRoles, TLAPS

-----------------------------------------------------------------------------
(* The inductive invariant.                                                 *)

\* The rows that a request changes or decides from.
Needed(q) ==
  {row \in LockableRows :
     \/ q.op # "login" /\ row = q.by
     \/ q.op \notin {"login", "logout"} /\ row = sessions[q.by].of
     \/ q.op \in {"login", "grant", "revoke", "end"} /\ row = q.target}

Awaited(q) == {q.todo[i] : i \in 1..Len(q.todo)}

\* A request holds what it no longer waits for, and what it has found out about a row it
\* holds is still so.
Sound(q) ==
  /\ WellFormed(q.op, q.by, q.target, q.role)
  /\ Needed(q) \subseteq q.held \cup Awaited(q)
  /\ \A row \in q.held :
       (row \in Accounts => roles[row] # None) /\ (row \in Sessions => sessions[row] # None)
  /\ Administers(q.op) =>
       /\ q.by \in q.held => sessions[q.by].status = "active"
       /\ sessions[q.by].of \in q.held => Admin \in roles[sessions[q.by].of]
  /\ q.op \in {"login", "revoke"} /\ q.target \in q.held => q.before = roles[q.target]
  /\ q.op = "authenticate" /\ q.by \in q.held /\ q.lapsed => sessions[q.by].status = "active"

Exclusive ==
  \A r, q \in Requests : r # q /\ request[r] # None /\ request[q] # None =>
    request[r].held \cap request[q].held = {}

Locked ==
  /\ AccountTypeOK /\ Exclusive
  /\ \A r \in Requests : request[r] # None => Sound(request[r])

Safe == Locked /\ AdministratorRemains

-----------------------------------------------------------------------------
(* One request.                                                             *)

\* Between None and the rows there is no confusion.
LEMMA OpenIsTyped ==
  ASSUME Locked, NEW r \in Requests, request[r] # None
  PROVE  request[r] \in OpenRequests /\ Sound(request[r])
  BY DEF Locked, AccountTypeOK

\* The sessions and accounts a well-formed request is about are there.
LEMMA WellFormedRows ==
  ASSUME AccountTypeOK, NEW q \in OpenRequests, WellFormed(q.op, q.by, q.target, q.role)
  PROVE  /\ q.op # "login" => /\ q.by \in Sessions /\ sessions[q.by] \in SessionRecords
                              /\ sessions[q.by].of \in Accounts
         /\ q.op \in {"login", "create", "grant", "revoke"} => q.target \in Accounts
         /\ q.op = "end" => q.target \in Sessions
  BY AccountConstants
     DEF AccountTypeOK, OpenRequests, WellFormed, Targets, SessionRecords

\* Taking the first of the rows left moves it from those awaited to those held.
LEMMA AwaitedMoves ==
  ASSUME NEW S, NEW todo \in Seq(S), todo # <<>>
  PROVE  /\ Head(todo) \in S /\ Tail(todo) \in Seq(S)
         /\ \A i \in 1..Len(todo) :
              todo[i] = Head(todo) \/ \E j \in 1..Len(Tail(todo)) : todo[i] = Tail(todo)[j]
  <1>1. Head(todo) \in S /\ Tail(todo) \in Seq(S) /\ Len(Tail(todo)) = Len(todo) - 1
    OBVIOUS
  <1>2. \A i \in 2..Len(todo) : todo[i] = Tail(todo)[i - 1] /\ i - 1 \in 1..Len(Tail(todo))
    BY <1>1
  <1>3. todo[1] = Head(todo)
    OBVIOUS
  <1>4. \A i \in 1..Len(todo) : i = 1 \/ i \in 2..Len(todo)
    OBVIOUS
  <1>5. QED
    BY <1>1, <1>2, <1>3, <1>4

\* A request that locks its next row stays sound.
LEMMA AdvancedIsSound ==
  ASSUME AccountTypeOK, NEW q \in OpenRequests, Sound(q), q.todo # <<>>,
         RowAccepted(q, Head(q.todo))
  PROVE  /\ Advanced(q) \in OpenRequests /\ Sound(Advanced(q))
         /\ Advanced(q).held = q.held \cup {Head(q.todo)}
  <1> DEFINE row == Head(q.todo)
             n == Advanced(q)
  <1>1. q.todo \in Seq(LockableRows)
    BY DEF OpenRequests
  <1>2. row \in LockableRows /\ Tail(q.todo) \in Seq(LockableRows)
    BY <1>1, AwaitedMoves
  <1>3. /\ q.op # "login" => /\ q.by \in Sessions /\ sessions[q.by] \in SessionRecords
                             /\ sessions[q.by].of \in Accounts
        /\ q.op \in {"login", "create", "grant", "revoke"} => q.target \in Accounts
        /\ q.op = "end" => q.target \in Sessions
    BY WellFormedRows DEF Sound
  <1>4. q.op \in {"login", "revoke"} /\ row = q.target => roles[row] \in SUBSET RoleNames
    <2> SUFFICES ASSUME q.op \in {"login", "revoke"}, row = q.target
                 PROVE  roles[row] \in SUBSET RoleNames
      OBVIOUS
    <2>1. row \in Accounts
      BY <1>3
    <2>2. roles[row] # None
      BY <2>1 DEF RowAccepted
    <2>3. roles[row] \in (SUBSET RoleNames) \cup {None}
      BY <2>1 DEF AccountTypeOK
    <2>4. QED
      BY <2>2, <2>3
  <1>5. q.op = "authenticate" /\ row = q.by =>
          (sessions[row].status = "active" /\ sessions[row].due) \in BOOLEAN
    OBVIOUS
  <1>6. n \in OpenRequests
    BY <1>2, <1>4, <1>5 DEF Advanced, OpenRequests, RowLock
  <1>7. /\ n.op = q.op /\ n.by = q.by /\ n.target = q.target /\ n.role = q.role
        /\ n.todo = Tail(q.todo) /\ n.held = q.held \cup {row}
    BY DEF Advanced, OpenRequests, RowLock
  <1>8. /\ n.before = IF q.op \in {"login", "revoke"} /\ row = q.target
                      THEN roles[row] ELSE q.before
        /\ n.lapsed = IF q.op = "authenticate" /\ row = q.by
                      THEN sessions[row].status = "active" /\ sessions[row].due ELSE q.lapsed
    BY DEF Advanced, OpenRequests
  <1>9. Needed(n) \subseteq n.held \cup Awaited(n)
    <2>1. Needed(n) = Needed(q)
      BY <1>7 DEF Needed
    <2>2. Awaited(q) \subseteq {row} \cup Awaited(n)
      BY <1>1, <1>7, AwaitedMoves DEF Awaited
    <2>3. QED
      BY <2>1, <2>2, <1>7 DEF Sound
  <1>10. \A x \in n.held :
           (x \in Accounts => roles[x] # None) /\ (x \in Sessions => sessions[x] # None)
    BY <1>7 DEF Sound, RowAccepted
  <1>11. Administers(n.op) =>
           /\ n.by \in n.held => sessions[n.by].status = "active"
           /\ sessions[n.by].of \in n.held => Admin \in roles[sessions[n.by].of]
    BY <1>7 DEF Sound, RowAccepted, Alive
  <1>12. n.op \in {"login", "revoke"} /\ n.target \in n.held => n.before = roles[n.target]
    BY <1>7, <1>8 DEF Sound
  <1>13. n.op = "authenticate" /\ n.by \in n.held /\ n.lapsed => sessions[n.by].status = "active"
    BY <1>7, <1>8 DEF Sound
  <1>14. QED
    BY <1>6, <1>7, <1>9, <1>10, <1>11, <1>12, <1>13 DEF Sound

\* What a request has found out stays so while nobody changes the rows it holds.
LEMMA Undisturbed ==
  ASSUME AccountTypeOK, NEW q \in OpenRequests, Sound(q),
         \A u \in Accounts \cap q.held : roles'[u] = roles[u],
         \A s \in Sessions : sessions[s] # None =>
           /\ sessions'[s] # None /\ sessions'[s].of = sessions[s].of
           /\ s \in q.held => sessions'[s].status = sessions[s].status
  PROVE  Sound(q)'
  <1>1. /\ q.op # "login" => /\ q.by \in Sessions /\ sessions[q.by] \in SessionRecords
                             /\ sessions[q.by].of \in Accounts
        /\ q.op \in {"login", "create", "grant", "revoke"} => q.target \in Accounts
        /\ q.op = "end" => q.target \in Sessions
    BY WellFormedRows DEF Sound
  <1>2. q.by # None => sessions[q.by] # None
    BY DEF Sound, WellFormed
  <1>3. q.op # "login" => q.by # None
    BY DEF Sound, WellFormed
  <1>4. q.op # "login" => sessions'[q.by].of = sessions[q.by].of /\ sessions'[q.by] # None
    BY <1>1, <1>2, <1>3
  <1>5. WellFormed(q.op, q.by, q.target, q.role)'
    BY <1>4 DEF Sound, WellFormed, Targets
  <1>6. Needed(q)' = Needed(q) /\ Awaited(q)' = Awaited(q)
    BY <1>4 DEF Needed, Awaited
  <1>7. \A row \in q.held :
          (row \in Accounts => roles'[row] # None) /\ (row \in Sessions => sessions'[row] # None)
    BY DEF Sound
  <1>8. Administers(q.op) =>
          /\ q.by \in q.held => sessions'[q.by].status = "active"
          /\ sessions'[q.by].of \in q.held => Admin \in roles'[sessions'[q.by].of]
    BY <1>1, <1>2, <1>4 DEF Sound, Administers
  <1>9. q.op \in {"login", "revoke"} /\ q.target \in q.held => q.before = roles'[q.target]
    BY <1>1 DEF Sound
  <1>10. q.op = "authenticate" /\ q.by \in q.held /\ q.lapsed => sessions'[q.by].status = "active"
    BY <1>1, <1>2 DEF Sound
  <1>11. QED
    BY <1>5, <1>6, <1>7, <1>8, <1>9, <1>10 DEF Sound

-----------------------------------------------------------------------------
(* All of them.                                                             *)

\* A step of one request that leaves alone what the others hold keeps them sound; it is
\* then enough to look at that request.
LEMMA OneRequestMoves ==
  ASSUME Locked, AccountTypeOK', NEW r \in Requests, NEW n,
         request' = [request EXCEPT ![r] = n],
         n # None => /\ Sound(n)'
                     /\ \A q \in Requests \ {r} :
                          request[q] # None => n.held \cap request[q].held = {},
         \A q \in Requests \ {r} : request[q] # None =>
           \A u \in Accounts \cap request[q].held : roles'[u] = roles[u],
         \A s \in Sessions : sessions[s] # None =>
           /\ sessions'[s] # None /\ sessions'[s].of = sessions[s].of
           /\ \A q \in Requests \ {r} : request[q] # None /\ s \in request[q].held =>
                sessions'[s].status = sessions[s].status
  PROVE  Locked'
  <1>1. request'[r] = n /\ \A q \in Requests \ {r} : request'[q] = request[q]
    BY DEF Locked, AccountTypeOK
  <1>2. Exclusive'
    BY <1>1 DEF Locked, Exclusive
  <1>3. ASSUME NEW q \in Requests, request'[q] # None PROVE Sound(request[q])'
    <2>1. CASE q = r
      BY <1>1, <1>3, <2>1
    <2>2. CASE q # r
      <3>1. request'[q] = request[q] /\ request[q] # None
        BY <1>1, <1>3, <2>2
      <3>2. request[q] \in OpenRequests /\ Sound(request[q])
        BY <3>1, OpenIsTyped
      <3>3. PICK x \in OpenRequests : x = request[q]
        BY <3>2
      <3>4. Sound(x)'
        BY <2>2, <3>1, <3>2, <3>3, Undisturbed DEF Locked
      <3>5. QED
        BY <1>1, <2>2, <3>3, <3>4
    <2>3. QED
      BY <2>1, <2>2
  <1>4. QED
    BY <1>2, <1>3 DEF Locked

\* A step of nobody but the clock and the first administrator.
LEMMA NoRequestMoves ==
  ASSUME Locked, AccountTypeOK', request' = request,
         \A u \in Accounts : roles[u] # None => roles'[u] = roles[u],
         \A s \in Sessions : sessions[s] # None =>
           /\ sessions'[s] # None /\ sessions'[s].of = sessions[s].of
           /\ sessions'[s].status = sessions[s].status
  PROVE  Locked'
  <1>1. ASSUME NEW q \in Requests, request[q] # None PROVE Sound(request[q])'
    <2>1. PICK x \in OpenRequests : x = request[q]
      BY <1>1, OpenIsTyped
    <2>2. Sound(x)
      BY <1>1, <2>1, OpenIsTyped
    <2>3. \A u \in Accounts \cap x.held : roles'[u] = roles[u]
      BY <2>2 DEF Sound
    <2>4. Sound(x)'
      BY <2>2, <2>3, Undisturbed DEF Locked
    <2>5. QED
      BY <2>1, <2>4
  <1>2. Exclusive'
    BY DEF Locked, Exclusive
  <1>3. QED
    BY <1>1, <1>2 DEF Locked

\* A request that ends, having changed only rows it holds or an account that was not there.
LEMMA RequestEnds ==
  ASSUME Locked, NEW r \in Requests, request[r] # None, Ended(r),
         roles' \in [Accounts -> (SUBSET RoleNames) \cup {None}],
         sessions' \in [Sessions -> SessionRecords \cup {None}],
         \A u \in Accounts : roles'[u] # roles[u] => u \in request[r].held \/ roles[u] = None,
         \A s \in Sessions : sessions[s] # None =>
           /\ sessions'[s] # None /\ sessions'[s].of = sessions[s].of
           /\ sessions'[s].status # sessions[s].status => s \in request[r].held
  PROVE  Locked'
  <1>1. AccountTypeOK'
    BY DEF Locked, AccountTypeOK, Ended
  <1>2. ASSUME NEW q \in Requests \ {r}, request[q] # None, NEW row \in request[q].held
        PROVE  row \notin request[r].held
    BY <1>2 DEF Locked, Exclusive
  <1>3. ASSUME NEW q \in Requests \ {r}, request[q] # None,
               NEW u \in Accounts \cap request[q].held
        PROVE  roles'[u] = roles[u]
    <2>1. Sound(request[q])
      BY <1>3, OpenIsTyped
    <2>2. roles[u] # None
      BY <2>1, <1>3 DEF Sound
    <2>3. QED
      BY <1>2, <1>3, <2>2
  <1>4. ASSUME NEW s \in Sessions, sessions[s] # None, NEW q \in Requests \ {r},
               request[q] # None, s \in request[q].held
        PROVE  sessions'[s].status = sessions[s].status
    BY <1>2, <1>4
  <1>5. request' = [request EXCEPT ![r] = None]
    BY DEF Ended
  <1>6. QED
    BY <1>1, <1>3, <1>4, <1>5, OneRequestMoves

\* A request that has locked all its rows holds what it changes and decides from.
LEMMA CompleteHolds ==
  ASSUME Locked, NEW r \in Requests, request[r] # None, request[r].todo = <<>>
  PROVE  /\ request[r] \in OpenRequests /\ Sound(request[r])
         /\ Needed(request[r]) \subseteq request[r].held
         /\ request[r].op # "login" =>
              /\ request[r].by \in Sessions /\ sessions[request[r].by] \in SessionRecords
              /\ sessions[request[r].by].of \in Accounts
         /\ request[r].op \in {"login", "create", "grant", "revoke"} =>
              request[r].target \in Accounts
         /\ request[r].op = "end" => request[r].target \in Sessions
  <1>1. request[r] \in OpenRequests /\ Sound(request[r])
    BY OpenIsTyped
  <1>2. Awaited(request[r]) = {}
    BY DEF Awaited
  <1>3. Needed(request[r]) \subseteq request[r].held
    BY <1>1, <1>2 DEF Sound
  <1>4. PICK q \in OpenRequests : q = request[r]
    BY <1>1
  <1>5. /\ q.op # "login" => /\ q.by \in Sessions /\ sessions[q.by] \in SessionRecords
                             /\ sessions[q.by].of \in Accounts
        /\ q.op \in {"login", "create", "grant", "revoke"} => q.target \in Accounts
        /\ q.op = "end" => q.target \in Sessions
    BY <1>1, <1>4, WellFormedRows DEF Sound, Locked
  <1>6. QED
    BY <1>1, <1>3, <1>4, <1>5

\* One that administers is sent with a session that is active, of an administrator, both
\* of which it holds.
LEMMA CompleteAdministers ==
  ASSUME Locked, NEW r \in Requests, request[r] # None, request[r].todo = <<>>,
         Administers(request[r].op)
  PROVE  /\ request[r].by \in request[r].held
         /\ sessions[request[r].by].of \in request[r].held
         /\ sessions[request[r].by].status = "active"
         /\ Admin \in roles[sessions[request[r].by].of]
         /\ roles[sessions[request[r].by].of] # None
  <1>1. /\ Sound(request[r]) /\ Needed(request[r]) \subseteq request[r].held
        /\ request[r].by \in Sessions /\ sessions[request[r].by].of \in Accounts
    BY CompleteHolds DEF Administers
  <1>2. request[r].by \in request[r].held /\ sessions[request[r].by].of \in request[r].held
    BY <1>1 DEF Needed, Administers, LockableRows
  <1>3. QED
    BY <1>1, <1>2 DEF Sound

-----------------------------------------------------------------------------
(* The steps.                                                               *)

LEMMA AccountInitOK == ASSUME AccountInit PROVE Safe
  <1>1. AccountTypeOK
    BY DEF AccountInit, AccountTypeOK
  <1>2. Exclusive /\ \A r \in Requests : request[r] # None => Sound(request[r])
    BY DEF AccountInit, Exclusive
  <1>3. AdministratorRemains
    BY AccountConstants DEF AccountInit, AdministratorRemains
  <1>4. QED
    BY <1>1, <1>2, <1>3 DEF Safe, Locked

LEMMA BootstrapInitialAdminOK ==
  ASSUME Safe, NEW u \in Accounts, BootstrapInitialAdmin(u) PROVE Safe'
  <1>1. AccountTypeOK'
    BY AccountConstants DEF Safe, Locked, AccountTypeOK, BootstrapInitialAdmin
  <1>2. Locked'
    BY <1>1, NoRequestMoves DEF Safe, BootstrapInitialAdmin
  <1>3. AdministratorRemains'
    BY AccountConstants
       DEF Safe, Locked, AccountTypeOK, AdministratorRemains, BootstrapInitialAdmin
  <1>4. QED
    BY <1>2, <1>3 DEF Safe

LEMMA SessionElapsesOK ==
  ASSUME Safe, NEW s \in Sessions, SessionElapses(s) PROVE Safe'
  <1>1. sessions[s] \in SessionRecords
    BY DEF Safe, Locked, AccountTypeOK, SessionElapses
  <1>2. sessions' = [sessions EXCEPT ![s] = [sessions[s] EXCEPT !.due = TRUE]]
    BY DEF SessionElapses
  <1>3. [sessions[s] EXCEPT !.due = TRUE] \in SessionRecords
    BY <1>1 DEF SessionRecords
  <1>4. AccountTypeOK'
    BY <1>2, <1>3 DEF Safe, Locked, AccountTypeOK, SessionElapses
  <1>5. \A t \in Sessions : sessions[t] # None =>
          /\ sessions'[t] # None /\ sessions'[t].of = sessions[t].of
          /\ sessions'[t].status = sessions[t].status
    <2>1. sessions'[s] # None
      BY <1>2, <1>3, AbsentSession DEF Safe, Locked, AccountTypeOK
    <2>2. QED
      BY <1>1, <1>2, <2>1 DEF Safe, Locked, AccountTypeOK, SessionRecords
  <1>6. Locked'
    BY <1>4, <1>5, NoRequestMoves DEF Safe, SessionElapses
  <1>7. QED
    BY <1>6 DEF Safe, AdministratorRemains, SessionElapses

\* A request that locks a row no other holds.
LEMMA RequestAdvances ==
  ASSUME Safe, NEW r \in Requests, NEW q \in OpenRequests, Sound(q), q.todo # <<>>,
         RowAccepted(q, Head(q.todo)), ~HeldByOther(r, Head(q.todo)),
         \A p \in Requests \ {r} : request[p] # None => q.held \cap request[p].held = {},
         request' = [request EXCEPT ![r] = Advanced(q)], UNCHANGED <<roles, sessions>>
  PROVE  Safe'
  <1>1. /\ AccountTypeOK /\ Advanced(q) \in OpenRequests /\ Sound(Advanced(q))
        /\ Advanced(q).held = q.held \cup {Head(q.todo)}
    BY AdvancedIsSound DEF Safe, Locked
  <1>2. PICK n \in OpenRequests : n = Advanced(q)
    BY <1>1
  <1>3. Sound(n) /\ n.held = q.held \cup {Head(q.todo)}
    BY <1>1, <1>2
  <1>4. Sound(n)'
    BY <1>1, <1>3, Undisturbed
  <1>5. AccountTypeOK'
    BY <1>1 DEF AccountTypeOK
  <1>6. \A p \in Requests \ {r} : request[p] # None => n.held \cap request[p].held = {}
    BY <1>3 DEF HeldByOther
  <1>7. Locked'
    BY <1>2, <1>4, <1>5, <1>6, OneRequestMoves DEF Safe
  <1>8. QED
    BY <1>7 DEF Safe, AdministratorRemains

LEMMA BeginOK ==
  ASSUME Safe, NEW r \in Requests, NEW op \in Operations, NEW s \in Sessions \cup {None},
         NEW target \in LockableRows, NEW role \in RoleNames, Begin(r, op, s, target, role)
  PROVE  Safe'
  <1>1. WellFormed(op, s, target, role)
    BY DEF Begin
  <1>2. op # "login" => s \in Sessions /\ sessions[s].of \in Accounts
    BY <1>1, AccountConstants
       DEF Safe, Locked, AccountTypeOK, WellFormed, SessionRecords
  <1>3. RowsOf(op, s, target) \in Seq(LockableRows) /\ RowsOf(op, s, target) # <<>>
    <2>1. CASE op = "login"
      BY <2>1 DEF RowsOf
    <2>2. CASE op = "logout"
      BY <1>2, <2>2 DEF RowsOf, LockableRows
    <2>3. CASE op \in {"authenticate", "create"}
      BY <1>2, <2>3 DEF RowsOf, LockableRows
    <2>4. CASE op \in {"grant", "revoke", "end"}
      <3>1. RowsOf(op, s, target) = <<s, sessions[s].of, target>>
        BY <2>4 DEF RowsOf
      <3>2. s \in LockableRows /\ sessions[s].of \in LockableRows
        BY <1>2, <2>4 DEF LockableRows
      <3>3. QED
        BY <3>1, <3>2
    <2>5. QED
      BY <2>1, <2>2, <2>3, <2>4 DEF Operations
  <1>4. PICK rows \in Seq(LockableRows) : rows = RowsOf(op, s, target)
    BY <1>3
  <1> DEFINE q == [op |-> op, by |-> s, target |-> target, role |-> role,
                   todo |-> rows, held |-> {}, before |-> {}, lapsed |-> FALSE]
  <1>5. q \in OpenRequests
    BY <1>4 DEF OpenRequests
  <1>6. Needed(q) \subseteq Awaited(q)
    <2>1. \A row \in Needed(q) : \E i \in 1..Len(rows) : rows[i] = row
      BY <1>1, <1>2, <1>4 DEF Needed, RowsOf, Operations, WellFormed
    <2>2. QED
      BY <2>1 DEF Awaited
  <1>7. Sound(q)
    BY <1>1, <1>6 DEF Sound
  <1>8. /\ q.todo # <<>> /\ RowAccepted(q, Head(q.todo)) /\ ~HeldByOther(r, Head(q.todo))
        /\ request' = [request EXCEPT ![r] = Advanced(q)] /\ UNCHANGED <<roles, sessions>>
    BY <1>3, <1>4 DEF Begin
  <1>9. \A p \in Requests \ {r} : request[p] # None => q.held \cap request[p].held = {}
    OBVIOUS
  <1> HIDE DEF q
  <1>10. QED
    BY <1>5, <1>7, <1>8, <1>9, RequestAdvances

LEMMA LockRowOK == ASSUME Safe, NEW r \in Requests, LockRow(r) PROVE Safe'
  <1>1. request[r] # None /\ request[r] \in OpenRequests /\ Sound(request[r])
    BY OpenIsTyped DEF Safe, LockRow
  <1>2. PICK q \in OpenRequests : q = request[r]
    BY <1>1
  <1>3. /\ Sound(q) /\ q.todo # <<>> /\ RowAccepted(q, Head(q.todo))
        /\ ~HeldByOther(r, Head(q.todo))
        /\ UNCHANGED <<roles, sessions>>
    BY <1>1, <1>2 DEF LockRow, Blocked
  <1>4. request' = [request EXCEPT ![r] = Advanced(q)]
    BY <1>2 DEF LockRow
  <1>5. \A p \in Requests \ {r} : request[p] # None => q.held \cap request[p].held = {}
    BY <1>1, <1>2 DEF Safe, Locked, Exclusive
  <1>6. QED
    BY <1>3, <1>4, <1>5, RequestAdvances

\* A request that ends without a commit changes nothing.
LEMMA RolledBackOK ==
  ASSUME Safe, NEW r \in Requests, request[r] # None, Ended(r), UNCHANGED <<roles, sessions>>
  PROVE  Safe'
  <1>1. Locked'
    BY RequestEnds DEF Safe, Locked, AccountTypeOK
  <1>2. QED
    BY <1>1 DEF Safe, AdministratorRemains

\* A session whose status changes under its lock.
LEMMA StatusChangesOK ==
  ASSUME Safe, NEW r \in Requests, request[r] # None, Ended(r), UNCHANGED roles,
         NEW s \in Sessions, s \in request[r].held, NEW status \in {"active", "expired", "revoked"},
         sessions' = [sessions EXCEPT ![s].status = status]
  PROVE  Safe'
  <1>1. sessions[s] \in SessionRecords
    BY OpenIsTyped DEF Safe, Locked, AccountTypeOK, Sound
  <1>2. PICK record \in SessionRecords : record = [sessions[s] EXCEPT !.status = status]
    BY <1>1 DEF SessionRecords
  <1>3. sessions' = [sessions EXCEPT ![s] = record]
    BY <1>2
  <1>4. sessions' \in [Sessions -> SessionRecords \cup {None}]
    BY <1>3 DEF Safe, Locked, AccountTypeOK
  <1>5. record # None /\ record.of = sessions[s].of
    BY <1>1, <1>2, AbsentSession DEF SessionRecords
  <1>6. \A t \in Sessions : sessions[t] # None =>
          /\ sessions'[t] # None /\ sessions'[t].of = sessions[t].of
          /\ sessions'[t].status # sessions[t].status => t \in request[r].held
    BY <1>3, <1>5 DEF Safe, Locked, AccountTypeOK
  <1>7. Locked'
    BY <1>4, <1>6, RequestEnds DEF Safe, Locked, AccountTypeOK
  <1>8. QED
    BY <1>7 DEF Safe, AdministratorRemains

LEMMA CommitLoginOK == ASSUME Safe, NEW r \in Requests, CommitLogin(r) PROVE Safe'
  <1>1. /\ request[r] # None /\ request[r].target \in Accounts /\ Ended(r) /\ UNCHANGED roles
    BY CompleteHolds DEF Safe, CommitLogin, Complete
  <1>2. NewSession \in Sessions /\ sessions[NewSession] = None
    BY DEF CommitLogin, NewSession
  <1>3. PICK record \in SessionRecords :
          sessions' = [sessions EXCEPT ![NewSession] = record]
    BY <1>1 DEF CommitLogin, SessionRecords
  <1>4. sessions' \in [Sessions -> SessionRecords \cup {None}]
    BY <1>3 DEF Safe, Locked, AccountTypeOK
  <1>5. \A t \in Sessions : sessions[t] # None => sessions'[t] = sessions[t]
    BY <1>2, <1>3 DEF Safe, Locked, AccountTypeOK
  <1>6. Locked'
    BY <1>1, <1>4, <1>5, RequestEnds DEF Safe, Locked, AccountTypeOK
  <1>7. QED
    BY <1>1, <1>6 DEF Safe, AdministratorRemains

LEMMA CommitAuthenticateOK == ASSUME Safe, NEW r \in Requests, CommitAuthenticate(r) PROVE Safe'
  <1>1. /\ request[r] # None /\ request[r].by \in Sessions /\ request[r].by \in request[r].held
        /\ Ended(r) /\ UNCHANGED roles
    BY CompleteHolds DEF Safe, CommitAuthenticate, Complete, Needed, LockableRows
  <1>2. CASE request[r].lapsed
    BY <1>1, <1>2, StatusChangesOK DEF CommitAuthenticate
  <1>3. CASE ~request[r].lapsed
    BY <1>1, <1>3, RolledBackOK DEF CommitAuthenticate
  <1>4. QED
    BY <1>2, <1>3

LEMMA CommitLogoutOK == ASSUME Safe, NEW r \in Requests, CommitLogout(r) PROVE Safe'
  <1>1. /\ request[r] # None /\ request[r].by \in Sessions /\ request[r].by \in request[r].held
        /\ Ended(r) /\ UNCHANGED roles
    BY CompleteHolds DEF Safe, CommitLogout, Complete, Needed, LockableRows
  <1>2. CASE roles[sessions[request[r].by].of] # {}
    BY <1>1, <1>2, StatusChangesOK DEF CommitLogout
  <1>3. CASE roles[sessions[request[r].by].of] = {}
    BY <1>1, <1>3, RolledBackOK DEF CommitLogout
  <1>4. QED
    BY <1>2, <1>3

LEMMA CommitCreateUserOK ==
  ASSUME Safe, NEW r \in Requests, NEW granted \in SUBSET RoleNames, CommitCreateUser(r, granted)
  PROVE  Safe'
  <1>1. request[r] # None /\ request[r].target \in Accounts /\ Ended(r) /\ UNCHANGED sessions
    BY CompleteHolds DEF Safe, CommitCreateUser, Complete
  <1>2. PICK u \in Accounts : u = request[r].target
    BY <1>1
  <1>3. CASE roles[u] # None
    BY <1>1, <1>2, <1>3, RolledBackOK DEF CommitCreateUser
  <1>4. CASE roles[u] = None
    <2>1. roles' = [roles EXCEPT ![u] = granted] /\ granted # {} /\ granted # None
      BY <1>2, <1>4, AccountConstants DEF CommitCreateUser
    <2>2. roles' \in [Accounts -> (SUBSET RoleNames) \cup {None}]
      BY <2>1 DEF Safe, Locked, AccountTypeOK
    <2>3. \A v \in Accounts : roles'[v] # roles[v] => roles[v] = None
      BY <1>4, <2>1 DEF Safe, Locked, AccountTypeOK
    <2>4. Locked'
      BY <1>1, <2>2, <2>3, RequestEnds DEF Safe, Locked, AccountTypeOK
    \* The user who creates another is an administrator.
    <2>5. Administers(request[r].op) /\ request[r].todo = <<>>
      BY DEF CommitCreateUser, Complete, Administers
    <2>6. request[r].by \in Sessions /\ sessions[request[r].by].of \in Accounts
      BY <1>1, <2>5, CompleteHolds DEF Safe, Administers
    <2>7. PICK v \in Accounts : roles[v] # None /\ Admin \in roles[v]
      BY <1>1, <2>5, <2>6, CompleteAdministers DEF Safe
    <2>8. AdministratorRemains'
      BY <1>4, <2>1, <2>7 DEF Safe, Locked, AccountTypeOK, AdministratorRemains
    <2>9. QED
      BY <2>4, <2>8 DEF Safe
  <1>5. QED
    BY <1>3, <1>4

\* The roles of the target of a grant or a revocation are a set of roles, and are locked.
LEMMA TargetHeld ==
  ASSUME Safe, NEW r \in Requests, request[r] # None, request[r].todo = <<>>,
         request[r].op \in {"grant", "revoke"}
  PROVE  /\ request[r].target \in Accounts /\ request[r].target \in request[r].held
         /\ roles[request[r].target] \in SUBSET RoleNames /\ roles[request[r].target] # None
         /\ request[r].role \in RoleNames
  <1>1. /\ request[r] \in OpenRequests /\ Sound(request[r])
        /\ Needed(request[r]) \subseteq request[r].held /\ request[r].target \in Accounts
    BY CompleteHolds DEF Safe
  <1>2. request[r].target \in request[r].held
    BY <1>1 DEF Needed, LockableRows
  <1>3. roles[request[r].target] # None
    BY <1>1, <1>2 DEF Sound
  <1>4. request[r].role \in RoleNames
    BY <1>1 DEF OpenRequests
  <1>5. QED
    BY <1>1, <1>2, <1>3, <1>4 DEF Safe, Locked, AccountTypeOK

LEMMA CommitGrantRoleOK == ASSUME Safe, NEW r \in Requests, CommitGrantRole(r) PROVE Safe'
  <1>1. /\ request[r] # None /\ request[r].todo = <<>> /\ request[r].op = "grant"
        /\ Ended(r) /\ UNCHANGED sessions
    BY DEF CommitGrantRole, Complete
  <1>2. PICK u \in Accounts, role \in RoleNames : u = request[r].target /\ role = request[r].role
    BY <1>1, TargetHeld
  <1>3. u \in request[r].held /\ roles[u] \in SUBSET RoleNames /\ roles[u] # None
    BY <1>1, <1>2, TargetHeld
  <1>4. roles' = [roles EXCEPT ![u] = roles[u] \cup {role}]
    BY <1>2 DEF CommitGrantRole
  <1>5. roles' \in [Accounts -> (SUBSET RoleNames) \cup {None}]
    BY <1>3, <1>4 DEF Safe, Locked, AccountTypeOK
  <1>6. \A v \in Accounts : roles'[v] # roles[v] => v \in request[r].held
    BY <1>3, <1>4 DEF Safe, Locked, AccountTypeOK
  <1>7. Locked'
    BY <1>1, <1>5, <1>6, RequestEnds DEF Safe, Locked, AccountTypeOK
  <1>8. roles[u] \cup {role} # {} /\ roles[u] \cup {role} # None
    BY <1>3, AccountConstants
  <1>9. PICK v \in Accounts : roles[v] # None /\ Admin \in roles[v]
    BY <1>3 DEF Safe, AdministratorRemains
  <1>10. roles'[v] # None /\ Admin \in roles'[v]
    BY <1>4, <1>8, <1>9 DEF Safe, Locked, AccountTypeOK
  <1>11. \A w \in Accounts : roles'[w] # {}
    BY <1>4, <1>8 DEF Safe, Locked, AccountTypeOK, AdministratorRemains
  <1>12. QED
    BY <1>7, <1>10, <1>11 DEF Safe, AdministratorRemains

\* The crux: the administrator who takes the role away keeps it, and what is left of the
\* target's roles was counted under its lock.
LEMMA CommitRevokeRoleOK == ASSUME Safe, NEW r \in Requests, CommitRevokeRole(r) PROVE Safe'
  <1>1. /\ request[r] # None /\ request[r].todo = <<>> /\ request[r].op = "revoke"
        /\ Ended(r) /\ UNCHANGED sessions
    BY DEF CommitRevokeRole, Complete
  <1>2. PICK u \in Accounts, role \in RoleNames : u = request[r].target /\ role = request[r].role
    BY <1>1, TargetHeld
  <1>3. u \in request[r].held /\ roles[u] \in SUBSET RoleNames /\ roles[u] # None
    BY <1>1, <1>2, TargetHeld
  <1>4. Sound(request[r])
    BY <1>1, OpenIsTyped DEF Safe
  <1>5. request[r].before = roles[u]
    BY <1>1, <1>2, <1>3, <1>4 DEF Sound
  <1>6. CASE roles[u] = {role}
    <2>1. UNCHANGED roles
      BY <1>2, <1>5, <1>6 DEF CommitRevokeRole
    <2>2. QED
      BY <1>1, <2>1, RolledBackOK
  <1>7. CASE roles[u] # {role}
    <2>1. roles' = [roles EXCEPT ![u] = roles[u] \ {role}]
      BY <1>2, <1>5, <1>7 DEF CommitRevokeRole
    <2>2. roles' \in [Accounts -> (SUBSET RoleNames) \cup {None}]
      BY <1>3, <2>1 DEF Safe, Locked, AccountTypeOK
    <2>3. \A v \in Accounts : roles'[v] # roles[v] => v \in request[r].held
      BY <1>3, <2>1 DEF Safe, Locked, AccountTypeOK
    <2>4. Locked'
      BY <1>1, <2>2, <2>3, RequestEnds DEF Safe, Locked, AccountTypeOK
    <2>5. roles[u] \ {role} # {} /\ roles[u] \ {role} # None
      BY <1>3, <1>7, AccountConstants DEF Safe, AdministratorRemains
    <2>6. PICK v \in Accounts : v = sessions[request[r].by].of
      BY <1>1, CompleteHolds DEF Safe
    <2>7. roles[v] # None /\ Admin \in roles[v]
      BY <1>1, <2>6, CompleteAdministers DEF Safe, Administers
    <2>8. u = v => role # Admin
      BY <1>1, <1>2, <1>4, <2>6 DEF Sound, WellFormed
    <2>9. roles'[v] # None /\ Admin \in roles'[v]
      BY <2>1, <2>5, <2>7, <2>8 DEF Safe, Locked, AccountTypeOK
    <2>10. \A w \in Accounts : roles'[w] # {}
      BY <2>1, <2>5 DEF Safe, Locked, AccountTypeOK, AdministratorRemains
    <2>11. QED
      BY <2>4, <2>9, <2>10 DEF Safe, AdministratorRemains
  <1>8. QED
    BY <1>6, <1>7

LEMMA CommitRevokeSessionOK == ASSUME Safe, NEW r \in Requests, CommitRevokeSession(r) PROVE Safe'
  <1>1. /\ request[r] # None /\ request[r].todo = <<>> /\ request[r].op = "end"
        /\ Ended(r) /\ UNCHANGED roles
    BY DEF CommitRevokeSession, Complete
  <1>2. request[r].target \in Sessions /\ request[r].target \in request[r].held
    BY <1>1, CompleteHolds DEF Safe, Needed, LockableRows
  <1>3. QED
    BY <1>1, <1>2, StatusChangesOK DEF CommitRevokeSession

LEMMA CommitRequestOK == ASSUME Safe, NEW r \in Requests, CommitRequest(r) PROVE Safe'
  BY CommitLoginOK, CommitAuthenticateOK, CommitLogoutOK, CommitCreateUserOK, CommitGrantRoleOK,
     CommitRevokeRoleOK, CommitRevokeSessionOK DEF CommitRequest

LEMMA UnchangedOK == ASSUME Safe, UNCHANGED accountVars PROVE Safe'
  <1>1. AccountTypeOK' /\ AdministratorRemains'
    BY DEF Safe, Locked, AccountTypeOK, AdministratorRemains, accountVars
  <1>2. Locked'
    BY <1>1, NoRequestMoves DEF Safe, accountVars
  <1>3. QED
    BY <1>1, <1>2 DEF Safe

LEMMA AccountStepOK == ASSUME Safe, [AccountNext]_accountVars PROVE Safe'
  <1>1. CASE BootstrapInitialAdmin(FirstAccount)
    <2>1. CASE FirstAccount \in Accounts
      BY <1>1, <2>1, BootstrapInitialAdminOK
    <2>2. CASE FirstAccount \notin Accounts
      <3>1. Accounts = {}
        BY <2>2 DEF FirstAccount
      <3>2. roles' = roles /\ UNCHANGED <<sessions, request>>
        BY <1>1, <3>1 DEF BootstrapInitialAdmin, Safe, Locked, AccountTypeOK
      <3>3. QED
        BY <3>2, UnchangedOK DEF accountVars
    <2>3. QED
      BY <2>1, <2>2
  <1>2. ASSUME NEW s \in Sessions, SessionElapses(s) PROVE Safe'
    BY <1>2, SessionElapsesOK
  <1>3. ASSUME NEW r \in Requests, NEW op \in Operations, NEW s \in Sessions \cup {None},
               NEW target \in LockableRows, NEW role \in RoleNames, Begin(r, op, s, target, role)
        PROVE  Safe'
    BY <1>3, BeginOK
  <1>4. ASSUME NEW r \in Requests, LockRow(r) PROVE Safe'
    BY <1>4, LockRowOK
  <1>5. ASSUME NEW r \in Requests, RefuseRequest(r) \/ AbandonRequest(r) \/ AbortRequest(r)
        PROVE  Safe'
    <2>1. Ended(r) /\ UNCHANGED <<roles, sessions>>
      BY <1>5 DEF RefuseRequest, AbandonRequest, AbortRequest
    <2>2. CASE request[r] # None
      BY <2>1, <2>2, RolledBackOK
    <2>3. CASE request[r] = None
      <3>1. UNCHANGED accountVars
        BY <2>1, <2>3 DEF Safe, Locked, AccountTypeOK, Ended, accountVars
      <3>2. QED
        BY <3>1, UnchangedOK
    <2>4. QED
      BY <2>2, <2>3
  <1>6. ASSUME NEW r \in Requests, CommitRequest(r) PROVE Safe'
    BY <1>6, CommitRequestOK
  <1>7. QED
    BY <1>1, <1>2, <1>3, <1>4, <1>5, <1>6, UnchangedOK DEF AccountNext

-----------------------------------------------------------------------------
(* The theorems.                                                            *)

LEMMA AlwaysSafe == AccountSpec => []Safe
  <1>1. AccountInit => Safe
    BY AccountInitOK
  <1>2. Safe /\ [AccountNext]_accountVars => Safe'
    BY AccountStepOK
  <1>3. QED
    BY <1>1, <1>2, PTL DEF AccountSpec

\* Every reachable state has the declared types.
THEOREM TypeCorrect == AccountSpec => []AccountTypeOK
  <1>1. Safe => AccountTypeOK
    BY DEF Safe, Locked
  <1>2. QED
    BY <1>1, AlwaysSafe, PTL

\* However administrators change each other's roles at once, one remains, and no account is
\* left without a role.
THEOREM AdministratorsRemain == AccountSpec => []AdministratorRemains
  <1>1. Safe => AdministratorRemains
    BY DEF Safe
  <1>2. QED
    BY <1>1, AlwaysSafe, PTL

\* A status only goes forward.
LEMMA StatusForward ==
  ASSUME Safe, [AccountNext]_accountVars, NEW s \in Sessions, sessions[s] # None
  PROVE  /\ sessions[s].status = "revoked" => sessions'[s].status = "revoked"
         /\ sessions[s].status = "expired" => sessions'[s].status # "active"
  <1>1. sessions \in [Sessions -> SessionRecords \cup {None}] /\ sessions[s] \in SessionRecords
    BY DEF Safe, Locked, AccountTypeOK
  <1>2. CASE UNCHANGED sessions
    BY <1>2
  <1>3. ASSUME NEW t \in Sessions, SessionElapses(t) PROVE sessions'[s].status = sessions[s].status
    BY <1>1, <1>3 DEF SessionElapses, SessionRecords
  <1>4. ASSUME NEW r \in Requests, CommitLogin(r) PROVE sessions'[s] = sessions[s]
    <2>1. sessions[NewSession] = None
      BY <1>4 DEF CommitLogin, NewSession
    <2>2. PICK record : sessions' = [sessions EXCEPT ![NewSession] = record]
      BY <1>4 DEF CommitLogin
    <2>3. QED
      BY <1>1, <2>1, <2>2
  <1>5. ASSUME NEW r \in Requests, CommitAuthenticate(r)
        PROVE  \/ sessions'[s] = sessions[s]
               \/ sessions[s].status = "active" /\ sessions'[s].status = "expired"
    <2>1. Sound(request[r]) /\ request[r].by \in request[r].held /\ request[r].by \in Sessions
      BY <1>5, CompleteHolds DEF Safe, CommitAuthenticate, Complete, Needed, LockableRows
    <2>2. request[r].lapsed => sessions[request[r].by].status = "active"
      BY <1>5, <2>1 DEF Sound, CommitAuthenticate, Complete
    <2>3. QED
      <3>1. CASE request[r].lapsed /\ s = request[r].by
        BY <1>1, <1>5, <2>2, <3>1 DEF CommitAuthenticate, SessionRecords
      <3>2. CASE ~request[r].lapsed \/ s # request[r].by
        BY <1>1, <1>5, <3>2 DEF CommitAuthenticate
      <3>3. QED
        BY <3>1, <3>2
  <1>6. ASSUME NEW r \in Requests, CommitLogout(r) \/ CommitRevokeSession(r)
        PROVE  sessions'[s] = sessions[s] \/ sessions'[s].status = "revoked"
    BY <1>1, <1>6 DEF CommitLogout, CommitRevokeSession, SessionRecords
  <1>7. ASSUME NEW r \in Requests, CommitRequest(r)
        PROVE  \/ sessions'[s] = sessions[s] \/ sessions'[s].status = "revoked"
               \/ sessions[s].status = "active" /\ sessions'[s].status = "expired"
    BY <1>4, <1>5, <1>6, <1>7
       DEF CommitRequest, CommitCreateUser, CommitGrantRole, CommitRevokeRole
  <1>8. QED
    BY <1>2, <1>3, <1>7
       DEF AccountNext, BootstrapInitialAdmin, Begin, LockRow, RefuseRequest, AbandonRequest,
           AbortRequest, accountVars

\* What is administered is by a session that is active and an account that has the role at
\* the commit; and a status only goes forward.
THEOREM AuthorityIsHeld == AccountSpec => AuthorityHolds
  <1>1. ASSUME Safe, [AccountNext]_accountVars
        PROVE  [/\ \A r \in Requests :
                     request[r] # None /\ Administers(request[r].op) /\ request[r].todo = <<>>
                       /\ (roles' # roles \/ sessions' # sessions) /\ request'[r] = None =>
                     /\ sessions[request[r].by].status = "active"
                     /\ Admin \in roles[sessions[request[r].by].of]
                /\ \A s \in Sessions : sessions[s] # None =>
                     /\ sessions[s].status = "revoked" => sessions'[s].status = "revoked"
                     /\ sessions[s].status = "expired" =>
                          sessions'[s].status # "active"]_accountVars
    BY <1>1, CompleteAdministers, StatusForward DEF Safe
  <1>2. QED
    BY <1>1, AlwaysSafe, PTL DEF AccountSpec, AuthorityHolds
=============================================================================
