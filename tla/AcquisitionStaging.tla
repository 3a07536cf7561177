------------------------- MODULE AcquisitionStaging -------------------------
(***************************************************************************)
(* From discovery to a registered Source, offline:                         *)
(* research/acquisition/generic_staging.py turns discovery rows and exact  *)
(* contents into an immutable ledger with one payload file per Source, and *)
(* operator_submit.py registers the Sources of the ledger an operator      *)
(* names.                                                                  *)
(*                                                                         *)
(* Both work on one directory without any lock.  Files are named by their  *)
(* contents; which ledger is current is told by modification times alone.  *)
(* A batch of inputs stands for the ledger it is staged to: its address    *)
(* commits to the inputs.                                                  *)
(***************************************************************************)
EXTENDS GovernanceRoles, SequencesExt

CONSTANTS
  Stagers,    \* commands that stage at once
  Batches,    \* inputs, and the ledgers made of them
  DiscoveryOf,     \* the discovery rows of a batch, in order
  ContentsOf, \* its exact contents
  KnownOf,    \* identity keys of the candidates it is told of
  Clock,      \* what the file system's clock may show
  Senders, \* operators that submit ledgers
  MaxCommands \* bound: commands begun, in all

ASSUME StagingConstants ==
  /\ \A b \in Batches :
       /\ DiscoveryOf[b] \in Seq([url : STRING, doi : STRING \cup {None}, title : STRING,
                              author : STRING \cup {None}, type : STRING \cup {None},
                              level : {1, 2}])
       /\ \A c \in ContentsOf[b] :
            c \in [candidate : {None} \cup ({"doi", "url"} \X STRING), requested : STRING,
                   returned : STRING, checked : BOOLEAN, title : STRING, legible : BOOLEAN,
                   text : STRING]
  /\ Clock \subseteq Nat \ {0} /\ MaxCommands \in Nat
  /\ Senders \subseteq Operators

-----------------------------------------------------------------------------
(* What a batch is staged to.                                               *)

\* By what a Source is registered.
PrimaryIdentity(c) == IF c.doi # None THEN <<"doi", c.doi>> ELSE <<"url", c.url>>

\* A candidate keeps the id of the row it comes from, whatever is merged into it.
StateFromRow(row) == [row |-> row, id |-> PrimaryIdentity(row)]

IdentityKeys(c) ==
  {<<"url", c.url>>, <<"title", c.title>>}
    \cup (IF c.doi = None THEN {} ELSE {<<"doi", c.doi>>})
    \cup (IF c.author = None THEN {} ELSE {<<"title-author", c.title, c.author>>})

Or(value, other) == IF value = None THEN other ELSE value

\* Rows of one work agree on what the classification of a Source depends on.
Disagree(c, d) == c.level # d.level \/ (c.type # d.type /\ None \notin {c.type, d.type})

\* The first candidate that shares a key with the row takes it in; otherwise the row
\* is a candidate of its own.  Rows that disagree end the staging: the result is None.
Absorb(states, row) ==
  LET shares(i) == IdentityKeys(states[i].row) \cap IdentityKeys(row) # {}
      matches == {i \in DOMAIN states : shares(i)}
      first == Min(matches)
      kept == states[first].row
  IN IF matches = {} THEN Append(states, StateFromRow(row))
     ELSE IF Disagree(kept, row) THEN <<None>>
     ELSE [states EXCEPT ![first].row =
             [kept EXCEPT !.doi = Or(@, row.doi), !.author = Or(@, row.author),
                          !.type = Or(@, row.type)]]

Discovered(b) ==
  FoldLeft(LAMBDA states, row : IF states = <<None>> THEN states ELSE Absorb(states, row),
           <<>>, DiscoveryOf[b])

Retained(b) == {s \in ToSet(Discovered(b)) : IdentityKeys(s.row) \cap KnownOf[b] = {}}

ContentsFor(b, s) ==
  {c \in ContentsOf[b] : c.candidate = s.id \/ c.requested = s.row.url}

\* The command ends with an error before it has written anything.
StagingFails(b) ==
  \/ Discovered(b) = <<None>>
  \/ \E s \in Retained(b) : \E c, d \in ContentsFor(b, s) : c # d

\* Entries without a reason to be blocked have a payload file.
Prepared(b, s) ==
  /\ s.row.type # None
  /\ \E c \in ContentsFor(b, s) :
       /\ c.requested = c.returned \/ c.checked
       /\ c.title = s.row.title /\ c.legible

SourcePayload(b, s) ==
  [candidate |-> s.id, identity |-> PrimaryIdentity(s.row),
   text |-> (CHOOSE c \in ContentsFor(b, s) : TRUE).text,
   type |-> s.row.type, level |-> s.row.level]

PayloadsOf ==
  [b \in Batches |->
     IF StagingFails(b) THEN {}
     ELSE {SourcePayload(b, s) : s \in {r \in Retained(b) : Prepared(b, r)}}]

Files == UNION {PayloadsOf[b] : b \in Batches}

\* What the second reading of a file returns that was changed after the first.
Altered(p) == [p EXCEPT !.type = "altered"]

\* Only a candidate that still has the id of the Source to be, at the default level.
Submittable(p) == p.candidate = p.identity /\ p.level = 1

Distinct(items) == \A p, q \in items : p.identity = q.identity => p = q

-----------------------------------------------------------------------------
VARIABLES
  payloads,   \* source_payloads/: "absent", "sound" or "altered"
  ledgers,    \* ledgers/: modification times, 0 for a ledger that does not exist
  reported,   \* reports/: ledgers that have one
  staging,    \* the command of each stager, or None
  submitting, \* the command of each operator, or None
  sources,    \* registered Sources, by identity
  receipts,   \* completed idempotency records of sources.register
  since,      \* history: pairs of ledgers, the second staged after the first was complete
  begun       \* commands begun so far

stagingVars ==
  <<payloads, ledgers, reported, staging, submitting, sources, receipts, since, begun>>

Stagings ==
  [batch : Batches, at : {"payloads", "exists", "latest", "link", "order", "report"},
   new : BOOLEAN, previous : Nat, after : SUBSET Batches]
Read == Files \cup {Altered(p) : p \in Files}
Submissions ==
  [ledger : Batches, at : {"verify", "current", "prepare", "send", "done"},
   items : SUBSET Read, accepted : SUBSET Read, replaced : BOOLEAN]

ASSUME AbsentCommand == None \notin Stagings \cup Submissions

StagingTypeOK ==
  /\ payloads \in [Files -> {"absent", "sound", "altered"}]
  /\ ledgers \in [Batches -> Nat] /\ reported \subseteq Batches
  /\ staging \in [Stagers -> Stagings \cup {None}]
  /\ submitting \in [Senders -> Submissions \cup {None}]
  /\ sources \subseteq Read
  /\ receipts \subseteq [by : Senders, item : Read]
  /\ since \subseteq Batches \X Batches
  /\ begun \in 0..MaxCommands

\* At most one batch was staged before; the clock may have been set back since.
StagingInit ==
  /\ \E old \in {{}} \cup {{b} : b \in {c \in Batches : ~StagingFails(c)}}, then \in Clock :
       /\ payloads = [p \in Files |->
            IF \E b \in old : p \in PayloadsOf[b] THEN "sound" ELSE "absent"]
       /\ ledgers = [b \in Batches |-> IF b \in old THEN then ELSE 0]
       /\ reported = old
  /\ staging = [w \in Stagers |-> None]
  /\ submitting = [u \in Senders |-> None]
  /\ sources = {} /\ receipts = {} /\ since = {}
  /\ begun = 0

-----------------------------------------------------------------------------
(* stage_generic_acquisition.                                               *)

serverAndClients == <<submitting, sources, receipts, begun>>

StagerAt(w, at) == staging[w] # None /\ staging[w].at = at

GoesTo(w, at) == staging' = [staging EXCEPT ![w].at = at]
EndStaging(w) == staging' = [staging EXCEPT ![w] = None]

Stage(w, b) ==
  /\ staging[w] = None /\ ~StagingFails(b)
  /\ begun < MaxCommands /\ begun' = begun + 1
  /\ staging' = [staging EXCEPT ![w] =
       [batch |-> b, at |-> "payloads", new |-> FALSE, previous |-> 0, after |-> {}]]
  /\ UNCHANGED <<payloads, ledgers, reported, since, submitting, sources, receipts>>

\* One file after the other.  A file that exists must have the same bytes; otherwise
\* the command ends there, as it does when it is killed on the way.
WritePayloads(w) ==
  /\ StagerAt(w, "payloads")
  /\ \E written \in SUBSET PayloadsOf[staging[w].batch] :
       /\ \A p \in written : payloads[p] # "altered"
       /\ payloads' = [p \in Files |-> IF p \in written THEN "sound" ELSE payloads[p]]
       /\ IF written = PayloadsOf[staging[w].batch] THEN GoesTo(w, "exists") ELSE EndStaging(w)
  /\ UNCHANGED <<ledgers, reported, since, serverAndClients>>

\* Ledgers that are there and in no command's hands.
Settled ==
  {b \in Batches :
     ledgers[b] # 0 /\ \A w \in Stagers : staging[w] # None => staging[w].batch # b}

\* Does the ledger exist?
LookForLedger(w) ==
  /\ StagerAt(w, "exists")
  /\ LET new == ledgers[staging[w].batch] = 0
     IN staging' = [staging EXCEPT ![w].at = "latest", ![w].new = new,
                                   ![w].after = IF new THEN Settled ELSE {}]
  /\ UNCHANGED <<payloads, ledgers, reported, since, serverAndClients>>

LatestLedgerMtime(w) ==
  /\ StagerAt(w, "latest")
  /\ \E latest \in {ledgers[b] : b \in Batches} :
       /\ \A b \in Batches : ledgers[b] <= latest
       /\ staging' = [staging EXCEPT ![w].at = "link",
            ![w].previous = IF staging[w].new THEN latest ELSE 0]
  /\ UNCHANGED <<payloads, ledgers, reported, since, serverAndClients>>

\* The file has the time at which its temporary was written.
LinkLedger(w) ==
  /\ StagerAt(w, "link")
  /\ \E now \in Clock :
       ledgers' = [ledgers EXCEPT ![staging[w].batch] = IF @ = 0 THEN now ELSE @]
  /\ GoesTo(w, IF staging[w].new THEN "order" ELSE "report")
  /\ UNCHANGED <<payloads, reported, since, serverAndClients>>

\* Mutant: the time of the file is taken as it is.
Mutant_Ordered(time, previous) == time

Ordered(time, previous) == IF time > previous THEN time ELSE previous + 1

OrderNewLedgerAfter(w) ==
  /\ StagerAt(w, "order")
  /\ LET b == staging[w].batch
     IN /\ ledgers' = [ledgers EXCEPT ![b] = Ordered(@, staging[w].previous)]
        /\ since' = since \cup (staging[w].after \X {b})
  /\ staging' = [staging EXCEPT ![w].at = "report", ![w].previous = 0, ![w].after = {}]
  /\ UNCHANGED <<payloads, reported, serverAndClients>>

WriteReport(w) ==
  /\ StagerAt(w, "report")
  /\ reported' = reported \cup {staging[w].batch}
  /\ EndStaging(w)
  /\ UNCHANGED <<payloads, ledgers, since, serverAndClients>>

\* The command is killed.
CrashStaging(w) ==
  /\ staging[w] # None
  /\ EndStaging(w)
  /\ UNCHANGED <<payloads, ledgers, reported, since, serverAndClients>>

\* Environment: a payload file is changed by hand.  Bound: one file.
AlterPayload(p) ==
  /\ payloads[p] = "sound" /\ \A q \in Files : payloads[q] # "altered"
  /\ payloads' = [payloads EXCEPT ![p] = "altered"]
  /\ UNCHANGED <<ledgers, reported, staging, since, serverAndClients>>

-----------------------------------------------------------------------------
(* operator_submit.py.                                                      *)

directory == <<payloads, ledgers, reported, staging, since>>

SubmitterAt(u, at) == submitting[u] # None /\ submitting[u].at = at

GoOn(u, at) == submitting' = [submitting EXCEPT ![u].at = at]

Refuse(u) == submitting' = [submitting EXCEPT ![u] = None]

\* Executed with the ledger's hash given twice.
Submit(u, b) ==
  /\ submitting[u] = None
  /\ begun < MaxCommands /\ begun' = begun + 1
  /\ submitting' = [submitting EXCEPT ![u] =
       [ledger |-> b, at |-> "verify", items |-> {}, accepted |-> {},
        replaced |-> \E c \in Batches : <<b, c>> \in since]]
  /\ UNCHANGED <<directory, sources, receipts>>

SoundFiles(b) == \A p \in PayloadsOf[b] : payloads[p] = "sound"

\* verify_generic_staging: the first reading.
Verify(u) ==
  /\ SubmitterAt(u, "verify")
  /\ LET b == submitting[u].ledger
     IN IF ledgers[b] # 0 /\ SoundFiles(b) THEN GoOn(u, "current") ELSE Refuse(u)
  /\ UNCHANGED <<directory, sources, receipts, begun>>

\* A ledger as old as this one makes the order unknown.
Superseded(b) == \E c \in Batches \ {b} : ledgers[c] >= ledgers[b]

RejectSuperseded(u) ==
  /\ SubmitterAt(u, "current")
  /\ IF Superseded(submitting[u].ledger) THEN Refuse(u) ELSE GoOn(u, "prepare")
  /\ UNCHANGED <<directory, sources, receipts, begun>>

\* Mutant: the hash of the second reading is not compared.
Mutant_HashMatches(p) == TRUE

HashMatches(p) == payloads[p] # "altered"

ReadAgain(p) == IF payloads[p] = "altered" THEN Altered(p) ELSE p

\* The report and every payload, read again; from here on only memory counts.
Prepare(u) ==
  /\ SubmitterAt(u, "prepare")
  /\ LET b == submitting[u].ledger
         items == {ReadAgain(p) : p \in PayloadsOf[b]}
     IN IF /\ b \in reported /\ items # {} /\ Distinct(items)
           /\ \A p \in PayloadsOf[b] : HashMatches(p) /\ Submittable(p)
        THEN submitting' = [submitting EXCEPT ![u].at = "send", ![u].items = items]
        ELSE Refuse(u)
  /\ UNCHANGED <<directory, sources, receipts, begun>>

\* register_source: a key stands for an actor, a candidate and its text.
SameKey(p, q) == p.candidate = q.candidate /\ p.text = q.text
SourceReplays(u, p) == [by |-> u, item |-> p] \in receipts
Registers(u, p) ==
  /\ \A r \in receipts : ~(r.by = u /\ SameKey(r.item, p))
  /\ \A q \in sources : q.identity # p.identity

\* Each item is sent once and is a transaction of its own; the items do not touch each
\* other's rows.  A request or its answer may be lost, the service may refuse it for
\* reasons of its own, and the batch goes on.
ExecuteSubmissions(u) ==
  /\ SubmitterAt(u, "send")
  /\ \E handled \in SUBSET submitting[u].items :
       LET new == {p \in handled : Registers(u, p)}
       IN /\ sources' = sources \cup new
          /\ receipts' = receipts \cup [by : {u}, item : new]
          /\ \E answered \in SUBSET (new \cup {p \in handled : SourceReplays(u, p)}) :
               submitting' = [submitting EXCEPT ![u].at = "done", ![u].items = {},
                                                ![u].accepted = answered]
  /\ UNCHANGED <<directory, begun>>

\* After the logout the outcome is printed; the command may also be killed at any time,
\* or never get past the login.
EndSubmission(u) ==
  /\ submitting[u] # None
  /\ Refuse(u)
  /\ UNCHANGED <<directory, sources, receipts, begun>>

-----------------------------------------------------------------------------
StagingNext ==
  \/ \E w \in Stagers :
       \/ \E b \in Batches : Stage(w, b)
       \/ WritePayloads(w) \/ LookForLedger(w) \/ LatestLedgerMtime(w)
       \/ LinkLedger(w) \/ OrderNewLedgerAfter(w) \/ WriteReport(w) \/ CrashStaging(w)
  \/ \E p \in Files : AlterPayload(p)
  \/ \E u \in Senders :
       \/ \E b \in Batches : Submit(u, b)
       \/ Verify(u) \/ RejectSuperseded(u) \/ Prepare(u)
       \/ ExecuteSubmissions(u) \/ EndSubmission(u)

StagingSpec == StagingInit /\ [][StagingNext]_stagingVars

\* No ledger is submitted once another was staged after it: if that staging began when
\* the ledger was complete and had put its own ledger in place before the submission
\* began, the submission is refused, however coarse the clock is, also when it is set
\* back, and whatever other commands stage or were killed at
\* (_latest_ledger_mtime, _order_new_ledger_after, _reject_superseded_ledger).
NoSupersededSubmission ==
  \A u \in Senders :
    submitting[u] # None /\ submitting[u].at \in {"prepare", "send", "done"} =>
      ~submitting[u].replaced

\* Registered are only Sources that a ledger commits to, and accepted only items that
\* the confirmed ledger commits to and that are registered so, although payload files
\* may change at any time, between the two readings of a submission too, and answers
\* get lost (_prepare_payload, _execute_submissions).
RegisteredAsConfirmed ==
  /\ sources \subseteq Files
  /\ \A u \in Senders :
       submitting[u] # None =>
         submitting[u].accepted \subseteq sources \cap PayloadsOf[submitting[u].ledger]
=============================================================================
