---------------------------- MODULE PreparedInput ----------------------------
(***************************************************************************)
(* Inputs of the bootstrap runs (research/bootstrap/generic_input.py): the *)
(* prepared entries of a staged ledger, checked against the audit of their *)
(* lane, are written as one immutable batch below the run's directory,     *)
(* first the lists of candidates and Source records, then their contents,  *)
(* the claim policies, and last the manifest that commits to the others.   *)
(*                                                                         *)
(* A file that exists is compared and never replaced, and it is created    *)
(* and filled in place: a kill leaves it torn.  A text stands for its      *)
(* hash; one file stands for the four lists.                               *)
(***************************************************************************)
EXTENDS GovernanceRoles, FiniteSets, Sequences

CONSTANTS
  Ledgers,   \* staged ledgers that verify
  LaneOf,    \* "practitioner" or "academic"
  EntriesOf, \* their entries
  Audits,    \* semantic audits, an academic one with its independent audit
  AuditOf,   \* what each of them says
  Torn       \* a file whose writer was killed

ASSUME InputAssumptions ==
  /\ Ledgers \cap Audits = {}
  /\ {None, Torn} \cap (Ledgers \cup Audits) = {} /\ None # Torn

-----------------------------------------------------------------------------
(* The audits: the policy of each URL they pass.                            *)

PractitionerRoles == {"expert_opinion", "context_only"}
AcademicRoles == {"result", "method", "background", "hypothesis", "discussion", "context_only"}

\* Each key is held once.
OneEach(S, Key(_)) == \A r, s \in S : Key(r) = Key(s) => r = s

\* A record either stays discovery-only or is eligible, with a URL of its own and no role
\* of scientific evidence; the newer schema names the text as well.
PractitionerSound(a) ==
  LET eligible == {r \in a.records : r.disposition = "eligible_exact_content"}
  IN /\ a.offline /\ eligible # {} /\ OneEach(eligible, LAMBDA r : r.url)
     /\ \A r \in a.records \ eligible : r.disposition = "blocked_discovery_only" /\ ~r.staged
     /\ \A r \in eligible :
          r.roles # {} /\ r.roles \subseteq PractitionerRoles /\ (a.newer => r.text # None)

PractitionerPolicies(a) ==
  {[url |-> r.url, doi |-> None, roles |-> r.roles, text |-> r.text, year |-> None,
    title |-> r.title] :
     r \in {s \in a.records : s.disposition = "eligible_exact_content"}}

\* A corrected year is one that an issue of the independent audit has resolved.
CorrectionsSound(a) ==
  /\ OneEach(a.issues, LAMBDA i : i.doi) /\ OneEach(a.corrections, LAMBDA c : c.doi)
  /\ {c.doi : c \in a.corrections} = {i.doi : i \in a.issues}
  /\ \A c \in a.corrections, i \in a.issues : c.doi = i.doi => c.year = i.year /\ i.text # None

\* The full-text audit and the independent one cover the same articles of this ledger and
\* agree on each.
AcademicSound(l, a) ==
  /\ a.offline /\ a.ledger = l /\ a.accepted # {} /\ CorrectionsSound(a)
  /\ OneEach(a.accepted, LAMBDA r : r.doi) /\ OneEach(a.accepted, LAMBDA r : r.url)
  /\ OneEach(a.independent, LAMBDA r : r.doi)
  /\ {r.doi : r \in a.accepted} = {r.doi : r \in a.independent}
  /\ \A r \in a.accepted, s \in a.independent :
       r.doi = s.doi => /\ r.title = s.title /\ s.passed
                        /\ s.corrected = (r.doi \in {c.doi : c \in a.corrections})

FirstOf(x, y) == IF x # None THEN x ELSE y

AcademicPolicies(a) ==
  {LET s == CHOOSE i \in a.independent : i.doi = r.doi
       issues == {i \in a.issues : i.doi = r.doi}
       issue == IF issues = {} THEN [text |-> None, year |-> None] ELSE CHOOSE i \in issues : TRUE
   IN [url |-> r.url, doi |-> r.doi, roles |-> AcademicRoles, title |-> r.title,
       text |-> FirstOf(r.text, FirstOf(s.text, issue.text)), year |-> issue.year] :
     r \in a.accepted}

AuditSound(l, a) ==
  IF LaneOf[l] = "practitioner" THEN PractitionerSound(AuditOf[a]) ELSE AcademicSound(l, AuditOf[a])
Policies(l, a) ==
  IF LaneOf[l] = "practitioner" THEN PractitionerPolicies(AuditOf[a])
  ELSE AcademicPolicies(AuditOf[a])

-----------------------------------------------------------------------------
(* The batch.                                                               *)

PreparedEntries(l) == {e \in EntriesOf[l] : e.payload # None}

\* The payload holds the text that the ledger commits to and the audit has seen, asks for
\* no permission, and is described alike by all three.
PayloadSound(l, e, policy) ==
  LET p == e.payload
  IN /\ p.text = e.text /\ policy.text \in {None, p.text} /\ p.asksNothing
     /\ p.category = LaneOf[l] /\ e.category = LaneOf[l]
     /\ p.url = e.url /\ p.title = e.title /\ p.year = e.year /\ p.title = policy.title
     /\ LaneOf[l] = "academic" => /\ p.doi # None /\ p.doi = e.doi /\ p.doi = policy.doi
                                  /\ policy.year \in {None, p.year}

\* The audit passes exactly the URLs of the prepared entries, and every payload is sound.
BatchSound(l, a) ==
  /\ AuditSound(l, a)
  /\ {e.url : e \in PreparedEntries(l)} = {p.url : p \in Policies(l, a)}
  /\ \A e \in PreparedEntries(l), p \in Policies(l, a) : e.url = p.url => PayloadSound(l, e, p)

InputFiles == <<"lists", "contents", "policies", "manifest">>
FileNames == {"lists", "contents", "policies", "manifest"}

\* The contents are those of the ledger; the other files repeat what the audit says.
InputBytes(l, a, f) == IF f = "contents" THEN l ELSE a

-----------------------------------------------------------------------------
VARIABLES
  inputs,    \* the files of the batch of each ledger
  preparing  \* the command that prepares batches and may execute them, or None

inputVars == <<inputs, preparing>>

Preparations ==
  [todo : Seq(Ledgers \X Audits),          \* batches to prepare, the first one at hand
   file : 1..Len(InputFiles),              \* and its next file
   prepared : Seq(Ledgers), execute : BOOLEAN]

InputTypeOK ==
  /\ inputs \in [Ledgers -> [FileNames -> {None, Torn} \cup Ledgers \cup Audits]]
  /\ preparing \in Preparations \cup {None}

InputInit ==
  /\ inputs = [l \in Ledgers |-> [f \in FileNames |-> None]]
  /\ preparing = None

StartPreparation(todo, execute) ==
  /\ preparing = None /\ todo # <<>>
  /\ preparing' = [todo |-> todo, file |-> 1, prepared |-> <<>>, execute |-> execute]
  /\ UNCHANGED inputs

Ledger == preparing.todo[1][1]
Audit == preparing.todo[1][2]
File == InputFiles[preparing.file]
AtHand == preparing # None /\ preparing.todo # <<>>

\* Mutant: a file that exists is taken for the same.
Mutant_Conflicts(l, a, f) == FALSE

\* The file exists and differs.
Conflicts(l, a, f) == inputs[l][f] \notin {None, InputBytes(l, a, f)}

\* The command ends with an error: the audit does not fit, or an existing file differs.
RefusePreparation ==
  /\ AtHand
  /\ ~BatchSound(Ledger, Audit) \/ Conflicts(Ledger, Audit, File)
  /\ preparing' = None
  /\ UNCHANGED inputs

WriteImmutable ==
  /\ AtHand /\ BatchSound(Ledger, Audit) /\ ~Conflicts(Ledger, Audit, File)
  /\ inputs' = [inputs EXCEPT ![Ledger][File] =
       IF @ = None THEN InputBytes(Ledger, Audit, File) ELSE @]
  /\ preparing' =
       IF preparing.file < Len(InputFiles) THEN [preparing EXCEPT !.file = @ + 1]
       ELSE [preparing EXCEPT !.file = 1, !.todo = Tail(@), !.prepared = Append(@, Ledger)]

\* Killed, perhaps while it fills a file it has just created; or done, when nothing is to
\* be executed.
EndPreparation ==
  /\ preparing # None
  /\ \/ UNCHANGED inputs
     \/ /\ AtHand /\ BatchSound(Ledger, Audit) /\ inputs[Ledger][File] = None
        /\ inputs' = [inputs EXCEPT ![Ledger][File] = Torn]
  /\ preparing' = None

-----------------------------------------------------------------------------
\* Whether a batch has a manifest that the files on disk agree with.
Verifies(l) ==
  /\ inputs[l]["manifest"] \in Audits
  /\ \A f \in FileNames : inputs[l][f] = InputBytes(l, inputs[l]["manifest"], f)

\* A batch whose manifest is there verifies, byte for byte, against one audit that passes
\* every entry of its ledger, whatever kills and other audits its preparation met before
\* (_write_immutable, _verify_prepared_input_manifest).
PreparedInputsVerify ==
  \A l \in Ledgers :
    inputs[l]["manifest"] \in Audits => Verifies(l) /\ BatchSound(l, inputs[l]["manifest"])
=============================================================================
