-------------------------- MODULE AcquisitionBundle --------------------------
(***************************************************************************)
(* The fixed acquisition run: research/acquisition/staging.py describes    *)
(* which exact content each locked candidate needs, and tavily_results.py  *)
(* selects it from three saved exports and writes the bundle: content,     *)
(* receipt and payload of every candidate, then the results that commit to *)
(* them, and reads all of it again.                                        *)
(*                                                                         *)
(* Nothing keeps two runs off one directory, and a file is written through *)
(* a temporary whose name all runs share.  That is modelled as it is: a    *)
(* run writes to the file it has opened, wherever another run may have     *)
(* moved it.                                                               *)
(***************************************************************************)
EXTENDS GovernanceRoles, FiniteSets, Sequences

CONSTANTS
  LockedSet,  \* the locked candidates, in the order of their ids
  RecordOf,   \* the verified Source record of each
  Exports,    \* saved exports
  ExportOf,   \* what each of them holds
  Processors, \* runs at a time
  MaxBundles  \* bound: runs begun, in all

ASSUME BundleConstants ==
  /\ LockedSet \in Seq({LockedSet[i] : i \in DOMAIN LockedSet})
  /\ MaxBundles \in Nat

-----------------------------------------------------------------------------
(* The manifest.  A candidate is named by its place in the locked set.      *)

ReadyAccess == {"public", "open"}

SourceIdentity(citation) ==
  IF citation.doi # None THEN <<"doi", citation.doi>> ELSE <<"url", citation.url>>

LockedPlaces == DOMAIN LockedSet
RecordAt(i) == RecordOf[LockedSet[i].id]

\* Every candidate is there once, without any text, and has the identity of its citation;
\* its record says the same of it and has not been approved.
ManifestBuilds ==
  /\ \A i, j \in LockedPlaces : LockedSet[i].id = LockedSet[j].id => i = j
  /\ {LockedSet[i].id : i \in LockedPlaces} = DOMAIN RecordOf
  /\ \A i \in LockedPlaces :
       LET c == LockedSet[i]
           r == RecordAt(i)
       IN /\ c.snippet = None /\ c.id = SourceIdentity(c.citation)
          /\ r.category = c.category /\ r.citation = c.citation /\ r.approval = "pending"

RoleTypes ==
  [role \in {"interview", "essay", "archive"} |->
     CASE role = "interview" -> "interview" [] role = "essay" -> "web_article" [] OTHER -> None]

\* An academic candidate is an article; one role of a practitioner leaves its type open.
SourceTypeFor(i) ==
  IF LockedSet[i].category = "academic" THEN "journal_article" ELSE RoleTypes[RecordAt(i).role]

\* The page that was checked and, beside it, the open PDF of an article.
ContentLocators(i) ==
  LET r == RecordAt(i)
      category == LockedSet[i].category
      pdf == IF category = "academic" THEN {r.pdf} \ {None, r.page} ELSE {}
  IN IF r.access \notin ReadyAccess THEN {}
     ELSE {[kind |-> category, url |-> u] : u \in {r.page} \ {None}}
            \cup {[kind |-> "pdf", url |-> u] : u \in pdf}

Ready == {i \in LockedPlaces : RecordAt(i).access \in ReadyAccess}

\* The page of each ready candidate; every one has its own, or the run ends.
PrimaryUrls(category) ==
  {l.url : l \in {k \in UNION {ContentLocators(i) : i \in Ready} : k.kind = category}}
LocatorsSound ==
  /\ \A i \in Ready : \E l \in ContentLocators(i) : l.kind = LockedSet[i].category
  /\ \A i, j \in Ready :
       LockedSet[i].category = LockedSet[j].category /\ RecordAt(i).page = RecordAt(j).page => i = j

-----------------------------------------------------------------------------
(* The selection.                                                           *)

UrlsOf(results) == {r.url : r \in results}
OnePerUrl(results) == \A r, s \in results : r.url = s.url => r = s

\* The practitioners' pages, all of them; the articles' pages, or a failure of each that
\* the advanced export replaces; and every text chosen is sound.
Selects(e) ==
  LET x == ExportOf[e]
  IN /\ ManifestBuilds /\ LocatorsSound
     /\ OnePerUrl(x.practitioner) /\ OnePerUrl(x.academic) /\ OnePerUrl(x.advanced)
     /\ UrlsOf(x.practitioner) = PrimaryUrls("practitioner")
     /\ UrlsOf(x.academic) \cap x.failed = {}
     /\ UrlsOf(x.academic) \cup x.failed = PrimaryUrls("academic")
     /\ UrlsOf(x.advanced) = x.failed
     /\ \A r \in x.practitioner \cup x.academic \cup x.advanced : r.sound

TextFor(e, i) ==
  LET x == ExportOf[e]
      results == IF LockedSet[i].category = "practitioner" THEN x.practitioner
                 ELSE x.academic \cup x.advanced
  IN (CHOOSE r \in results : r.url = RecordAt(i).page).text

-----------------------------------------------------------------------------
(* The files, and the orders they are written and read in.                  *)

FilesFor(i) ==
  {[kind |-> kind, of |-> i] :
     kind \in {"content", "receipt"} \cup (IF SourceTypeFor(i) = None THEN {} ELSE {"payload"})}

Results == [kind |-> "results", of |-> Len(LockedSet) + 1]
Report == [kind |-> "report", of |-> Len(LockedSet) + 1]

BundleFiles == (UNION {FilesFor(i) : i \in Ready}) \cup {Results, Report}

Rank(kind) ==
  CASE kind \in {"content", "results"} -> 0 [] kind \in {"receipt", "report"} -> 1 [] OTHER -> 2

\* Candidate by candidate, then the results and the report.
Written == [f \in BundleFiles |-> 3 * f.of + Rank(f.kind)]

\* Mutant: the results alone are read again.
Mutant_Verified == [f \in {Results} |-> 0]

\* What is read again: the results first; the report is not.
Verified == [f \in BundleFiles \ {Report} |-> IF f = Results THEN 0 ELSE Written[f]]

IsFirst(f, order) == f \in DOMAIN order /\ \A g \in DOMAIN order : order[f] <= order[g]
IsLast(f, order) == \A g \in DOMAIN order : order[g] <= order[f]

\* The one that comes after f.
IsNext(g, f, order) ==
  /\ g \in DOMAIN order /\ order[f] < order[g]
  /\ \A h \in DOMAIN order : order[h] <= order[f] \/ order[g] <= order[h]

\* A text is that of the page; everything else names the export too.
Bytes(e, f) == IF f.kind = "content" THEN TextFor(e, f.of) ELSE e

ASSUME BytesPresent ==
  \A e \in Exports, f \in BundleFiles : Selects(e) => Bytes(e, f) # "absent"

-----------------------------------------------------------------------------
VARIABLES
  bundle,     \* the files of the directory
  temps,      \* and their temporaries
  processing, \* the run of each processor, or None
  bundlesBegun

bundleVars == <<bundle, temps, processing, bundlesBegun>>

AllBytes ==
  {"absent", "empty", "torn"} \cup {Bytes(e, f) : e \in {x \in Exports : Selects(x)}, f \in BundleFiles}

Processings ==
  [export : Exports, at : {"open", "write", "replace", "verify", "done", "failed"},
   next : BundleFiles,                         \* the file it writes, or reads again
   holds : {"temporary", "final", "neither"},  \* where the file it has open is by now
   alone : BOOLEAN,                            \* history: no other run beside it
   steady : BOOLEAN]                           \* history: no other wrote since it verifies

ASSUME AbsentProcessing == None \notin Processings

BundleTypeOK ==
  /\ bundle \in [BundleFiles -> AllBytes]
  /\ temps \in [BundleFiles -> AllBytes]
  /\ processing \in [Processors -> Processings \cup {None}]
  /\ bundlesBegun \in 0..MaxBundles

\* An earlier run got as far as a file, had perhaps opened it, or written it as well.
BundleInit ==
  /\ \E e \in {x \in Exports : Selects(x)}, last \in BundleFiles,
        at \in {"before", "opened", "written"} :
       /\ bundle = [f \in BundleFiles |->
            IF Written[f] < Written[last] \/ (f = last /\ at = "written")
            THEN Bytes(e, f) ELSE "absent"]
       /\ temps = [f \in BundleFiles |->
            IF f = last /\ at = "opened" THEN "empty" ELSE "absent"]
  /\ processing = [w \in Processors |-> None]
  /\ bundlesBegun = 0

Untouched == \A f \in BundleFiles : bundle[f] = "absent" /\ temps[f] = "absent"

RunAt(w, at) == processing[w] # None /\ processing[w].at = at
FileOf(w) == processing[w].next
SameFile(v, w) == FileOf(v) = FileOf(w)

Running(w) == processing[w] # None /\ processing[w].at \notin {"done", "failed"}

\* Nothing is written unless everything is selected and sound.
ProcessSavedExports(w, e) ==
  /\ processing[w] = None /\ Selects(e)
  /\ bundlesBegun < MaxBundles /\ bundlesBegun' = bundlesBegun + 1
  /\ \E first \in BundleFiles :
       /\ IsFirst(first, Written)
       /\ processing' = [v \in Processors |->
            IF v = w
            THEN [export |-> e, at |-> "open", next |-> first, holds |-> "temporary",
                  alone |-> \A u \in Processors : ~Running(u), steady |-> FALSE]
            ELSE IF Running(v) THEN [processing[v] EXCEPT !.alone = FALSE] ELSE processing[v]]
  /\ UNCHANGED <<bundle, temps>>

\* Opening empties the file.
OpenTemporary(w) ==
  /\ RunAt(w, "open")
  /\ temps' = [temps EXCEPT ![FileOf(w)] = "empty"]
  /\ processing' = [processing EXCEPT ![w].at = "write", ![w].holds = "temporary"]
  /\ UNCHANGED <<bundle, bundlesBegun>>

\* What another run has written there is written over, perhaps not to its end.
WrittenOver(old, new) == IF old \in {"empty", new} THEN {new} ELSE {new, "torn"}

\* The other runs' files that w changed in the directory.
Disturbed(w, table) ==
  [v \in Processors |->
     IF v # w /\ table[v] # None THEN [table[v] EXCEPT !.steady = FALSE] ELSE table[v]]

WriteTemporary(w) ==
  /\ RunAt(w, "write")
  /\ LET f == FileOf(w)
         new == Bytes(processing[w].export, f)
         onward == [processing EXCEPT ![w].at = "replace"]
     IN CASE processing[w].holds = "temporary" ->
               /\ \E b \in WrittenOver(temps[f], new) : temps' = [temps EXCEPT ![f] = b]
               /\ processing' = onward /\ UNCHANGED bundle
          [] processing[w].holds = "final" ->
               /\ \E b \in WrittenOver(bundle[f], new) : bundle' = [bundle EXCEPT ![f] = b]
               /\ processing' = Disturbed(w, onward) /\ UNCHANGED temps
          [] OTHER -> processing' = onward /\ UNCHANGED <<bundle, temps>>
  /\ UNCHANGED bundlesBegun

\* Mutant: a file that is there already is kept.
Mutant_Replaced(old, new) == IF old = "absent" THEN new ELSE old

Replaced(old, new) == new

\* Of the other runs, those that have the temporary open have the file open now.
Moved(w) ==
  [v \in Processors |->
     IF v # w /\ RunAt(v, "write") /\ SameFile(v, w)
     THEN [processing[v] EXCEPT !.holds = IF @ = "temporary" THEN "final" ELSE "neither"]
     ELSE processing[v]]

\* The temporary becomes the file, whoever wrote it; if another run has taken it away,
\* the run ends with an error.  After the last one everything is read again.
ReplaceFile(w) ==
  /\ RunAt(w, "replace")
  /\ LET f == FileOf(w)
         last == IsLast(f, Written)
     IN \/ /\ temps[f] = "absent"
           /\ processing' = [processing EXCEPT ![w].at = "failed"]
           /\ UNCHANGED <<bundle, temps>>
        \/ /\ temps[f] # "absent"
           /\ bundle' = [bundle EXCEPT ![f] = Replaced(@, temps[f])]
           /\ temps' = [temps EXCEPT ![f] = "absent"]
           /\ \E g \in BundleFiles :
                /\ IF last THEN IsFirst(g, Verified) ELSE IsNext(g, f, Written)
                /\ processing' = [Disturbed(w, Moved(w)) EXCEPT
                     ![w].at = IF last THEN "verify" ELSE "open",
                     ![w].next = g,
                     ![w].steady = last]
  /\ UNCHANGED bundlesBegun

\* One file after the other is read again and compared.
VerifyFile(w) ==
  /\ RunAt(w, "verify")
  /\ LET f == FileOf(w)
     IN \/ /\ bundle[f] # Bytes(processing[w].export, f)
           /\ processing' = [processing EXCEPT ![w].at = "failed"]
        \/ /\ bundle[f] = Bytes(processing[w].export, f)
           /\ IsLast(f, Verified)
           /\ processing' = [processing EXCEPT ![w].at = "done"]
        \/ /\ bundle[f] = Bytes(processing[w].export, f)
           /\ \E g \in BundleFiles :
                /\ IsNext(g, f, Verified)
                /\ processing' = [processing EXCEPT ![w].next = g]
  /\ UNCHANGED <<bundle, temps, bundlesBegun>>

\* The run has printed its outcome, or is killed.
EndRun(w) ==
  /\ processing[w] # None
  /\ processing' = [processing EXCEPT ![w] = None]
  /\ UNCHANGED <<bundle, temps, bundlesBegun>>

BundleNext ==
  \E w \in Processors :
    \/ \E e \in Exports : ProcessSavedExports(w, e)
    \/ OpenTemporary(w) \/ WriteTemporary(w) \/ ReplaceFile(w) \/ VerifyFile(w) \/ EndRun(w)

BundleSpec == BundleInit /\ [][BundleNext]_bundleVars

\* What a run reports is true of the directory.  With no other run beside it, it never
\* fails, whatever mixture of files and temporaries earlier runs of other exports left
\* when they were killed or got into each other's way; and with others writing into its
\* files until it begins to read them again, it reports success only if every file that
\* its results commit to is of its export: only what is written after that can spoil it
\* (_atomic_write_bytes, verify_staged_acquisition_results).
OutcomesAreTrue ==
  \A w \in Processors :
    /\ RunAt(w, "failed") => ~processing[w].alone
    /\ RunAt(w, "done") /\ processing[w].steady =>
         \A f \in BundleFiles \ {Report} : bundle[f] = Bytes(processing[w].export, f)
=============================================================================
