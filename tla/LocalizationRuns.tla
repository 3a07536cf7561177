-------------------------- MODULE LocalizationRuns --------------------------
(***************************************************************************)
(* The localization pipeline: the commands of localization/pipeline/cli.py *)
(* over the run directories of localization/runs.  A command reads the     *)
(* catalog and the policy once, verifies the runs it starts from, and      *)
(* writes a directory of its own, whose manifest is the first file it      *)
(* writes and the last.  An earlier attempt in that directory is moved     *)
(* away file by file before.                                               *)
(*                                                                         *)
(* One command runs at a time: a single operator works here, and nothing   *)
(* in the code keeps two commands off one directory.  A command may be     *)
(* killed, and between two commands the catalog, the policy and the files  *)
(* may be edited.                                                          *)
(***************************************************************************)
EXTENDS GovernanceRoles, Sequences
LOCAL INSTANCE SequencesExt
LOCAL INSTANCE Functions
LOCAL INSTANCE TLC

CONSTANTS
  RunNames,     \* run directories
  Workspaces,   \* states of the repository: an English catalog, a function from message
                \* keys to texts, and the proposals that the policy allows
  Chinese,      \* candidates GLM may return
  HandMade,     \* a candidate that somebody wrote into a file
  EarlierRuns,  \* directories that earlier commands may have left
  CommandLines, \* what the operator may ask for
  MaxRunCommands \* bound: commands begun

ASSUME LocalizationAssumptions ==
  /\ HandMade \notin Chinese
  /\ MaxRunCommands \in Nat

VARIABLES
  catalog,    \* frontend/src/lib/i18n/messages.ts
  rulings,    \* the glossary and the other policy files
  runs,       \* the files of each directory that a later command reads; None: no directory
  localizing, \* the command that runs, or None
  runCommands

localizationVars == <<catalog, rulings, runs, localizing, runCommands>>

\* RUN_ARTIFACT_NAMES, in this order.
RunArtifacts == <<"manifest", "proposals", "final", "decisions">>

Proposed(text, candidate) == [source |-> text, chinese |-> candidate]

Valid(proposals, rules) == Range(proposals) \subseteq rules

\* assemble_verified_runs: later inputs win.
Overlay(inputs) == FoldLeft(LAMBDA f, g : g @@ f, <<>>, inputs)

-----------------------------------------------------------------------------
(* Which runs a command starts from.                                        *)

HasManifest(d) == runs[d] # None /\ "manifest" \in DOMAIN runs[d]

\* Mutant: the file has to be there, and its hash is not looked at.
Mutant_Fingerprinted(d, f) == f \in DOMAIN runs[d] /\ f \in DOMAIN runs[d].manifest.artifacts

\* A file is there and is the one that the manifest was committed with.
Fingerprinted(d, f) ==
  LET recorded == runs[d].manifest.artifacts
  IN f \in DOMAIN runs[d] /\ f \in DOMAIN recorded /\ recorded[f] = runs[d][f]

\* Every message is in the catalog and still has the text that was translated.
SourcesCurrent(proposals) ==
  \A k \in DOMAIN proposals : k \in DOMAIN catalog /\ proposals[k].source = catalog[k]

Committed(d, commands) ==
  /\ HasManifest(d)
  /\ LET m == runs[d].manifest
     IN /\ m.status = "completed"
        /\ m.command \in commands /\ m.passed /\ m.catalog = catalog

\* What an assembly accepts: proposals that GLM made for this catalog.
ProposalRunVerifies(d) ==
  /\ Committed(d, {"propose"}) /\ runs[d].manifest.glm
  /\ Fingerprinted(d, "proposals") /\ SourcesCurrent(runs[d].proposals)

\* The decisions of a review stand for its results, and the results are in the overlay.
DecisionsVerify(d) ==
  LET r == runs[d]
  IN /\ Fingerprinted(d, "proposals") /\ Fingerprinted(d, "decisions")
     /\ DOMAIN r.decisions = DOMAIN r.proposals
     /\ \A k \in DOMAIN r.decisions : r.decisions[k].result = r.proposals[k].chinese
     /\ \A k \in DOMAIN r.proposals : k \in DOMAIN r.final /\ r.final[k] = r.proposals[k]

OutcomeFile(d) == IF runs[d].manifest.command = "assemble" THEN "proposals" ELSE "final"

\* What a review accepts: an assembly, or a review whose overlay is the whole catalog.
CandidateRunVerifies(d) ==
  /\ Committed(d, {"assemble", "quality-review"})
  /\ runs[d].manifest.upstream # <<>>
  /\ Fingerprinted(d, OutcomeFile(d)) /\ SourcesCurrent(runs[d][OutcomeFile(d)])
  /\ runs[d].manifest.command = "quality-review" =>
       /\ runs[d].manifest.glm /\ runs[d].manifest.whole
       /\ DecisionsVerify(d) /\ DOMAIN runs[d].final = DOMAIN catalog

-----------------------------------------------------------------------------
(* The commands, up to the directory they write.                            *)

Command(line, selected, input, upstream, output) ==
  [kind |-> line.kind, dir |-> line.dir, glm |-> line.glm,
   catalog |-> catalog, rules |-> rulings, selected |-> selected,
   called |-> FALSE,       \* GLM has been asked
   input |-> input,        \* the proposals it starts from
   upstream |-> upstream,  \* the runs those came from
   todo |-> output,        \* files to write before the manifest is committed
   failed |-> FALSE,       \* and has not answered
   own |-> FALSE,          \* it reads a file of its own directory again
   moved |-> <<>>,         \* what it has moved to attempts/
   at |-> IF runs[line.dir] = None THEN "start" ELSE "isolate"]

\* prepare_run_directory: the directory is new, or the command was told to resume it.
Begins(c) ==
  /\ localizing = None /\ runCommands < MaxRunCommands
  /\ localizing' = c /\ runCommands' = runCommands + 1
  /\ runs' = [runs EXCEPT ![c.dir] = IF @ = None THEN <<>> ELSE @]
  /\ UNCHANGED <<catalog, rulings>>

Scan(l) == Begins(Command(l, DOMAIN catalog, <<>>, <<>>, <<>>))

Propose(l) == l.keys \subseteq DOMAIN catalog /\ Begins(Command(l, l.keys, <<>>, <<>>, <<>>))

\* Any proposals are validated, whoever made them.  The file is read a second time once
\* the directory has been prepared.
Validate(l) ==
  LET e == Head(l.from)
      c == Command(l, l.keys, <<>>, <<>>, << <<"proposals", runs[e].proposals>> >>)
  IN /\ runs[e] # None /\ "proposals" \in DOMAIN runs[e]
     /\ DOMAIN runs[e].proposals \subseteq DOMAIN catalog
     /\ Begins([c EXCEPT !.own = (l.dir = e)])

AssembleRuns(l) ==
  LET upstream == [i \in DOMAIN l.from |-> runs[l.from[i]].proposals]
      proposals == Overlay(upstream)
  IN /\ IsInjective(l.from) /\ \A d \in Range(l.from) : ProposalRunVerifies(d)
     /\ Begins(Command(l, DOMAIN proposals, <<>>, upstream, << <<"proposals", proposals>> >>))

ReviewQuality(l) ==
  LET e == Head(l.from)
      input == runs[e][OutcomeFile(e)]
  IN /\ CandidateRunVerifies(e) /\ Valid(input, rulings) /\ l.keys \subseteq DOMAIN input
     /\ Begins(Command(l, l.keys, input, runs[e].manifest.upstream, <<>>))

-----------------------------------------------------------------------------
(* The directory.                                                           *)

Writing(at) == localizing # None /\ localizing.at = at
Proceed(c) == localizing' = c /\ UNCHANGED <<catalog, rulings, runCommands>>
Leftovers(d) == SelectSeq(RunArtifacts, LAMBDA f : f \in DOMAIN runs[d])

\* isolate_existing_run_artifacts moves the next file to attempts/.
IsolateArtifact ==
  LET d == localizing.dir
      f == Head(Leftovers(d))
  IN /\ Writing("isolate") /\ Leftovers(d) # <<>>
     /\ runs' = [runs EXCEPT ![d] = Restrict(@, DOMAIN @ \ {f})]
     /\ Proceed([localizing EXCEPT !.moved = (f :> runs[d][f]) @@ @])

\* A move fails; each file that was moved is moved back, or stays there.
IsolationFails ==
  /\ Writing("isolate") /\ Leftovers(localizing.dir) # <<>>
  /\ \E back \in SUBSET DOMAIN localizing.moved :
       runs' = [runs EXCEPT ![localizing.dir] = Restrict(localizing.moved, back) @@ @]
  /\ Proceed(None)

IsolationDone ==
  /\ Writing("isolate") /\ Leftovers(localizing.dir) = <<>>
  /\ Proceed(IF localizing.own THEN None ELSE [localizing EXCEPT !.at = "start", !.moved = <<>>])
  /\ UNCHANGED runs

\* What a manifest says, and the files it is committed with.  Of one that is not completed
\* nobody reads more than that, and of a scan, a plan or a validation only what it is.
ManifestOf(c, artifacts) ==
  [command |-> c.kind, status |-> "completed", catalog |-> c.catalog, rules |-> c.rules,
   glm |-> c.called, upstream |-> c.upstream, input |-> c.input,
   passed |-> "proposals" \in DOMAIN artifacts => Valid(artifacts["proposals"], c.rules),
   whole |-> "final" \in DOMAIN artifacts /\ DOMAIN artifacts["final"] = DOMAIN c.catalog,
   artifacts |-> artifacts]

PutManifest(manifest) ==
  runs' = [runs EXCEPT ![localizing.dir] = ("manifest" :> manifest) @@ @]

\* _write_common_artifacts: the manifest first, then what no command reads again.
StartManifest ==
  /\ Writing("start")
  /\ PutManifest([status |-> "started"])
  /\ Proceed([localizing EXCEPT !.at = IF localizing.glm THEN "ask" ELSE "write"])

WriteRunArtifact ==
  /\ Writing("write") /\ localizing.todo # <<>>
  /\ LET next == Head(localizing.todo)
     IN runs' = [runs EXCEPT ![localizing.dir] = (next[1] :> next[2]) @@ @]
  /\ Proceed([localizing EXCEPT !.todo = Tail(@)])

\* _finalize_manifest: the commit, with the hashes of the files as they are now.
FinalizeManifest ==
  LET files == runs[localizing.dir]
  IN /\ Writing("write") /\ localizing.todo = <<>>
     /\ PutManifest(IF localizing.failed THEN [status |-> "failed"]
                    ELSE ManifestOf(localizing, Restrict(files, DOMAIN files \ {"manifest"})))
     /\ Proceed(None)

-----------------------------------------------------------------------------
(* GLM.                                                                     *)

Answer(todo) ==
  /\ Proceed([localizing EXCEPT !.at = "write", !.called = TRUE, !.todo = todo])
  /\ UNCHANGED runs

\* One candidate for each message; it may break the policy.
GenerateProposals ==
  /\ Writing("ask") /\ localizing.kind = "propose"
  /\ \E answer \in [localizing.selected -> Chinese] :
       Answer(<< <<"proposals",
         [k \in localizing.selected |-> Proposed(localizing.catalog[k], answer[k])]>> >>)

\* A revision counts if it validates; otherwise the candidate stays for a human to look at.
Revised(old, candidate) ==
  LET new == Proposed(old.source, candidate)
  IN IF candidate \in Chinese /\ new \in localizing.rules THEN new ELSE old

ReviewCandidates ==
  /\ Writing("ask") /\ localizing.kind = "quality-review"
  /\ \E answer \in [localizing.selected -> Chinese \cup {None}] :
       LET input == localizing.input
           results == [k \in localizing.selected |-> Revised(input[k], answer[k])]
           decisions == [k \in localizing.selected |->
                           [from |-> input[k].chinese, result |-> results[k].chinese]]
       IN /\ Valid(results @@ input, localizing.rules)
          /\ Answer(<< <<"decisions", decisions>>, <<"proposals", results>>,
                       <<"final", results @@ input>> >>)

\* The failure, or an overlay that does not validate, is recorded, and the manifest says so.
GLMFails ==
  /\ Writing("ask")
  /\ Proceed([localizing EXCEPT !.at = "write", !.called = TRUE, !.failed = TRUE])
  /\ UNCHANGED runs

-----------------------------------------------------------------------------
(* Everything else.                                                         *)

\* The command is killed, or cannot write.
StopCommand == localizing # None /\ Proceed(None) /\ UNCHANGED runs

WorkspaceIs(w) == catalog = w.catalog /\ rulings = w.rules

\* A command has read all of it before it writes, so an edit meets the next command only.
EditWorkspace ==
  /\ localizing = None
  /\ \E w \in Workspaces : catalog' = w.catalog /\ rulings' = w.rules
  /\ UNCHANGED <<runs, localizing, runCommands>>

\* Between two commands somebody changes a candidate in a file.
EditProposals(d, f) ==
  /\ localizing = None
  /\ runs[d] # None /\ f \in DOMAIN runs[d]
  /\ \E k \in DOMAIN runs[d][f] : runs' = [runs EXCEPT ![d][f][k].chinese = HandMade]
  /\ UNCHANGED <<catalog, rulings, localizing, runCommands>>

LocalizationInit ==
  /\ \E w \in Workspaces : WorkspaceIs(w)
  /\ runs \in EarlierRuns \cup {[d \in RunNames |-> None]}
  /\ localizing = None /\ runCommands = 0

\* Where the part of a composition is another one.
Unlocalized ==
  /\ WorkspaceIs(CHOOSE w \in Workspaces : TRUE)
  /\ runs = [d \in RunNames |-> None]

BeginCommand ==
  \E l \in CommandLines :
    \/ l.kind = "scan" /\ Scan(l)
    \/ l.kind = "propose" /\ Propose(l)
    \/ l.kind = "validate" /\ Validate(l)
    \/ l.kind = "assemble" /\ AssembleRuns(l)
    \/ l.kind = "quality-review" /\ ReviewQuality(l)

LocalizationNext ==
  \/ BeginCommand
  \/ IsolateArtifact \/ IsolationFails \/ IsolationDone
  \/ StartManifest \/ WriteRunArtifact \/ FinalizeManifest
  \/ GenerateProposals \/ ReviewCandidates \/ GLMFails
  \/ StopCommand \/ EditWorkspace
  \/ \E d \in RunNames, f \in {"proposals", "final"} : EditProposals(d, f)

LocalizationSpec == LocalizationInit /\ [][LocalizationNext]_localizationVars

LocalizationTypeOK ==
  /\ \E w \in Workspaces : WorkspaceIs(w)
  /\ \A d \in RunNames : runs[d] = None \/ DOMAIN runs[d] \subseteq Range(RunArtifacts)
  /\ localizing = None \/ localizing.at \in {"isolate", "start", "ask", "write"}
  /\ runCommands \in 0..MaxRunCommands

-----------------------------------------------------------------------------
(* Candidates.                                                              *)

\* Whatever was killed, moved, resumed or edited: every run that a later command would
\* start from holds GLM's candidates only, all of which the policy of that run allows; an
\* assembly is the overlay of the runs it names, in their order; and a review is the
\* package it started from except for the messages it decided.
CandidatesKeepLineage ==
  \A d \in RunNames :
    /\ ProposalRunVerifies(d) => \A k \in DOMAIN runs[d].proposals :
         runs[d].proposals[k].chinese \in Chinese
    /\ CandidateRunVerifies(d) =>
         LET m == runs[d].manifest
             outcome == runs[d][OutcomeFile(d)]
         IN /\ Valid(outcome, m.rules)
            /\ \A k \in DOMAIN outcome : outcome[k].chinese \in Chinese
            /\ m.command = "assemble" => outcome = Overlay(m.upstream)
            /\ m.command = "quality-review" =>
                 \A k \in DOMAIN outcome :
                   IF k \in DOMAIN runs[d].decisions
                   THEN runs[d].decisions[k].from = m.input[k].chinese
                   ELSE outcome[k] = m.input[k]
=============================================================================
