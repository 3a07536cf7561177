---------------------------- MODULE BootstrapRunner ----------------------------
(***************************************************************************)
(* The bootstrap research runner (research/bootstrap/runner.py, with       *)
(* service.py and retrieval/bootstrap_qdrant.py): a pool of threads        *)
(* extracts each candidate of the input directories, or reuses what an     *)
(* earlier run has extracted, and the run then writes the registry, the    *)
(* manifest, the points and the report.                                    *)
(*                                                                         *)
(* Every file is rewritten in place, one after the other, so a kill leaves *)
(* any prefix of them, and the last one torn.  One run at a time works on  *)
(* a directory (nothing enforces it).  Threads of one run never share a    *)
(* file.  The ledger of quality corrections, the lists of rejections and   *)
(* errors and the text of the report are left out.                         *)
(***************************************************************************)
EXTENDS PreparedInput, SequencesExt

CONSTANTS
  OldRuns,      \* input directories that no preparation wrote: discovery runs
  OldEntries,   \* their candidates
  Candidates,   \* all candidates, by their identity: DOI, or else URL, or else title
  ProposalsFor, \* what GLM and the extractor may make of a text
  Mentioned,    \* the candidates that a text names by DOI or title
  CardOf,       \* role and origin of a card, and the constructs its text names
  Constructs,   \* entities that count only where a card names them
  DirectRuns,   \* uses of the runner's command: directories, what to redo, ingestion
  PreparedRuns, \* uses of the preparing command: batches and their audits, execution
  Pool,         \* threads of a run
  MaxJobs       \* bound: preparations and runs begun, in all

Directories == Ledgers \cup OldRuns

ASSUME RunnerAssumptions ==
  /\ PreparedRuns \subseteq [todo : Seq(Ledgers \X Audits), execute : BOOLEAN]
  /\ DirectRuns \subseteq
       [dirs : Seq(Directories), forced : SUBSET Candidates, ingest : BOOLEAN]
  /\ Ledgers \cap OldRuns = {}
  /\ LaneOf \in [Ledgers -> {"practitioner", "academic"}]
  /\ MaxJobs \in Nat

Texts == DOMAIN ProposalsFor

ASSUME EntryAssumptions ==
  /\ \A l \in Ledgers : \A e \in PreparedEntries(l) : e.id \in Candidates /\ e.payload.text \in Texts
  /\ \A d \in OldRuns : \A e \in OldEntries[d] : e.id \in Candidates /\ e.text \in Texts \cup {None}
  /\ None \notin Texts

-----------------------------------------------------------------------------
(* The inputs of a run: a sequence of directories.                          *)

EntriesIn(d) ==
  IF d \in OldRuns THEN OldEntries[d]
  ELSE {[id |-> e.id, url |-> e.url, category |-> LaneOf[d], text |-> e.payload.text] :
          e \in PreparedEntries(d)}

\* A batch without a manifest is taken for a discovery run; its lists and contents must
\* be there, and nothing that is read may be torn.
Readable(d) ==
  d \in Ledgers =>
    /\ inputs[d]["manifest"] = None \/ Verifies(d)
    /\ inputs[d]["lists"] \in Audits /\ inputs[d]["contents"] = d /\ inputs[d]["policies"] # Torn

\* The claim policies of a directory: roles and text of each candidate.
RolesFor(d, e) == (CHOOSE p \in Policies(d, inputs[d]["policies"]) : p.url = e.url).roles
PoliciesIn(d) ==
  IF d \notin Ledgers \/ inputs[d]["policies"] = None THEN {}
  ELSE {[id |-> e.id, lane |-> LaneOf[d], roles |-> RolesFor(d, e), text |-> e.payload.text] :
          e \in PreparedEntries(d)}

CandidatesIn(dirs) == {e.id : e \in UNION {EntriesIn(d) : d \in ToSet(dirs)}}

\* The first directory that has the candidate describes it.
EntryOf(dirs, c) ==
  LET found(i) == {e \in EntriesIn(dirs[i]) : e.id = c}
      first == CHOOSE i \in DOMAIN dirs : found(i) # {} /\ \A j \in 1..(i - 1) : found(j) = {}
  IN CHOOSE e \in found(first) : TRUE

\* The directories say the same of what they have in common: of a candidate whether it
\* is a practitioner's, and prepared ones of a URL what its text is.
InputsAgree ==
  /\ \A d1, d2 \in Directories : \A e \in EntriesIn(d1), f \in EntriesIn(d2) :
       e.id = f.id => e.category = f.category
  /\ \A l1, l2 \in Ledgers : \A e \in EntriesIn(l1), f \in EntriesIn(l2) :
       e.url = f.url => e.text = f.text

\* The policies agree, permit the context and no role of the other lane.
PoliciesSound(dirs) ==
  LET all == UNION {PoliciesIn(d) : d \in ToSet(dirs)}
  IN /\ OneEach(all, LAMBDA p : p.id)
     /\ \A p \in all :
          /\ "context_only" \in p.roles
          /\ p.roles \subseteq
               IF p.lane = "practitioner" THEN PractitionerRoles ELSE AcademicRoles
          /\ p.id \in CandidatesIn(dirs)

PolicyFor(dirs, c) ==
  LET own == {p \in UNION {PoliciesIn(d) : d \in ToSet(dirs)} : p.id = c}
  IN IF own = {} THEN None ELSE CHOOSE p \in own : TRUE

\* Contents by URL, a later directory's in place of an earlier one's.
ContentsIn(dirs) ==
  LET found(i) ==
        {[url |-> e.url, text |-> e.text] : e \in {x \in EntriesIn(dirs[i]) : x.text # None}}
  IN UNION {{r \in found(i) : \A j \in DOMAIN dirs : j > i => \A s \in found(j) : s.url # r.url} :
              i \in DOMAIN dirs}

\* The text under the candidate's URL, or else one that mentions it.
AcquiredTexts(dirs, c) ==
  LET own == {r.text : r \in {s \in ContentsIn(dirs) : s.url = EntryOf(dirs, c).url}}
      others == {r.text : r \in {s \in ContentsIn(dirs) : c \in Mentioned[s.text]}}
  IN IF own # {} THEN own ELSE IF others # {} THEN others ELSE {None}

-----------------------------------------------------------------------------
(* What is made of a proposal: cards, nodes that they support, and links    *)
(* between the nodes.                                                       *)

\* The items a card of `cards` supports, with the support that is left.
Supported(items, cards) ==
  {[i EXCEPT !.support = @ \cap cards] : i \in {j \in items : j.support \cap cards # {}}}

Linked(links, nodes) ==
  {k \in links : {k.source, k.target} \subseteq {n.entity : n \in nodes}}

Origins == {"scientific_evidence", "expert_practice", "personal_interpretation"}
OriginOf(lane) == IF lane = "practitioner" THEN "expert_practice" ELSE "scientific_evidence"

Permitted(cards, policy) ==
  IF policy = None THEN cards
  ELSE {c \in cards : CardOf[c].role \in policy.roles /\ CardOf[c].origin = OriginOf(policy.lane)}

\* A node, or a link, gets the one origin of the cards that support it.
WithOrigin(i) ==
  LET origins == {CardOf[c].origin : c \in i.support}
  IN [i EXCEPT !.origin =
        IF Cardinality(origins) = 1 THEN CHOOSE o \in origins : TRUE ELSE "personal_interpretation"]

Made(from, cards, nodes, links) ==
  [from |-> from, cards |-> cards, nodes |-> nodes, links |-> links]
Nothing == Made(None, {}, {}, {})

\* Every construct must be named by a card that supports it.
FilterUnsupported(m) ==
  LET nodes == {n \in m.nodes : n.entity \in Constructs =>
                  \E c \in n.support \cap m.cards : n.entity \in CardOf[c].names}
  IN Made(m.from, m.cards, nodes, Linked(m.links, nodes))

\* A fresh proposal under a policy, or under none.
Assemble(proposal, policy) ==
  LET cards == Permitted(proposal.cards, policy)
      nodes == {WithOrigin(n) : n \in Supported(proposal.nodes, cards)}
      links == {WithOrigin(k) : k \in Supported(proposal.links, cards)}
  IN FilterUnsupported(Made(proposal, cards, nodes, Linked(links, nodes)))

\* Only the cards of `kept` stay, and what they support, if its origin may stay.
Retain(m, kept, origins) ==
  LET nodes == {n \in Supported(m.nodes, kept) : n.origin \in origins}
  IN Made(m.from, kept, nodes, Linked({k \in Supported(m.links, kept) : k.origin \in origins}, nodes))

\* What was extracted before, freed of what is no longer admitted.
Migrate(m, category, policy) ==
  LET unleaked ==
        IF category = "practitioner"
        THEN Retain(m, {c \in m.cards : CardOf[c].origin # "scientific_evidence"}, Origins)
        ELSE m
  IN FilterUnsupported(
       IF policy = None THEN unleaked
       ELSE Retain(unleaked, Permitted(unleaked.cards, policy), {OriginOf(policy.lane)}))

\* Nodes of one entity are one, with the support of all, and so are links.
Canonical(made) ==
  LET nodes == UNION {m.nodes : m \in made}
      links == UNION {m.links : m \in made}
      merged(items, same(_, _)) ==
        {[i EXCEPT !.support = UNION {j.support : j \in {x \in items : same(i, x)}}] : i \in items}
  IN [cards |-> UNION {m.cards : m \in made},
      nodes |-> merged(nodes, LAMBDA i, j : i.entity = j.entity),
      links |-> merged(links, LAMBDA i, j : i.source = j.source /\ i.target = j.target)]

\* A point per card, node and link; its id covers the support.
Points(m) ==
  {<<"card", c>> : c \in m.cards} \cup {<<"node", n.entity, n.support>> : n \in m.nodes}
    \cup {<<"link", k.source, k.target, k.support>> : k \in m.links}

AllProposals == UNION Range(ProposalsFor)
Cards == DOMAIN CardOf
EntitiesNamed == {n.entity : n \in UNION {p.nodes : p \in AllProposals}}
EndsNamed == UNION {{k.source, k.target} : k \in UNION {p.links : p \in AllProposals}}

NodeCandidates ==
  [entity : EntitiesNamed, support : SUBSET Cards, origin : Origins \cup {None}]
LinkCandidates ==
  [source : EndsNamed, target : EndsNamed, support : SUBSET Cards, origin : Origins \cup {None}]
Yields ==
  [from : AllProposals \cup {None}, cards : SUBSET Cards,
   nodes : SUBSET NodeCandidates, links : SUBSET LinkCandidates]

ASSUME ProposalAssumptions ==
  /\ \A c \in Cards : CardOf[c].origin \in Origins
  /\ \A p \in AllProposals :
       p.cards \subseteq Cards /\ p.nodes \subseteq NodeCandidates /\ p.links \subseteq LinkCandidates

-----------------------------------------------------------------------------
VARIABLES
  artifacts, \* the files of each candidate: Source record, claims, cards and nodes
  outputs,   \* registry, manifest, receipt and error of the directory
  points,    \* the bootstrap collection
  job,       \* the run, or None
  jobsBegun

runnerVars == <<inputVars, artifacts, outputs, points, job, jobsBegun>>

Version == "current"
Admitted == {"current", "migratable"}

\* The record says under which policy a source was extracted, and (history) whether
\* by the command that prepares the batches.
SourceRecord(status, policy, executed) ==
  [status |-> status, policy |-> policy, version |-> Version, executed |-> executed]

\* What is left of an extraction in each file.
ClaimsFile(m) == [from |-> m.from]
CardsFile(m) == [from |-> m.from, cards |-> m.cards]
NodesFile(m) == [from |-> m.from, nodes |-> m.nodes, links |-> m.links]

ClaimPolicies ==
  [id : Candidates, lane : {"practitioner", "academic"},
   roles : SUBSET (PractitionerRoles \cup AcademicRoles), text : Texts]
Records ==
  [status : {"not_extracted", "attempted", "failed", "completed"},
   policy : ClaimPolicies \cup {None}, version : {Version, "migratable", "outdated"},
   executed : BOOLEAN]

ArtifactFiles == {"record", "claims", "cards", "nodes"}
FilesOf(f) ==
  CASE f = "record" -> Records
    [] f = "claims" -> [from : AllProposals \cup {None}]
    [] f = "cards" -> [from : AllProposals \cup {None}, cards : SUBSET Cards]
    [] f = "nodes" -> [from : AllProposals \cup {None},
                       nodes : SUBSET NodeCandidates, links : SUBSET LinkCandidates]
FileValues == FilesOf("record") \cup FilesOf("claims") \cup FilesOf("cards") \cup FilesOf("nodes")
ArtifactSets ==
  {a \in [ArtifactFiles -> FileValues \cup {None, Torn}] :
     \A f \in ArtifactFiles : a[f] \in FilesOf(f) \cup {None, Torn}}
Writes == {w \in [file : ArtifactFiles, value : FileValues] : w.value \in FilesOf(w.file)}

Works ==
  [at : {"queued", "asks", "writes", "done", "raised"}, writes : Seq(Writes), made : Yields]
Jobs(S) ==
  [dirs : Seq(Directories), forced : SUBSET Candidates, ingest : BOOLEAN, executed : BOOLEAN,
   at : {"process", "manifest", "ingest", "report"},
   work : [S -> Works]]

ASSUME AbsentFile == None \notin FileValues /\ Torn \notin FileValues
ASSUME AbsentJob == \A S \in SUBSET Candidates : None \notin Jobs(S)

NoFiles == [f \in ArtifactFiles |-> None]

\* A complete extraction of an earlier version may be there, made under no policy.
Earlier(v, m) ==
  [record |-> [SourceRecord("completed", None, FALSE) EXCEPT !.version = v],
   claims |-> ClaimsFile(m), cards |-> CardsFile(m), nodes |-> NodesFile(m)]

RunnerInit ==
  /\ InputInit
  /\ \E early \in SUBSET {e \in UNION {OldEntries[d] : d \in OldRuns} : e.text # None} :
       /\ OneEach(early, LAMBDA e : e.id)
       /\ \E v \in {"migratable", "outdated"}, p \in [early -> UNION Range(ProposalsFor)] :
            /\ \A e \in early : p[e] \in ProposalsFor[e.text]
            /\ artifacts = [c \in Candidates |->
                 IF \E e \in early : e.id = c
                 THEN Earlier(v, Assemble(p[CHOOSE e \in early : e.id = c], None))
                 ELSE NoFiles]
  /\ outputs = [f \in {"registry", "manifest", "receipt", "error"} |-> None]
  /\ points = {} /\ job = None /\ jobsBegun = 0

Unused == jobsBegun = 0 /\ \A c \in Candidates : artifacts[c] = NoFiles

-----------------------------------------------------------------------------
(* A run.                                                                   *)

\* Everything is read, and refused or not, before a thread begins.
BeginRun(dirs, forced, ingest, executed) ==
  /\ job = None
  /\ \A d \in ToSet(dirs) : Readable(d)
  /\ PoliciesSound(dirs)
  /\ job' = [dirs |-> dirs, forced |-> forced, ingest |-> ingest, executed |-> executed,
             at |-> "process",
             work |-> [c \in CandidatesIn(dirs) |->
                         [at |-> "queued", writes |-> <<>>, made |-> Nothing]]]

\* The runner's own command: any directories.
RunDirectly(dirs, forced, ingest) ==
  /\ preparing = None /\ jobsBegun < MaxJobs /\ jobsBegun' = jobsBegun + 1
  /\ BeginRun(dirs, forced, ingest, FALSE)
  /\ UNCHANGED <<inputVars, artifacts, outputs, points>>

PrepareBatches(todo, execute) ==
  /\ job = None /\ jobsBegun < MaxJobs /\ jobsBegun' = jobsBegun + 1
  /\ StartPreparation(todo, execute)
  /\ UNCHANGED <<artifacts, outputs, points, job>>

\* The batches just prepared, different ones and each of them verified, never ingested.
ExecutePrepared ==
  /\ preparing # None /\ preparing.todo = <<>> /\ preparing.execute
  /\ IsInjective(preparing.prepared) /\ \A l \in ToSet(preparing.prepared) : Verifies(l)
  /\ BeginRun(preparing.prepared, {}, FALSE, TRUE)
  /\ preparing' = None
  /\ UNCHANGED <<inputs, artifacts, outputs, points, jobsBegun>>

Policy(c) == PolicyFor(job.dirs, c)
To(f, value) == [file |-> f, value |-> value]
Record(status, c) == To("record", SourceRecord(status, Policy(c), job.executed))

\* What thread c does next: w.
Turn(c, at, writes, made) ==
  job' = [job EXCEPT !.work[c] = [at |-> at, writes |-> writes, made |-> made]]

\* Mutant: the policy is not compared.
Mutant_Cacheable(r, c) == r # Torn /\ r.status = "completed" /\ r.version \in Admitted

Cacheable(r, c) ==
  r # Torn /\ r.status = "completed" /\ r.version \in Admitted /\ r.policy = Policy(c)

\* The record is looked at only beside cards and nodes.
Cached(c) ==
  c \notin job.forced /\ \A f \in {"record", "cards", "nodes"} : artifacts[c][f] # None

StartsNext(c) ==
  /\ job # None /\ c \in DOMAIN job.work /\ job.work[c].at = "queued"
  /\ Cardinality({k \in DOMAIN job.work : job.work[k].at \in {"writes", "asks"}}) < Pool

RecordUnavailable(c) ==
  /\ StartsNext(c) /\ None \in AcquiredTexts(job.dirs, c)
  /\ Turn(c, "writes", <<Record("not_extracted", c)>>, Nothing)
  /\ UNCHANGED <<inputVars, artifacts, outputs, points, jobsBegun>>

\* What is cached cannot be read: the thread raises, and so does the run in the end.
CacheTorn(c) ==
  LET a == artifacts[c]
  IN /\ StartsNext(c) /\ None \notin AcquiredTexts(job.dirs, c) /\ Cached(c)
     /\ \/ a.record = Torn
        \/ Cacheable(a.record, c) /\ (a.claims = None \/ Torn \in {a.claims, a.cards, a.nodes})
     /\ Turn(c, "raised", <<>>, Nothing)
     /\ UNCHANGED <<inputVars, artifacts, outputs, points, jobsBegun>>

\* The record claims the current version before the other files have it.
ReuseCached(c) ==
  LET a == artifacts[c]
      was == Made(a.cards.from, a.cards.cards, a.nodes.nodes, a.nodes.links)
      new == Migrate(was, EntryOf(job.dirs, c).category, Policy(c))
  IN /\ StartsNext(c) /\ None \notin AcquiredTexts(job.dirs, c) /\ Cached(c)
     /\ a.record # Torn /\ Cacheable(a.record, c)
     /\ a.claims # None /\ Torn \notin {a.claims, a.cards, a.nodes}
     /\ Turn(c, "writes",
             <<To("record", [a.record EXCEPT !.version = Version]), To("cards", CardsFile(new)),
               To("nodes", [NodesFile(new) EXCEPT !.from = a.nodes.from]), To("claims", a.claims)>>,
             new)
     /\ UNCHANGED <<inputVars, artifacts, outputs, points, jobsBegun>>

\* Anything else is extracted; what was there is marked as not complete first.
Attempt(c) ==
  /\ StartsNext(c) /\ None \notin AcquiredTexts(job.dirs, c)
  /\ Cached(c) => artifacts[c].record # Torn /\ ~Cacheable(artifacts[c].record, c)
  /\ Turn(c, "writes", <<Record("attempted", c)>>, Nothing)
  /\ UNCHANGED <<inputVars, artifacts, outputs, points, jobsBegun>>

ExtractionFails(c) ==
  /\ job # None /\ c \in DOMAIN job.work /\ job.work[c].at = "asks"
  /\ Turn(c, "writes", <<Record("failed", c), To("claims", [from |-> None])>>, Nothing)
  /\ UNCHANGED <<inputVars, artifacts, outputs, points, jobsBegun>>

ExtractionWrites(c, m) ==
  <<To("claims", ClaimsFile(m)), To("cards", CardsFile(m)), To("nodes", NodesFile(m)),
    Record("completed", c)>>

ExtractionSucceeds(c) ==
  /\ job # None /\ c \in DOMAIN job.work /\ job.work[c].at = "asks"
  /\ \E x \in AcquiredTexts(job.dirs, c) : \E p \in ProposalsFor[x] :
       LET m == Assemble(p, Policy(c)) IN Turn(c, "writes", ExtractionWrites(c, m), m)
  /\ UNCHANGED <<inputVars, artifacts, outputs, points, jobsBegun>>

WriteArtifact(c) ==
  /\ job # None /\ c \in DOMAIN job.work /\ job.work[c].at = "writes"
  /\ LET w == job.work[c]
         next == IF Len(w.writes) > 1 THEN "writes"
                 ELSE IF w.writes[1] = Record("attempted", c) THEN "asks" ELSE "done"
     IN /\ artifacts' = [artifacts EXCEPT ![c][w.writes[1].file] = w.writes[1].value]
        /\ Turn(c, next, Tail(w.writes), w.made)
  /\ UNCHANGED <<inputVars, outputs, points, jobsBegun>>

-----------------------------------------------------------------------------
(* Its outcome, once every thread is done.                                  *)

Extracted == Canonical({job.work[c].made : c \in DOMAIN job.work})

Publishing(at) == job # None /\ job.at = at /\ \A c \in DOMAIN job.work : job.work[c].at = "done"

WriteRegistry ==
  /\ Publishing("process")
  /\ outputs' = [outputs EXCEPT !["registry"] =
       [nodes |-> Extracted.nodes, links |-> Extracted.links]]
  /\ job' = [job EXCEPT !.at = "manifest"]
  /\ UNCHANGED <<inputVars, artifacts, points, jobsBegun>>

\* Without a projection there is no manifest, and an earlier one stays.
WriteManifest ==
  /\ Publishing("manifest")
  /\ outputs' = [outputs EXCEPT !["manifest"] =
       IF Points(Extracted) = {} THEN @ ELSE Points(Extracted)]
  /\ job' = [job EXCEPT !.at = IF job.ingest THEN "ingest" ELSE "report"]
  /\ UNCHANGED <<inputVars, artifacts, points, jobsBegun>>

\* The points are added to those that are there, and read again.
Ingest ==
  /\ Publishing("ingest") /\ Points(Extracted) # {}
  /\ points' = points \cup Points(Extracted)
  /\ outputs' = [outputs EXCEPT !["receipt"] = Points(Extracted)]
  /\ job' = [job EXCEPT !.at = "report"]
  /\ UNCHANGED <<inputVars, artifacts, jobsBegun>>

\* Nothing to ingest, or the store refuses, before or after it has the points.
IngestFails ==
  /\ Publishing("ingest")
  /\ points' \in {points, points \cup Points(Extracted)}
  /\ outputs' = [outputs EXCEPT !["error"] = "present"]
  /\ job' = [job EXCEPT !.at = "report"]
  /\ UNCHANGED <<inputVars, artifacts, jobsBegun>>

\* The report is written; or a thread has raised, and the others have ended.
EndRunner ==
  /\ job # None
  /\ \/ Publishing("report")
     \/ /\ \A c \in DOMAIN job.work : job.work[c].at \in {"done", "raised"}
        /\ \E c \in DOMAIN job.work : job.work[c].at = "raised"
  /\ job' = None
  /\ UNCHANGED <<inputVars, artifacts, outputs, points, jobsBegun>>

\* Killed: whatever was being written may be torn, and points may be there without their
\* receipt.
KillRunner ==
  /\ job # None
  /\ LET writing == {c \in DOMAIN job.work : job.work[c].at = "writes"}
     IN \E torn \in SUBSET writing :
          artifacts' = [c \in Candidates |->
            IF c \in torn THEN [artifacts[c] EXCEPT ![job.work[c].writes[1].file] = Torn]
            ELSE artifacts[c]]
  /\ \/ UNCHANGED <<outputs, points>>
     \/ \E f \in {"registry", "manifest"} :
          /\ Publishing(IF f = "registry" THEN "process" ELSE f)
          /\ outputs' = [outputs EXCEPT ![f] = Torn] /\ UNCHANGED points
     \/ /\ Publishing("ingest") /\ Points(Extracted) # {}
        /\ points' = points \cup Points(Extracted)
        /\ outputs' \in {outputs, [outputs EXCEPT !["receipt"] = Torn]}
  /\ job' = None
  /\ UNCHANGED <<inputVars, jobsBegun>>

PreparationStep ==
  /\ RefusePreparation \/ WriteImmutable \/ EndPreparation
  /\ UNCHANGED <<artifacts, outputs, points, job, jobsBegun>>

CandidateStep(c) ==
  \/ RecordUnavailable(c) \/ CacheTorn(c) \/ ReuseCached(c) \/ Attempt(c)
  \/ ExtractionFails(c) \/ ExtractionSucceeds(c) \/ WriteArtifact(c)

RunnerNext ==
  \/ \E u \in DirectRuns : RunDirectly(u.dirs, u.forced, u.ingest)
  \/ \E u \in PreparedRuns : PrepareBatches(u.todo, u.execute)
  \/ PreparationStep \/ ExecutePrepared
  \/ \E c \in Candidates : CandidateStep(c)
  \/ WriteRegistry \/ WriteManifest \/ Ingest \/ IngestFails \/ EndRunner \/ KillRunner

RunnerSpec == RunnerInit /\ [][RunnerNext]_runnerVars

-----------------------------------------------------------------------------
RunnerTypeOK ==
  /\ InputTypeOK
  /\ artifacts \in [Candidates -> ArtifactSets]
  /\ DOMAIN outputs = {"registry", "manifest", "receipt", "error"}
  /\ job # None => job \in Jobs(CandidatesIn(job.dirs)) /\ preparing = None
  /\ jobsBegun \in 0..MaxJobs

\* A source recorded as completed has the claims, cards and nodes of one extraction: a
\* kill, a failed or repeated extraction or a change of policy never mixes two of them,
\* although the files are rewritten one by one (_process_candidate).
CompletedAreWhole ==
  \A c \in Candidates :
    LET a == artifacts[c]
    IN a.record \notin {None, Torn} /\ a.record.status = "completed" =>
         /\ None \notin {a.claims, a.cards, a.nodes}
         /\ \A f, g \in {a.claims, a.cards, a.nodes} \ {Torn} : f.from = g.from

\* A run that reports success has, for every source that it counts as extracted, files
\* that agree with each other and with what it counted, made under the policy of its own
\* inputs; a policy leaves only cards it permits, of the text it commits to if the
\* prepared inputs were executed as such, and nodes rest on those cards only.  So no cache
\* outlives a change of policy, whatever was killed before (_process_candidate).
ReportedAreCurrent ==
  Publishing("report") =>
    \A c \in DOMAIN job.work :
      LET a == artifacts[c]
          m == job.work[c].made
      IN m.from # None =>
           /\ a.record.status = "completed" /\ a.record.version = Version
           /\ a.record.policy = Policy(c)
           /\ a.cards = CardsFile(m) /\ a.nodes = NodesFile(m) /\ a.claims = ClaimsFile(m)
           /\ m.cards = Permitted(m.cards, Policy(c))
           /\ \A n \in m.nodes \cup m.links : n.support # {} /\ n.support \subseteq m.cards
           /\ a.record.executed => m.from \in ProposalsFor[Policy(c).text]
           /\ outputs["manifest"] = Points(Extracted) \/ Points(Extracted) = {}

ArtifactsAgree == CompletedAreWhole /\ ReportedAreCurrent
=============================================================================
