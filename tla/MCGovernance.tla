---------------------------- MODULE MCGovernance ----------------------------
(* The governance services, their clients and the readers for TLC.  They    *)
(* share the accounts and no row that both change, so one instance checks   *)
(* each of them as a part of its own: the part is chosen in the initial     *)
(* state, and the variables of the others keep one initial value.           *)
EXTENDS SourceClaimReview, AccountRoles, RuntimeCorpus, GovernanceClients, AcquisitionStaging,
  AcquisitionBundle, BootstrapRunner, LocalizationRuns, TLC

CONSTANTS
  op, both, rev,           \* accounts: an operator, one with both roles, a reviewer
  c1, c2, x1,              \* Claims, and a section
  s1, s2, q1, q2,          \* sessions and requests
  w1, production, preview, \* a worker and the scopes
  p1, a1, a2,              \* a process and artifacts
  b1, b2, b3,              \* batches to stage
  l1, l2, au1, au2, au3,   \* ledgers and audits
  old, k1, k2, x2, x3      \* an older discovery run, candidates and texts

Arts == (1 :> {a1}) @@ (2 :> {a1, a2})

Row(url, doi, title, author, type, level) ==
  [url |-> url, doi |-> doi, title |-> title, author |-> author, type |-> type, level |-> level]
Exact(url, title, text) ==
  [candidate |-> None, requested |-> url, returned |-> url, checked |-> FALSE, title |-> title,
   legible |-> TRUE, text |-> text]

\* One work found twice, a work without its content, one whose content is damaged and
\* one that is known; the second batch has a newer text of the first work.  The rows of
\* the third disagree.
RowsFound ==
  b1 :> <<Row("u1", "d1", "t1", None, None, 1), Row("u2", None, "t1", "a1", "article", 1),
          Row("u3", None, "t3", None, "article", 1)>> @@
  b2 :> <<Row("u1", "d1", "t1", "a1", "article", 1), Row("u3", None, "t3", None, "article", 1),
          Row("u4", None, "t4", None, "article", 1)>> @@
  b3 :> <<Row("u1", "d1", "t1", None, None, 1), Row("u2", None, "t1", None, None, 2)>>
ContentsFetched ==
  b1 :> {Exact("u1", "t1", "x1")} @@
  b2 :> {[Exact("u5", "t1", "x2") EXCEPT !.candidate = <<"doi", "d1">>],
         [Exact("u4", "t4", "x4") EXCEPT !.legible = FALSE]} @@
  b3 :> {Exact("u1", "t1", "x1")}
KnownKeys == b1 :> {} @@ b2 :> {<<"title", "t3">>} @@ b3 :> {}

\* An article whose page is extracted at once or by the fallback, and an archive that has
\* no access yet; an export without the fallback is not selected.
LockedCandidates ==
  <<[id |-> <<"doi", "d1">>, category |-> "academic", snippet |-> None,
     citation |-> [doi |-> "d1", url |-> "u1"]],
    [id |-> <<"url", "u3">>, category |-> "practitioner", snippet |-> None,
     citation |-> [doi |-> None, url |-> "u3"]]>>
VerifiedRecords ==
  <<"doi", "d1">> :>
    [category |-> "academic", citation |-> [doi |-> "d1", url |-> "u1"], approval |-> "pending",
     role |-> None, page |-> "u1", pdf |-> "u2", access |-> "open"] @@
  <<"url", "u3">> :>
    [category |-> "practitioner", citation |-> [doi |-> None, url |-> "u3"],
     approval |-> "pending", role |-> "archive", page |-> "u3", pdf |-> None,
     access |-> "unresolved"]
Saved(academic, failed, advanced) ==
  [practitioner |-> {}, academic |-> academic, failed |-> failed, advanced |-> advanced]
TextOf(x) == {[url |-> "u1", text |-> x, sound |-> TRUE]}
SavedExports ==
  "basic" :> Saved(TextOf("x1"), {}, {}) @@
  "fallback" :> Saved({}, {"u1"}, TextOf("x2")) @@
  "partial" :> Saved({}, {"u1"}, {})

\* A practitioner's essay with two audits, the second of which no run accepts, and an
\* article whose year was corrected; the older run has another text of the essay, and the
\* article without one.
Lanes == l1 :> "practitioner" @@ l2 :> "academic"
Entry(l, c, url, doi, x) ==
  [id |-> c, url |-> url, doi |-> doi, title |-> c, year |-> 1, category |-> Lanes[l], text |-> x,
   payload |-> [text |-> x, url |-> url, doi |-> doi, title |-> c, year |-> 1,
                category |-> Lanes[l], asksNothing |-> TRUE]]
LedgerEntries == l1 :> {Entry(l1, k1, "u1", None, x1)} @@ l2 :> {Entry(l2, k2, "u2", "d2", x2)}
EssayAudit(permitted) ==
  [offline |-> TRUE, newer |-> TRUE,
   records |-> {[disposition |-> "eligible_exact_content", staged |-> TRUE, url |-> "u1",
                 title |-> k1, roles |-> permitted, text |-> x1]}]
AuditsSay ==
  au1 :> EssayAudit(PractitionerRoles) @@ au2 :> EssayAudit({"expert_opinion"}) @@
  au3 :> [offline |-> TRUE, ledger |-> l2,
          issues |-> {[doi |-> "d2", year |-> 1, text |-> x2]},
          corrections |-> {[doi |-> "d2", year |-> 1]},
          accepted |-> {[doi |-> "d2", url |-> "u2", title |-> k2, text |-> None]},
          independent |-> {[doi |-> "d2", title |-> k2, text |-> None, passed |-> TRUE,
                            corrected |-> TRUE]}]
OlderEntries ==
  old :> {[id |-> k1, url |-> "u1", category |-> "practitioner", text |-> x3],
          [id |-> k2, url |-> "u2", category |-> "academic", text |-> None]}

\* Cards of both channels, one of them in the wrong role, and a construct that only the
\* result names.
CardsSay ==
  "opinion" :> [role |-> "expert_opinion", origin |-> "expert_practice", names |-> {}] @@
  "theory" :> [role |-> "result", origin |-> "expert_practice", names |-> {}] @@
  "result" :> [role |-> "result", origin |-> "scientific_evidence", names |-> {"memory"}]
Item(e, cards) == [entity |-> e, support |-> cards, origin |-> None]
Link(cards) == [source |-> "effect", target |-> "memory", support |-> cards, origin |-> None]
Made3(x, effect, memory) ==
  [of |-> x, cards |-> effect \cup memory,
   nodes |-> {Item("effect", effect)} \cup {Item("memory", c) : c \in {memory} \ {{}}},
   links |-> {Link(c) : c \in {memory} \ {{}}}]
ProposalsMade ==
  x1 :> {Made3(x1, {"opinion"}, {}), Made3(x1, {"opinion", "theory"}, {"theory"})} @@
  x2 :> {Made3(x2, {"result"}, {"result"})} @@
  x3 :> {Made3(x3, {"opinion", "result"}, {"result"})}
NoMention == [x \in {x1, x2, x3} |-> {}]

UsesOfRunner ==
  {[dirs |-> <<old>>, forced |-> {}, ingest |-> TRUE],
   [dirs |-> <<l1, old>>, forced |-> {}, ingest |-> FALSE],
   [dirs |-> <<l1>>, forced |-> {k1}, ingest |-> FALSE]}
UsesOfPreparation ==
  {[todo |-> << <<l1, au1>> >>, execute |-> TRUE], [todo |-> << <<l1, au2>> >>, execute |-> FALSE],
   [todo |-> << <<l1, au1>>, <<l2, au3>> >>, execute |-> TRUE]}

\* What the theorem about the reports of a run asks of its inputs is so here.
ASSUME DirectoriesAgree == InputsAgree

\* A catalog of two messages, the policy that forbids a candidate, and another catalog;
\* two runs of proposals and their assembly.
Proposal(text, candidate) == [source |-> text, chinese |-> candidate]
Pages == "title" :> "Forces" @@ "hint" :> "Forces"
AnyCandidate == {Proposal("Forces", z) : z \in {"z1", "z2", "z3"}} \cup {Proposal("Load", "z1")}
Checkouts ==
  {[catalog |-> Pages, rules |-> AnyCandidate],
   [catalog |-> Pages, rules |-> AnyCandidate \ {Proposal("Forces", "z2")}],
   [catalog |-> "title" :> "Load", rules |-> AnyCandidate]}
RunLeft(kind, upstream, made) ==
  "manifest" :>
    [command |-> kind, status |-> "completed", catalog |-> Pages, rules |-> AnyCandidate,
     glm |-> kind = "propose", upstream |-> upstream, input |-> <<>>, passed |-> TRUE,
     whole |-> FALSE, artifacts |-> "proposals" :> made] @@
  "proposals" :> made
AllProposed == "title" :> Proposal("Forces", "z1") @@ "hint" :> Proposal("Forces", "z1")
TitleProposed == "title" :> Proposal("Forces", "z2")
RunsLeft ==
  {"general" :> RunLeft("propose", <<>>, AllProposed) @@
   "remedy" :> RunLeft("propose", <<>>, TitleProposed) @@
   "assembly" :> RunLeft("assemble", <<AllProposed, TitleProposed>>, TitleProposed @@ AllProposed)}
Line(kind, dir, from, keys, glm) ==
  [kind |-> kind, dir |-> dir, from |-> from, keys |-> keys, glm |-> glm]
LinesGiven ==
  {Line("scan", "remedy", <<>>, {}, FALSE), Line("propose", "remedy", <<>>, {"title"}, TRUE),
   Line("validate", "remedy", <<"remedy">>, {}, FALSE),
   Line("assemble", "assembly", <<"general", "remedy">>, {}, FALSE),
   Line("quality-review", "assembly", <<"assembly">>, {"title"}, TRUE),
   Line("quality-review", "remedy", <<"assembly">>, {"title"}, TRUE),
   Line("quality-review", "assembly", <<"remedy">>, {"hint"}, TRUE)}

VARIABLE part  \* what is checked

vars == <<reviewVars, accountVars, runtimeVars, clientVars, stagingVars,
          bundleVars, runnerVars, localizationVars, part>>

Init ==
  /\ part \in {"review", "accounts", "runtime", "clients", "staging", "bundle", "runner",
              "localization"}
  /\ ReviewInit /\ (part # "review" => versions = <<>>)
  /\ AccountInit /\ RuntimeInit
  /\ ClientInit /\ (part # "clients" => damaged = {} /\ answers = {})
  /\ StagingInit /\ (part # "staging" => reported = {})
  /\ BundleInit /\ (part # "bundle" => Untouched)
  /\ RunnerInit /\ (part # "runner" => Unused)
  /\ LocalizationInit /\ (part # "localization" => Unlocalized)

Next ==
  \/ /\ part = "review" /\ ReviewNext
     /\ UNCHANGED <<part, accountVars, runtimeVars, clientVars, stagingVars,
                    bundleVars, runnerVars, localizationVars>>
  \/ /\ part = "accounts" /\ AccountNext
     /\ UNCHANGED <<part, reviewVars, runtimeVars, clientVars, stagingVars,
                    bundleVars, runnerVars, localizationVars>>
  \/ /\ part = "runtime" /\ RuntimeNext
     /\ UNCHANGED <<part, reviewVars, accountVars, clientVars, stagingVars,
                    bundleVars, runnerVars, localizationVars>>
  \/ /\ part = "clients" /\ ClientNext
     /\ UNCHANGED <<part, reviewVars, accountVars, runtimeVars, stagingVars,
                    bundleVars, runnerVars, localizationVars>>
  \/ /\ part = "staging" /\ StagingNext
     /\ UNCHANGED <<part, reviewVars, accountVars, runtimeVars, clientVars,
                    bundleVars, runnerVars, localizationVars>>
  \/ /\ part = "bundle" /\ BundleNext
     /\ UNCHANGED <<part, reviewVars, accountVars, runtimeVars, clientVars,
                    stagingVars, runnerVars, localizationVars>>
  \/ /\ part = "runner" /\ RunnerNext
     /\ UNCHANGED <<part, reviewVars, accountVars, runtimeVars, clientVars,
                    stagingVars, bundleVars, localizationVars>>
  \/ /\ part = "localization" /\ LocalizationNext
     /\ UNCHANGED <<part, reviewVars, accountVars, runtimeVars, clientVars,
                    stagingVars, bundleVars, runnerVars>>

Spec == Init /\ [][Next]_vars

\* Every part has the types its module declares.
GovernanceTypeOK ==
  /\ ReviewTypeOK /\ AccountTypeOK /\ RuntimeTypeOK /\ ClientTypeOK /\ StagingTypeOK
  /\ BundleTypeOK /\ RunnerTypeOK /\ LocalizationTypeOK
=============================================================================
