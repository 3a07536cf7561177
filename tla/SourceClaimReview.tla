------------------------- MODULE SourceClaimReview -------------------------
(***************************************************************************)
(* Governance of one Source and the Claims taken from it:                  *)
(* ProductionGovernanceService of research/review/workflow_service.py with *)
(* research/review/source_permission_policy.py, over the tables and guards *)
(* of persistence/models.py and its migrations 0002 and 0006.              *)
(*                                                                         *)
(* A transaction locks its actor's session and user row first, so one user *)
(* runs one at a time; it is one action where the row it decides on is     *)
(* locked before what it decides from is read.  A Claim review locks the   *)
(* Claim only: what it reads of the Source may change before it commits.   *)
(* The ranks of the code's enumerations stand for their members.           *)
(***************************************************************************)
EXTENDS GovernanceRoles, FiniteSets, Sequences, FiniteSetsExt

CONSTANTS
  Claims,                       \* identities of Claim candidates
  Sections,                     \* locators an extraction may be limited to
  Extractions,  \* of 0..3: none, metadata_only, selected_sections, full_text
  Storages,     \* of 0..2: none, derived_knowledge_only, with_short_excerpt
  Eligibilities,\* of 0..3: ineligible, not_assessed, eligible_with_limits, eligible
  Levels,       \* of 0..3: public, controlled, secret_method, restricted
  ChainLimit,   \* MAX_PERMISSION_REQUEST_CHAIN_LENGTH
  MaxVersion,   \* bound: versions of the Source
  MaxRequests,  \* bound: permission requests for all of them
  MaxDecided    \* bound: versions that get a decision

ASSUME ReviewConstants ==
  /\ Extractions \subseteq 0..3 /\ Storages \subseteq 0..2
  /\ Eligibilities \subseteq 0..3 /\ Levels \subseteq 0..3
  /\ ChainLimit \in Nat \ {0} /\ MaxVersion \in Nat \ {0}
  /\ MaxRequests \in Nat /\ MaxDecided \in Nat

Versions == 1..MaxVersion

VARIABLES
  versions,  \* source_versions of the Source, by number
  requests,  \* source_permission_requests of each version, by sequence
  ruling,    \* source_review_decisions: the latest of each version, or None
  claims,    \* claim_candidates, or None
  verdict,   \* claim_review_decisions: the latest of each candidate, or None
  card,      \* evidence_card_versions: the one of each candidate, or None
  reading    \* the Claim review each user has open, or None

sourceTables == <<versions, requests, ruling>>
claimTables == <<claims, verdict, card>>
reviewVars == <<sourceTables, claimTables, reading>>

SubmittedVersions == [by : Users, level : Levels]

PermissionRequests ==
  [by : Users, extraction : Extractions, storage : Storages, scope : SUBSET Sections]

\* Of the permissions in a rejection nothing is read again.
SourceDecisions ==
  [by : Users, approved : {TRUE}, request : 1..MaxRequests, extraction : Extractions,
   scope : SUBSET Sections, storage : Storages, eligibility : Eligibilities, level : Levels]
  \cup
  [by : Users, approved : {FALSE}, request : 1..MaxRequests, extraction : {0},
   scope : {{}}, storage : {0}, eligibility : {0}, level : Levels]

ClaimCandidates ==
  [version : Versions, by : Users, status : {"submitted", "approved", "rejected"}]

ClaimDecisions ==
  [by : Users, approved : {TRUE}, storage : Storages, eligibility : Eligibilities, level : Levels]
  \cup
  [by : Users, approved : {FALSE}, storage : {0}, eligibility : {0}, level : Levels]

EvidenceCards ==
  [extraction : Extractions, storage : Storages, eligibility : Eligibilities, level : Levels]

ASSUME NoRowIsNone == None \notin ClaimCandidates \cup ClaimDecisions \cup EvidenceCards

\* What an open review has read: the Source's decision and effective level.
Readings == [claim : Claims, decision : SourceDecisions, level : Levels]

ReviewTypeOK ==
  /\ versions \in Seq(SubmittedVersions) /\ Len(versions) <= MaxVersion
  /\ \A v \in Versions : requests[v] \in Seq(PermissionRequests)
  /\ DOMAIN requests = Versions
  /\ ruling \in [Versions -> SourceDecisions \cup {None}]
  /\ claims \in [Claims -> ClaimCandidates \cup {None}]
  /\ verdict \in [Claims -> ClaimDecisions \cup {None}]
  /\ card \in [Claims -> EvidenceCards \cup {None}]
  /\ reading \in [Users -> Readings \cup {None}]

\* The tables are empty, or migration 0006 has given a version registered before it
\* a first request from its metadata, in whatever shape that was.
ReviewInit ==
  /\ \/ versions = <<>> /\ requests = [v \in Versions |-> <<>>]
     \/ \E old \in SubmittedVersions, q \in PermissionRequests :
          /\ q.by = old.by
          /\ versions = <<old>>
          /\ requests = [v \in Versions |-> IF v = 1 THEN <<q>> ELSE <<>>]
  /\ ruling = [v \in Versions |-> None]
  /\ claims = [c \in Claims |-> None]
  /\ verdict = [c \in Claims |-> None]
  /\ card = [c \in Claims |-> None]
  /\ reading = [u \in Users |-> None]

-----------------------------------------------------------------------------
(* What the transactions derive.                                            *)

Registered == 1..Len(versions)
Latest(v) == Len(requests[v])
Requested == FoldFunction(LAMBDA s, n : Len(s) + n, 0, requests)
Smaller(m, n) == IF m <= n THEN m ELSE n
Larger(m, n) == IF m <= n THEN n ELSE m

SourceLevel(v) ==
  IF ruling[v] = None THEN versions[v].level ELSE Larger(versions[v].level, ruling[v].level)

DecisionLevels(c) ==
  (IF verdict[c] = None THEN {} ELSE {verdict[c].level})
    \cup (IF card[c] = None THEN {} ELSE {card[c].level})

EffectiveClaimLevel(c) == Max({SourceLevel(claims[c].version)} \cup DecisionLevels(c))

EffectiveSourceLevel(v) ==
  Max({SourceLevel(v)} \cup
      UNION {DecisionLevels(c) : c \in {d \in Claims : claims[d] # None /\ claims[d].version = v}})

\* Rows are contiguous and linked by their insert trigger; what is left to check of
\* a history is its length, and that the given request is its last.
ChainSound(v, r) == r = Latest(v) /\ Latest(v) \in 1..ChainLimit

\* A request for storage needs claim-level extraction; a scope means selected sections.
WellShaped(q) ==
  /\ q.extraction = 2 <=> q.scope # {}
  /\ q.storage # 0 => q.extraction \in {2, 3}

Submitters(v) == {versions[v].by} \cup {requests[v][r].by : r \in DOMAIN requests[v]}

WithinRequest(d, q) ==
  /\ d.extraction <= q.extraction /\ d.storage <= q.storage
  /\ IF d.extraction = 2 THEN d.scope # {} /\ (q.extraction = 2 => d.scope \subseteq q.scope)
     ELSE d.scope = {}

\* require_current_source_approval.
ApprovalCurrent(v) ==
  LET d == ruling[v] IN
  /\ d # None /\ d.approved
  /\ ChainSound(v, d.request)
  /\ d.by \notin Submitters(v)
  /\ WellShaped(requests[v][d.request])
  /\ WithinRequest(d, requests[v][d.request])

\* The policies of both decisions admit evidence, and the card is the one they imply:
\* each of the three services that use a card derives it again.
PoliciesMatch(c) ==
  LET d == ruling[claims[c].version]
      e == verdict[c] IN
  /\ d.eligibility >= 2 /\ d.extraction >= 2 /\ d.storage >= 1
  /\ e.eligibility >= 2 /\ e.storage >= 1
  /\ card[c] = [extraction |-> d.extraction,
                storage |-> Smaller(d.storage, e.storage),
                eligibility |-> Smaller(d.eligibility, e.eligibility),
                level |-> Larger(d.level, e.level)]
  /\ card[c].eligibility = e.eligibility

Projectable(k) == k.eligibility >= 2 /\ k.storage >= 1

\* _current_evidence_card: what the reads of Claims and Evidence accept.
CardCurrent(c) ==
  /\ card[c] # None /\ claims[c].status = "approved" /\ verdict[c].approved
  /\ Projectable(card[c])
  /\ ApprovalCurrent(claims[c].version)
  /\ PoliciesMatch(c)

\* _load_evidence of the mapping service: what a mapping may be supported by, if its
\* proposer may see the card's own level.
EvidenceUsable(c) ==
  /\ card[c] # None
  /\ claims[c].status = "approved" /\ verdict[c].approved
  /\ Projectable(card[c])
  /\ ApprovalCurrent(claims[c].version)
  /\ \A policy \in {"level", "storage", "eligibility"} : card[c][policy] = verdict[c][policy]
  /\ PoliciesMatch(c)

\* _approved_evidence_card of the storage service: what a manifest may hold.
EvidenceStorable(c) ==
  /\ card[c] # None /\ Projectable(card[c])
  /\ claims[c].status = "approved" /\ verdict[c].approved
  /\ ApprovalCurrent(claims[c].version)
  /\ PoliciesMatch(c)

\* What a read of an approved mapping asks of each card it rests on, with a derivation of
\* the Source's level of its own.
EvidenceVisible(u, c) ==
  \A l \in {card[c].level, verdict[c].level, EffectiveSourceLevel(claims[c].version)} : Shows(u, l)

-----------------------------------------------------------------------------
(* Registration and permission requests.                                    *)

\* An operator without an open transaction.
Operating(u) == u \in Operators /\ reading[u] = None
Reviewing(u) == u \in Reviewers /\ reading[u] = None

\* The answer lists every version its reader may see; it fails on an unsound history.
SummaryOf(u, vs) == \A v \in vs : Shows(u, EffectiveSourceLevel(v)) => Latest(v) <= ChainLimit

PermissionShape(q) == WellShaped(q) /\ Requested < MaxRequests

NewVersion(u, l, q) ==
  /\ Operating(u) /\ Shows(u, l)
  /\ q.by = u /\ PermissionShape(q)
  /\ versions' = Append(versions, [by |-> u, level |-> l])
  /\ requests' = [requests EXCEPT ![Len(versions) + 1] = <<q>>]
  /\ UNCHANGED <<ruling, claimTables, reading>>

\* The Source does not exist: its key is unique.
RegisterSource(u, l, q) == versions = <<>> /\ NewVersion(u, l, q)

\* The Source and its newest version are locked; the content is new.
AddSourceVersion(u, l, q) ==
  /\ Len(versions) \in 1..(MaxVersion - 1)
  /\ SummaryOf(u, Registered)
  /\ NewVersion(u, l, q)

\* Mutant: a request may still be added to a decided version.
Mutant_AddSourcePermissionRequest(u, v, q) ==
  /\ Operating(u) /\ Shows(u, EffectiveSourceLevel(v))
  /\ ChainSound(v, Latest(v))
  /\ q.by = u /\ PermissionShape(q)
  /\ requests' = [requests EXCEPT ![v] = Append(@, q)]
  /\ UNCHANGED <<versions, ruling, claimTables, reading>>

\* The version is locked, unreviewed and visible.  The request differs from the last
\* one, if only in the rights it is based on.
AddSourcePermissionRequest(u, v, q) ==
  /\ Operating(u) /\ Shows(u, EffectiveSourceLevel(v))
  /\ ruling[v] = None
  /\ ChainSound(v, Latest(v))
  /\ q.by = u /\ PermissionShape(q)
  /\ requests' = [requests EXCEPT ![v] = Append(@, q)]
  /\ UNCHANGED <<versions, ruling, claimTables, reading>>

-----------------------------------------------------------------------------
(* Decisions about versions.                                                *)

\* Of an approval: citation, contradiction check and access are the reviewer's data.
Approvable(d, v) ==
  LET q == requests[v][d.request] IN
  /\ d.eligibility >= 2 /\ d.extraction >= 2
  /\ d.extraction = 2 => d.scope # {}
  /\ d.extraction <= q.extraction /\ d.storage <= q.storage
  /\ q.extraction = 2 => d.scope \subseteq q.scope
  /\ d.level >= versions[v].level /\ Shows(d.by, d.level)

\* Mutant: decisions can be made again.
Mutant_Undecided(status) == status # "rejected"

\* Only a submitted version or candidate is decided, once.
Undecided(status) == status = "submitted"

SourceState(v) ==
  IF ruling[v] = None THEN "submitted" ELSE IF ruling[v].approved THEN "approved" ELSE "rejected"

\* The version is locked; the decision binds the latest request, and its reviewer
\* submitted neither the version nor any request for it.
ReviewSource(v, d) ==
  /\ Reviewing(d.by)
  /\ ChainSound(v, d.request)
  /\ d.by \notin Submitters(v)
  /\ Undecided(SourceState(v))
  /\ Cardinality({w \in Versions \ {v} : ruling[w] # None}) < MaxDecided
  /\ Shows(d.by, versions[v].level)
  /\ d.approved => Approvable(d, v)
  /\ \A w \in Registered \ {v} : SummaryOf(d.by, {w})
  /\ ruling' = [ruling EXCEPT ![v] = d]
  /\ UNCHANGED <<versions, requests, claimTables, reading>>

-----------------------------------------------------------------------------
(* Claims.                                                                  *)

\* The version is locked; its checksum makes the candidate new.
SubmitClaim(u, c, v) ==
  /\ Operating(u)
  /\ ApprovalCurrent(v)
  /\ Shows(u, EffectiveSourceLevel(v))
  /\ claims[c] = None
  /\ claims' = [claims EXCEPT ![c] = [version |-> v, by |-> u, status |-> "submitted"]]
  /\ UNCHANGED <<sourceTables, verdict, card, reading>>

ClaimVisible(u, c) ==
  /\ ApprovalCurrent(claims[c].version)
  /\ Shows(u, EffectiveClaimLevel(c))
  /\ Shows(u, EffectiveSourceLevel(claims[c].version))

CandidateFree(c) == \A u \in Users : reading[u] # None => reading[u].claim # c

\* review_claim up to its first insert: the candidate is locked, the Source is read.
OpenClaimReview(u, c) ==
  /\ Reviewing(u) /\ CandidateFree(c)
  /\ claims[c] # None /\ ClaimVisible(u, c)
  /\ claims[c].by # u
  /\ Undecided(claims[c].status)
  /\ LET v == claims[c].version IN
     reading' = [reading EXCEPT ![u] =
       [claim |-> c, decision |-> ruling[v], level |-> EffectiveSourceLevel(v)]]
  /\ UNCHANGED <<sourceTables, claimTables>>

\* Confidence, limitations and contradictions are the reviewer's data.
ClaimApprovable(d, source) ==
  /\ d.eligibility >= 2
  /\ d.storage >= 1 /\ d.storage <= source.storage
  /\ d.level >= source.level /\ Shows(d.by, d.level)

\* Mutant: the card is classified as its Source was.
Mutant_BuildEvidenceCard(d, source) ==
  [extraction |-> source.extraction, storage |-> d.storage,
   eligibility |-> d.eligibility, level |-> source.level]

BuildEvidenceCard(d, source) ==
  [extraction |-> source.extraction, storage |-> d.storage,
   eligibility |-> d.eligibility, level |-> d.level]

\* The rest of it: decision, Evidence Card and status are committed together.
ApproveClaim(d) ==
  LET r == reading[d.by]
      c == r.claim IN
  /\ r # None /\ d.approved
  /\ ClaimApprovable(d, r.decision)
  /\ verdict' = [verdict EXCEPT ![c] = d]
  /\ card' = [card EXCEPT ![c] = BuildEvidenceCard(d, r.decision)]
  /\ claims' = [claims EXCEPT ![c].status = "approved"]
  /\ reading' = [reading EXCEPT ![d.by] = None]
  /\ UNCHANGED sourceTables

\* Mutant: a rejection has no classification.
Mutant_RejectClaim(u) ==
  LET r == reading[u]
      c == r.claim IN
  /\ r # None
  /\ verdict' = [verdict EXCEPT ![c] =
       [by |-> u, approved |-> FALSE, storage |-> 0, eligibility |-> 0, level |-> None]]
  /\ claims' = [claims EXCEPT ![c].status = "rejected"]
  /\ reading' = [reading EXCEPT ![u] = None]
  /\ UNCHANGED <<sourceTables, card>>

\* A rejection keeps the level the Source had when it was read.
RejectClaim(u) ==
  LET r == reading[u]
      c == r.claim IN
  /\ r # None
  /\ verdict' = [verdict EXCEPT ![c] =
       [by |-> u, approved |-> FALSE, storage |-> 0, eligibility |-> 0, level |-> r.level]]
  /\ claims' = [claims EXCEPT ![c].status = "rejected"]
  /\ reading' = [reading EXCEPT ![u] = None]
  /\ UNCHANGED <<sourceTables, card>>

\* The review is refused, fails, or its process dies: nothing of it stays.
AbandonClaimReview(u) ==
  /\ reading[u] # None
  /\ reading' = [reading EXCEPT ![u] = None]
  /\ UNCHANGED <<sourceTables, claimTables>>

ReviewNext ==
  \/ \E q \in PermissionRequests, l \in Levels :
       RegisterSource(q.by, l, q) \/ AddSourceVersion(q.by, l, q)
  \/ \E q \in PermissionRequests, v \in Registered : AddSourcePermissionRequest(q.by, v, q)
  \/ \E d \in SourceDecisions, v \in Registered : ReviewSource(v, d)
  \/ \E u \in Users, c \in Claims, v \in Registered : SubmitClaim(u, c, v)
  \/ \E u \in Users, c \in Claims : OpenClaimReview(u, c)
  \/ \E d \in ClaimDecisions : ApproveClaim(d)
  \/ \E u \in Users : RejectClaim(u) \/ AbandonClaimReview(u)

ReviewSpec == ReviewInit /\ [][ReviewNext]_reviewVars

-----------------------------------------------------------------------------
(* Properties.                                                              *)

\* What review_source approves stays what require_current_source_approval accepts,
\* whoever registers, requests and reviews what in which order - unless a scope came
\* with a decision for the full text, or the request was migrated ill-shaped.
ApprovalsStayCurrent ==
  \A v \in Versions : SourceState(v) = "approved" =>
    LET d == ruling[v] IN
    ApprovalCurrent(v) <=> (d.extraction = 2 \/ d.scope = {}) /\ WellShaped(requests[v][d.request])

\* A candidate rests on a current approval, and an approved one has a card that reads,
\* mappings and manifests accept alike, unless the Source's eligibility is the smaller
\* one; and nobody is shown by a mapping what the Claim would not show.
CardsStayCurrent ==
  \A c \in Claims : claims[c] # None =>
    LET source == ruling[claims[c].version] IN
    /\ ApprovalCurrent(claims[c].version)
    /\ claims[c].status = "approved" =>
         /\ CardCurrent(c) <=> verdict[c].eligibility <= source.eligibility
         /\ EvidenceUsable(c) <=> CardCurrent(c)
         /\ EvidenceStorable(c) <=> CardCurrent(c)
         /\ \A u \in Users : EvidenceVisible(u, c) <=> ClaimVisible(u, c)

\* Raw text never becomes visible to more people: no decision about a version or a
\* Claim, also one that read the Source before it was raised, lowers a classification.
ClassificationNeverLowers ==
  [][\A v \in Registered : EffectiveSourceLevel(v)' >= EffectiveSourceLevel(v)]_reviewVars
=============================================================================
