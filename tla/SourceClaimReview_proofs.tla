---------------------- MODULE SourceClaimReview_proofs ----------------------
(***************************************************************************)
(* Machine-checked facts about SourceClaimReview, for any number of users, *)
(* Claims, sections, versions and requests.                                *)
(***************************************************************************)
EXTENDS SourceClaimReview, TLAPS

-----------------------------------------------------------------------------
(* The inductive invariant.                                                 *)

\* A decision binds the last request there will be, was made by somebody else than the
\* submitters, and approved no more than that request asks for.
DecisionHolds(v) ==
  ruling[v] # None =>
    /\ v \in Registered
    /\ ChainSound(v, ruling[v].request)
    /\ ruling[v].by \notin Submitters(v)
    /\ ruling[v].approved => Approvable(ruling[v], v)

\* A candidate rests on a current approval; until it is decided it has neither decision
\* nor card, and once approved both, as its Source's decision admits.
CandidateHolds(c) ==
  /\ claims[c] = None \/ claims[c].status = "submitted" => verdict[c] = None /\ card[c] = None
  /\ claims[c] # None =>
       LET source == ruling[claims[c].version] IN
       /\ ApprovalCurrent(claims[c].version)
       /\ claims[c].status = "approved" =>
            /\ verdict[c] # None /\ verdict[c].approved
            /\ ClaimApprovable(verdict[c], source)
            /\ card[c] # None /\ card[c] = BuildEvidenceCard(verdict[c], source)

\* An open review is the only one of its candidate, which is undecided, and has read
\* the decision that still stands.
ReadingHolds(u) ==
  reading[u] # None =>
    LET c == reading[u].claim IN
    /\ claims[c] # None /\ claims[c].status = "submitted"
    /\ reading[u].decision = ruling[claims[c].version]
    /\ \A w \in Users \ {u} : reading[w] # None => reading[w].claim # c

ReviewSafe ==
  /\ ReviewTypeOK
  /\ \A v \in Versions : DecisionHolds(v)
  /\ \A c \in Claims : CandidateHolds(c)
  /\ \A u \in Users : ReadingHolds(u)

-----------------------------------------------------------------------------
(* Levels.                                                                  *)

LEMMA LargestLevel ==
  ASSUME NEW S \in SUBSET (0..3), S # {}
  PROVE  Max(S) \in S /\ \A l \in S : Max(S) >= l
  <1>1. \E x \in S : \A y \in S : x >= y
    <2>1. CASE 3 \in S
      BY <2>1
    <2>2. CASE 3 \notin S /\ 2 \in S
      BY <2>2
    <2>3. CASE 3 \notin S /\ 2 \notin S /\ 1 \in S
      BY <2>3
    <2>4. CASE 3 \notin S /\ 2 \notin S /\ 1 \notin S
      <3>1. \A x \in S : x = 0
        BY <2>4
      <3>2. PICK x \in S : TRUE
        OBVIOUS
      <3>3. QED
        BY <3>1, <3>2
    <2>5. QED
      BY <2>1, <2>2, <2>3, <2>4
  <1>2. QED
    BY <1>1 DEF Max

\* A version's own level and those of the decisions about its Claims.
LevelsOf(v) ==
  {SourceLevel(v)} \cup
    UNION {DecisionLevels(c) : c \in {d \in Claims : claims[d] # None /\ claims[d].version = v}}

LEMMA DecisionTypes ==
  ASSUME NEW d \in SourceDecisions
  PROVE  /\ d.by \in Users /\ d.approved \in BOOLEAN /\ d.request \in 1..MaxRequests
         /\ d.level \in Levels
         /\ d.approved => /\ d.extraction \in Extractions /\ d.storage \in Storages
                          /\ d.eligibility \in Eligibilities /\ d.scope \in SUBSET Sections
  BY DEF SourceDecisions

LEMMA ClaimDecisionTypes ==
  ASSUME NEW d \in ClaimDecisions
  PROVE  /\ d.by \in Users /\ d.approved \in BOOLEAN /\ d.level \in Levels
         /\ d.approved => d.storage \in Storages /\ d.eligibility \in Eligibilities
  BY DEF ClaimDecisions

LEMMA VersionLevels ==
  ASSUME ReviewTypeOK, NEW v \in Registered
  PROVE  /\ v \in Versions /\ versions[v] \in SubmittedVersions
         /\ SourceLevel(v) \in Levels /\ LevelsOf(v) \subseteq Levels
  <1>1. v \in Versions /\ versions[v] \in SubmittedVersions
    BY ReviewConstants DEF ReviewTypeOK, Registered, Versions
  <1>2. SourceLevel(v) \in Levels
    <2>1. CASE ruling[v] = None
      BY <1>1, <2>1 DEF SourceLevel, SubmittedVersions
    <2>2. CASE ruling[v] # None
      <3>1. ruling[v].level \in Levels /\ versions[v].level \in Levels
        BY <1>1, <2>2, DecisionTypes DEF ReviewTypeOK, SubmittedVersions
      <3>2. QED
        BY <2>2, <3>1 DEF SourceLevel, Larger
    <2>3. QED
      BY <2>1, <2>2
  <1>3. ASSUME NEW c \in Claims PROVE DecisionLevels(c) \subseteq Levels
    BY ClaimDecisionTypes DEF ReviewTypeOK, DecisionLevels, EvidenceCards
  <1>4. QED
    BY <1>1, <1>2, <1>3 DEF LevelsOf

LEMMA EffectiveLevels ==
  ASSUME ReviewTypeOK, NEW v \in Registered
  PROVE  /\ EffectiveSourceLevel(v) \in LevelsOf(v) /\ EffectiveSourceLevel(v) \in Levels
         /\ \A l \in LevelsOf(v) : EffectiveSourceLevel(v) >= l
  <1>1. LevelsOf(v) \in SUBSET (0..3) /\ LevelsOf(v) # {} /\ LevelsOf(v) \subseteq Levels
    BY VersionLevels, ReviewConstants DEF LevelsOf
  <1>2. EffectiveSourceLevel(v) = Max(LevelsOf(v))
    BY DEF EffectiveSourceLevel, LevelsOf
  <1>3. QED
    BY <1>1, <1>2, LargestLevel

-----------------------------------------------------------------------------
(* Rows that stay as they are.                                              *)

LEMMA VersionFrozen ==
  ASSUME NEW v \in Registered, v \in Registered', versions'[v] = versions[v],
         requests'[v] = requests[v], ruling'[v] = ruling[v]
  PROVE  /\ DecisionHolds(v) => DecisionHolds(v)'
         /\ ApprovalCurrent(v)' <=> ApprovalCurrent(v)
         /\ SourceLevel(v)' = SourceLevel(v)
  <1>1. Latest(v)' = Latest(v) /\ Submitters(v)' = Submitters(v)
    BY DEF Latest, Submitters
  <1>2. \A r : ChainSound(v, r)' <=> ChainSound(v, r)
    BY <1>1 DEF ChainSound
  <1>3. PICK d : d = ruling[v] /\ d = ruling'[v]
    OBVIOUS
  <1>4. Approvable(d, v)' <=> Approvable(d, v)
    BY DEF Approvable
  <1>5. ChainSound(v, d.request)' <=> ChainSound(v, d.request)
    BY <1>2
  <1>6. ApprovalCurrent(v)' <=> ApprovalCurrent(v)
    BY <1>1, <1>3, <1>5 DEF ApprovalCurrent, ChainSound
  <1>7. DecisionHolds(v) => DecisionHolds(v)'
    BY <1>1, <1>3, <1>4, <1>5 DEF DecisionHolds, ChainSound, Approvable
  <1>8. QED
    BY <1>6, <1>7 DEF SourceLevel

LEMMA CandidateVersion ==
  ASSUME ReviewSafe, NEW c \in Claims, claims[c] # None
  PROVE  /\ claims[c] \in ClaimCandidates /\ claims[c].version \in Registered
         /\ ruling[claims[c].version] \in SourceDecisions
         /\ ruling[claims[c].version].approved
         /\ ApprovalCurrent(claims[c].version)
  <1>1. claims[c] \in ClaimCandidates
    BY DEF ReviewSafe, ReviewTypeOK
  <1>2. PICK v \in Versions : v = claims[c].version
    BY <1>1 DEF ClaimCandidates
  <1>3. ApprovalCurrent(v) /\ ruling[v] # None /\ ruling[v].approved
    BY <1>2 DEF ReviewSafe, CandidateHolds, ApprovalCurrent
  <1>4. v \in Registered /\ ruling[v] \in SourceDecisions
    BY <1>3 DEF ReviewSafe, DecisionHolds, ReviewTypeOK
  <1>5. QED
    BY <1>1, <1>2, <1>3, <1>4

\* A step on the Source that leaves decided versions alone leaves the Claims alone.
LEMMA ClaimsFrozen ==
  ASSUME ReviewSafe, UNCHANGED <<claimTables, reading>>,
         \A v \in Registered : ruling[v] # None =>
           /\ v \in Registered' /\ versions'[v] = versions[v]
           /\ requests'[v] = requests[v] /\ ruling'[v] = ruling[v]
  PROVE  (\A c \in Claims : CandidateHolds(c)') /\ (\A u \in Users : ReadingHolds(u)')
  <1>1. UNCHANGED <<claims, verdict, card, reading>>
    BY DEF claimTables
  <1>2. ASSUME NEW c \in Claims, claims[c] # None
        PROVE  \E v \in Registered :
                 /\ v = claims[c].version /\ ruling'[v] = ruling[v]
                 /\ ApprovalCurrent(v) /\ ApprovalCurrent(v)'
    <2>1. PICK v \in Registered : v = claims[c].version
      BY <1>2, CandidateVersion
    <2>2. ApprovalCurrent(v) /\ ruling[v] # None
      BY <1>2, <2>1, CandidateVersion DEF ApprovalCurrent
    <2>3. QED
      BY <2>1, <2>2, VersionFrozen
  <1>3. ASSUME NEW c \in Claims PROVE CandidateHolds(c)'
    <2>1. CandidateHolds(c)
      BY DEF ReviewSafe
    <2>2. CASE claims[c] = None
      BY <1>1, <2>1, <2>2 DEF CandidateHolds
    <2>3. CASE claims[c] # None
      <3>1. PICK v \in Registered :
              /\ v = claims[c].version /\ ruling'[v] = ruling[v]
              /\ ApprovalCurrent(v) /\ ApprovalCurrent(v)'
        BY <1>2, <2>3
      <3>2. PICK s, e : s = ruling[v] /\ s = ruling'[v] /\ e = verdict[c] /\ e = verdict'[c]
        BY <1>1, <3>1
      <3>3. QED
        BY <1>1, <2>1, <3>1, <3>2 DEF CandidateHolds, ClaimApprovable, BuildEvidenceCard, ApprovalCurrent
    <2>4. QED
      BY <2>2, <2>3
  <1>4. ASSUME NEW u \in Users PROVE ReadingHolds(u)'
    <2>1. ReadingHolds(u)
      BY DEF ReviewSafe
    <2>2. CASE reading[u] = None
      BY <1>1, <2>2 DEF ReadingHolds
    <2>3. CASE reading[u] # None
      <3>1. PICK c \in Claims : c = reading[u].claim
        BY <2>3 DEF ReviewSafe, ReviewTypeOK, Readings
      <3>2. claims[c] # None
        BY <2>1, <2>3, <3>1 DEF ReadingHolds
      <3>3. ruling'[claims[c].version] = ruling[claims[c].version]
        BY <1>2, <3>2
      <3>4. QED
        BY <1>1, <2>1, <3>1, <3>3 DEF ReadingHolds
    <2>5. QED
      BY <2>2, <2>3
  <1>5. QED
    BY <1>3, <1>4

-----------------------------------------------------------------------------
(* Steps on the Source.                                                     *)

LEMMA NewVersionSafe ==
  ASSUME ReviewSafe, NEW q \in PermissionRequests, NEW l \in Levels,
         RegisterSource(q.by, l, q) \/ AddSourceVersion(q.by, l, q)
  PROVE  /\ ReviewSafe' /\ UNCHANGED <<claimTables, ruling>>
         /\ Registered \subseteq Registered'
         /\ \A v \in Registered : versions'[v] = versions[v]
  <1>1. Len(versions) \in Nat /\ Len(versions) < MaxVersion
    BY ReviewConstants DEF RegisterSource, AddSourceVersion, ReviewSafe, ReviewTypeOK
  <1>2. PICK n \in Versions : n = Len(versions) + 1
    BY <1>1, ReviewConstants DEF Versions
  <1>3. /\ versions' = Append(versions, [by |-> q.by, level |-> l])
        /\ requests' = [requests EXCEPT ![n] = <<q>>]
        /\ UNCHANGED <<ruling, claimTables, reading>>
    BY <1>2 DEF RegisterSource, AddSourceVersion, NewVersion
  <1>4. /\ versions' \in Seq(SubmittedVersions) /\ Len(versions') = n
        /\ \A v \in Registered : versions'[v] = versions[v] /\ v # n
    BY <1>1, <1>2, <1>3 DEF ReviewSafe, ReviewTypeOK, SubmittedVersions, PermissionRequests, Registered
  <1>5. Registered \subseteq Registered' /\ n \notin Registered /\ n \in Registered'
    BY <1>1, <1>2, <1>4 DEF Registered
  <1>6. \A v \in Registered : requests'[v] = requests[v] /\ ruling'[v] = ruling[v]
    BY <1>3, <1>4
  <1>7. /\ DOMAIN requests' = Versions
        /\ \A v \in Versions : requests'[v] = IF v = n THEN <<q>> ELSE requests[v]
    BY <1>3 DEF ReviewSafe, ReviewTypeOK
  <1>8. ReviewTypeOK'
    <2>1. <<q>> \in Seq(PermissionRequests)
      OBVIOUS
    <2>2. \A v \in Versions : requests'[v] \in Seq(PermissionRequests)
      BY <1>7, <2>1 DEF ReviewSafe, ReviewTypeOK
    <2>3. Len(versions') <= MaxVersion
      BY <1>1, <1>2, <1>4, ReviewConstants
    <2>4. QED
      BY <1>3, <1>4, <1>7, <2>2, <2>3 DEF ReviewSafe, ReviewTypeOK, claimTables
  <1>9. \A v \in Versions : DecisionHolds(v)'
    <2> SUFFICES ASSUME NEW v \in Versions, ruling'[v] # None PROVE DecisionHolds(v)'
      BY DEF DecisionHolds
    <2>1. DecisionHolds(v) /\ v \in Registered
      BY <1>3 DEF ReviewSafe, DecisionHolds
    <2>2. QED
      BY <1>4, <1>5, <1>6, <2>1, VersionFrozen
  <1>10. (\A c \in Claims : CandidateHolds(c)') /\ (\A u \in Users : ReadingHolds(u)')
    BY <1>3, <1>4, <1>5, <1>6, ClaimsFrozen
  <1>11. QED
    BY <1>3, <1>4, <1>5, <1>8, <1>9, <1>10 DEF ReviewSafe

LEMMA RequestSafe ==
  ASSUME ReviewSafe, NEW q \in PermissionRequests, NEW v \in Registered,
         AddSourcePermissionRequest(q.by, v, q)
  PROVE  ReviewSafe' /\ UNCHANGED <<versions, ruling, claimTables>>
  <1>1. /\ ruling[v] = None /\ requests' = [requests EXCEPT ![v] = Append(@, q)]
        /\ UNCHANGED <<versions, ruling, claimTables, reading>>
    BY DEF AddSourcePermissionRequest
  <1>2. v \in Versions
    BY VersionLevels DEF ReviewSafe
  <1>3. /\ DOMAIN requests' = Versions
        /\ \A w \in Versions : requests'[w] = IF w = v THEN Append(requests[v], q) ELSE requests[w]
    BY <1>1, <1>2 DEF ReviewSafe, ReviewTypeOK
  <1>4. Registered' = Registered
    BY <1>1 DEF Registered
  <1>5. ReviewTypeOK'
    <2>1. Append(requests[v], q) \in Seq(PermissionRequests)
      BY <1>2 DEF ReviewSafe, ReviewTypeOK
    <2>2. \A w \in Versions : requests'[w] \in Seq(PermissionRequests)
      BY <1>3, <2>1 DEF ReviewSafe, ReviewTypeOK
    <2>3. QED
      BY <1>1, <1>3, <2>2 DEF ReviewSafe, ReviewTypeOK, claimTables
  <1>6. \A w \in Versions : DecisionHolds(w)'
    <2> SUFFICES ASSUME NEW w \in Versions, ruling'[w] # None PROVE DecisionHolds(w)'
      BY DEF DecisionHolds
    <2>1. DecisionHolds(w) /\ w \in Registered /\ w # v
      BY <1>1 DEF ReviewSafe, DecisionHolds
    <2>2. requests'[w] = requests[w]
      BY <1>3, <2>1
    <2>3. QED
      BY <1>1, <1>4, <2>1, <2>2, VersionFrozen
  <1>7. \A w \in Registered : ruling[w] # None => requests'[w] = requests[w]
    BY <1>1, <1>3, VersionLevels DEF ReviewSafe
  <1>8. (\A c \in Claims : CandidateHolds(c)') /\ (\A u \in Users : ReadingHolds(u)')
    BY <1>1, <1>4, <1>7, ClaimsFrozen
  <1>9. QED
    BY <1>1, <1>5, <1>6, <1>8 DEF ReviewSafe

LEMMA SourceReviewSafe ==
  ASSUME ReviewSafe, NEW d \in SourceDecisions, NEW v \in Registered, ReviewSource(v, d)
  PROVE  /\ ReviewSafe' /\ UNCHANGED <<versions, claimTables>>
         /\ ruling[v] = None /\ ruling'[v] = d
         /\ \A w \in Versions \ {v} : ruling'[w] = ruling[w]
  <1>1. v \in Versions
    BY VersionLevels DEF ReviewSafe
  <1>2. ruling[v] = None
    BY DEF ReviewSource, Undecided, SourceState
  <1>3. /\ ruling' = [ruling EXCEPT ![v] = d]
        /\ UNCHANGED <<versions, requests, claimTables, reading>>
        /\ ChainSound(v, d.request) /\ d.by \notin Submitters(v)
        /\ d.approved => Approvable(d, v)
    BY DEF ReviewSource
  <1>4. \A w \in Versions : ruling'[w] = IF w = v THEN d ELSE ruling[w]
    BY <1>1, <1>3 DEF ReviewSafe, ReviewTypeOK
  <1>5. Registered' = Registered
    BY <1>3 DEF Registered
  <1>6. ReviewTypeOK'
    BY <1>3 DEF ReviewSafe, ReviewTypeOK, claimTables
  <1>7. \A w \in Versions : DecisionHolds(w)'
    <2> SUFFICES ASSUME NEW w \in Versions, ruling'[w] # None PROVE DecisionHolds(w)'
      BY DEF DecisionHolds
    <2>1. CASE w = v
      <3>1. ChainSound(v, d.request)' /\ (d.by \notin Submitters(v)')
        BY <1>3 DEF ChainSound, Latest, Submitters
      <3>2. d.approved => Approvable(d, v)'
        BY <1>3 DEF Approvable
      <3>3. ruling'[v] = d
        BY <1>1, <1>4
      <3>4. QED
        BY <1>5, <2>1, <3>1, <3>2, <3>3 DEF DecisionHolds, ChainSound, Approvable
    <2>2. CASE w # v
      <3>1. ruling'[w] = ruling[w] /\ DecisionHolds(w) /\ w \in Registered
        BY <1>4, <2>2 DEF ReviewSafe, DecisionHolds
      <3>2. QED
        BY <1>3, <1>5, <3>1, VersionFrozen
    <2>3. QED
      BY <2>1, <2>2
  <1>8. \A w \in Registered : ruling[w] # None => ruling'[w] = ruling[w]
    BY <1>2, <1>4, VersionLevels DEF ReviewSafe
  <1>9. (\A c \in Claims : CandidateHolds(c)') /\ (\A u \in Users : ReadingHolds(u)')
    BY <1>3, <1>5, <1>8, ClaimsFrozen
  <1>10. QED
    BY <1>1, <1>2, <1>3, <1>4, <1>6, <1>7, <1>9 DEF ReviewSafe

-----------------------------------------------------------------------------
(* Steps on Claims.                                                         *)

\* One candidate changes, no Source does: the others are as they were.
LEMMA OtherCandidates ==
  ASSUME ReviewSafe, NEW c \in Claims, UNCHANGED sourceTables,
         \A b \in Claims \ {c} :
           claims'[b] = claims[b] /\ verdict'[b] = verdict[b] /\ card'[b] = card[b]
  PROVE  /\ \A v \in Versions : DecisionHolds(v)'
         /\ \A b \in Claims \ {c} : CandidateHolds(b)'
  <1>1. UNCHANGED <<versions, requests, ruling>> /\ Registered' = Registered
    BY DEF sourceTables, Registered
  <1>2. ASSUME NEW v \in Versions PROVE DecisionHolds(v)'
    <2>1. CASE ruling[v] = None
      BY <1>1, <2>1 DEF DecisionHolds
    <2>2. CASE ruling[v] # None
      <3>1. DecisionHolds(v) /\ v \in Registered
        BY <2>2 DEF ReviewSafe, DecisionHolds
      <3>2. QED
        BY <1>1, <3>1, VersionFrozen
    <2>3. QED
      BY <2>1, <2>2
  <1>3. ASSUME NEW b \in Claims \ {c} PROVE CandidateHolds(b)'
    <2>1. CandidateHolds(b)
      BY DEF ReviewSafe
    <2>2. CASE claims[b] = None
      BY <2>1, <2>2 DEF CandidateHolds
    <2>3. CASE claims[b] # None
      <3>1. PICK v \in Registered : v = claims[b].version
        BY <2>3, CandidateVersion
      <3>2. ApprovalCurrent(v)' <=> ApprovalCurrent(v)
        BY <1>1, VersionFrozen
      <3>3. PICK s, e : s = ruling[v] /\ s = ruling'[v] /\ e = verdict[b] /\ e = verdict'[b]
        BY <1>1
      <3>4. QED
        BY <2>1, <2>3, <3>1, <3>2, <3>3 DEF CandidateHolds, ClaimApprovable, BuildEvidenceCard, ApprovalCurrent
    <2>4. QED
      BY <2>2, <2>3
  <1>4. QED
    BY <1>2, <1>3

LEMMA SubmitSafe ==
  ASSUME ReviewSafe, NEW u \in Users, NEW c \in Claims, NEW v \in Registered, SubmitClaim(u, c, v)
  PROVE  ReviewSafe' /\ UNCHANGED sourceTables /\ UNCHANGED <<verdict, card>> /\ claims[c] = None
  <1>1. /\ ApprovalCurrent(v) /\ claims[c] = None
        /\ claims' = [claims EXCEPT ![c] = [version |-> v, by |-> u, status |-> "submitted"]]
        /\ UNCHANGED <<sourceTables, verdict, card, reading>>
    BY DEF SubmitClaim
  <1>2. PICK k \in ClaimCandidates : k = [version |-> v, by |-> u, status |-> "submitted"]
    BY VersionLevels DEF ReviewSafe, ClaimCandidates
  <1>3. \A b \in Claims : claims'[b] = IF b = c THEN k ELSE claims[b]
    BY <1>1, <1>2 DEF ReviewSafe, ReviewTypeOK
  <1>4. ReviewTypeOK'
    BY <1>1, <1>2 DEF ReviewSafe, ReviewTypeOK, sourceTables
  <1>5. CandidateHolds(c)'
    <2>1. verdict[c] = None /\ card[c] = None
      BY <1>1 DEF ReviewSafe, CandidateHolds
    <2>2. ApprovalCurrent(v)'
      BY <1>1, VersionFrozen DEF sourceTables, Registered
    <2>3. QED
      BY <1>1, <1>2, <1>3, <2>1, <2>2 DEF CandidateHolds, ApprovalCurrent
  <1>6. (\A w \in Versions : DecisionHolds(w)') /\ (\A b \in Claims \ {c} : CandidateHolds(b)')
    BY <1>1, <1>3, OtherCandidates
  <1>7. ASSUME NEW w \in Users PROVE ReadingHolds(w)'
    <2>1. CASE reading[w] = None
      BY <1>1, <2>1 DEF ReadingHolds
    <2>2. CASE reading[w] # None
      <3>1. PICK b \in Claims : b = reading[w].claim
        BY <2>2 DEF ReviewSafe, ReviewTypeOK, Readings
      <3>2. claims[b] # None /\ claims'[b] = claims[b] /\ ruling' = ruling
        BY <1>1, <1>3, <2>2, <3>1 DEF ReviewSafe, ReadingHolds, sourceTables
      <3>3. QED
        BY <1>1, <2>2, <3>1, <3>2 DEF ReviewSafe, ReadingHolds
    <2>3. QED
      BY <2>1, <2>2
  <1>8. QED
    BY <1>1, <1>4, <1>5, <1>6, <1>7 DEF ReviewSafe

LEMMA OpenSafe ==
  ASSUME ReviewSafe, NEW u \in Users, NEW c \in Claims, OpenClaimReview(u, c)
  PROVE  ReviewSafe' /\ UNCHANGED <<sourceTables, claimTables>>
  <1>1. /\ claims[c] # None /\ claims[c].status = "submitted" /\ CandidateFree(c)
        /\ reading' = [reading EXCEPT ![u] =
             [claim |-> c, decision |-> ruling[claims[c].version],
              level |-> EffectiveSourceLevel(claims[c].version)]]
        /\ UNCHANGED <<sourceTables, claimTables>>
    BY DEF OpenClaimReview, Undecided
  <1>2. PICK v \in Registered : v = claims[c].version /\ ruling[v] \in SourceDecisions
    BY <1>1, CandidateVersion
  <1>3. EffectiveSourceLevel(v) \in Levels
    BY EffectiveLevels DEF ReviewSafe
  <1>4. PICK r \in Readings : /\ r = [claim |-> c, decision |-> ruling[v],
                                      level |-> EffectiveSourceLevel(v)]
                              /\ r.claim = c /\ r.decision = ruling[v]
    <2>1. PICK d \in SourceDecisions, l \in Levels : d = ruling[v] /\ l = EffectiveSourceLevel(v)
      BY <1>2, <1>3
    <2>2. PICK r \in Readings : r = [claim |-> c, decision |-> d, level |-> l]
      BY DEF Readings
    <2>3. QED
      BY <2>1, <2>2
  <1>5. \A w \in Users : reading'[w] = IF w = u THEN r ELSE reading[w]
    BY <1>1, <1>2, <1>4 DEF ReviewSafe, ReviewTypeOK
  <1>6. ReviewTypeOK'
    BY <1>1, <1>2, <1>4 DEF ReviewSafe, ReviewTypeOK, sourceTables, claimTables
  <1>7. (\A w \in Versions : DecisionHolds(w)') /\ (\A b \in Claims : CandidateHolds(b)')
    <2>1. UNCHANGED <<claims, verdict, card>>
      BY <1>1 DEF claimTables
    <2>2. \A b \in Claims \ {c} : CandidateHolds(b)'
      BY <1>1, <2>1, OtherCandidates
    <2>3. \A w \in Versions : DecisionHolds(w)'
      BY <1>1, <2>1, OtherCandidates
    <2>4. ApprovalCurrent(v)' <=> ApprovalCurrent(v)
      BY <1>1, VersionFrozen DEF sourceTables, Registered
    <2>5. CandidateHolds(c)
      BY DEF ReviewSafe
    <2>6. CandidateHolds(c)'
      BY <1>1, <1>2, <2>1, <2>4, <2>5 DEF CandidateHolds, ApprovalCurrent
    <2>7. QED
      BY <2>2, <2>3, <2>6
  <1>8. UNCHANGED <<claims, ruling>>
    BY <1>1 DEF claimTables, sourceTables
  <1>9. ASSUME NEW w \in Users, reading'[w] # None PROVE ReadingHolds(w)'
    <2>1. CASE w = u
      BY <1>1, <1>2, <1>4, <1>5, <1>8, <2>1 DEF ReadingHolds, CandidateFree
    <2>2. CASE w # u
      BY <1>1, <1>4, <1>5, <1>8, <1>9, <2>2 DEF ReviewSafe, ReadingHolds, CandidateFree
    <2>3. QED
      BY <2>1, <2>2
  <1>10. QED
    BY <1>1, <1>6, <1>7, <1>9 DEF ReviewSafe, ReadingHolds

\* An open review ends, and with it changes at most its own candidate.
LEMMA CloseSafe ==
  ASSUME ReviewSafe, NEW u \in Users, NEW c \in Claims, reading[u] # None, reading[u].claim = c,
         reading' = [reading EXCEPT ![u] = None], UNCHANGED sourceTables,
         \A b \in Claims \ {c} :
           claims'[b] = claims[b] /\ verdict'[b] = verdict[b] /\ card'[b] = card[b],
         claims' \in [Claims -> ClaimCandidates \cup {None}],
         verdict' \in [Claims -> ClaimDecisions \cup {None}],
         card' \in [Claims -> EvidenceCards \cup {None}],
         CandidateHolds(c)'
  PROVE  ReviewSafe'
  <1>1. ReviewTypeOK'
    BY DEF ReviewSafe, ReviewTypeOK, sourceTables
  <1>2. (\A w \in Versions : DecisionHolds(w)') /\ (\A b \in Claims : CandidateHolds(b)')
    BY OtherCandidates
  <1>3. \A w \in Users : reading'[w] = IF w = u THEN None ELSE reading[w]
    BY DEF ReviewSafe, ReviewTypeOK
  <1>4. ASSUME NEW w \in Users, reading'[w] # None PROVE ReadingHolds(w)'
    <2>1. w # u /\ reading'[w] = reading[w] /\ ReadingHolds(w)
      BY <1>3, <1>4 DEF ReviewSafe
    <2>2. PICK b \in Claims : b = reading[w].claim
      BY <1>3, <1>4 DEF ReviewSafe, ReviewTypeOK, Readings
    <2>3. b # c
      BY <1>4, <2>1, <2>2 DEF ReadingHolds
    <2>4. claims'[b] = claims[b] /\ ruling' = ruling
      BY <2>3 DEF sourceTables
    <2>5. QED
      BY <1>3, <1>4, <2>1, <2>2, <2>4 DEF ReadingHolds
  <1>5. QED
    BY <1>1, <1>2, <1>4 DEF ReviewSafe, ReadingHolds

\* What an open review knows.
LEMMA OpenReview ==
  ASSUME ReviewSafe, NEW u \in Users, reading[u] # None
  PROVE  \E c \in Claims, v \in Registered :
           /\ reading[u] \in Readings /\ reading[u].claim = c
           /\ claims[c] \in ClaimCandidates /\ claims[c].version = v
           /\ claims[c].status = "submitted"
           /\ reading[u].decision = ruling[v] /\ ruling[v] \in SourceDecisions
           /\ ruling[v].approved /\ ApprovalCurrent(v)
           /\ verdict[c] = None /\ card[c] = None
  <1>1. PICK c \in Claims : reading[u] \in Readings /\ reading[u].claim = c
    BY DEF ReviewSafe, ReviewTypeOK, Readings
  <1>2. /\ claims[c] # None /\ claims[c].status = "submitted"
        /\ reading[u].decision = ruling[claims[c].version]
    BY <1>1 DEF ReviewSafe, ReadingHolds
  <1>3. verdict[c] = None /\ card[c] = None
    BY <1>2 DEF ReviewSafe, CandidateHolds
  <1>4. QED
    BY <1>1, <1>2, <1>3, CandidateVersion

LEMMA ApproveSafe ==
  ASSUME ReviewSafe, NEW d \in ClaimDecisions, ApproveClaim(d)
  PROVE  /\ ReviewSafe' /\ UNCHANGED sourceTables
         /\ \E c \in Claims :
              /\ claims[c] # None /\ verdict[c] = None /\ card[c] = None
              /\ claims' = [claims EXCEPT ![c].status = "approved"]
              /\ \A b \in Claims \ {c} : verdict'[b] = verdict[b] /\ card'[b] = card[b]
  <1>1. d.by \in Users /\ reading[d.by] # None /\ d.approved
    BY ClaimDecisionTypes DEF ApproveClaim
  <1>2. PICK c \in Claims, v \in Registered :
           /\ reading[d.by] \in Readings /\ reading[d.by].claim = c
           /\ claims[c] \in ClaimCandidates /\ claims[c].version = v
           /\ claims[c].status = "submitted"
           /\ reading[d.by].decision = ruling[v] /\ ruling[v] \in SourceDecisions
           /\ ruling[v].approved /\ ApprovalCurrent(v)
           /\ verdict[c] = None /\ card[c] = None
    BY <1>1, OpenReview
  <1>3. PICK s \in SourceDecisions : s = ruling[v]
    BY <1>2
  <1>4. BuildEvidenceCard(d, s) \in EvidenceCards
    BY <1>1, <1>2, <1>3, DecisionTypes, ClaimDecisionTypes DEF BuildEvidenceCard, EvidenceCards
  <1>5. /\ ClaimApprovable(d, s)
        /\ verdict' = [verdict EXCEPT ![c] = d]
        /\ card' = [card EXCEPT ![c] = BuildEvidenceCard(d, s)]
        /\ claims' = [claims EXCEPT ![c].status = "approved"]
        /\ reading' = [reading EXCEPT ![d.by] = None]
        /\ UNCHANGED sourceTables
    BY <1>2, <1>3 DEF ApproveClaim
  <1>6. /\ claims' \in [Claims -> ClaimCandidates \cup {None}]
        /\ claims'[c].version = v /\ claims'[c].status = "approved" /\ claims'[c] \in ClaimCandidates
        /\ \A b \in Claims \ {c} : claims'[b] = claims[b]
    <2> DEFINE k == [claims[c] EXCEPT !.status = "approved"]
    <2>1. k \in ClaimCandidates /\ k.version = v /\ k.status = "approved"
      BY <1>2 DEF ClaimCandidates
    <2>2. claims' = [claims EXCEPT ![c] = k]
      BY <1>5
    <2> HIDE DEF k
    <2>3. QED
      BY <2>1, <2>2 DEF ReviewSafe, ReviewTypeOK
  <1>7. /\ verdict' \in [Claims -> ClaimDecisions \cup {None}] /\ verdict'[c] = d
        /\ card' \in [Claims -> EvidenceCards \cup {None}] /\ card'[c] = BuildEvidenceCard(d, s)
        /\ \A b \in Claims \ {c} : verdict'[b] = verdict[b] /\ card'[b] = card[b]
    BY <1>4, <1>5 DEF ReviewSafe, ReviewTypeOK
  <1>8. ApprovalCurrent(v)' /\ ruling'[v] = s
    BY <1>2, <1>3, <1>5, VersionFrozen DEF sourceTables, Registered
  <1>9. CandidateHolds(c)'
    <2>1. card'[c] # None /\ claims'[c] # None /\ verdict'[c] # None
      BY <1>4, <1>6, <1>7, NoRowIsNone
    <2>2. QED
      BY <1>1, <1>5, <1>6, <1>7, <1>8, <2>1
         DEF CandidateHolds, ClaimApprovable, BuildEvidenceCard, ApprovalCurrent
  <1>10. ReviewSafe'
    BY <1>1, <1>2, <1>5, <1>6, <1>7, <1>9, CloseSafe
  <1>11. claims[c] # None
    BY <1>1, <1>2 DEF ReviewSafe, ReadingHolds
  <1>12. QED
    BY <1>2, <1>5, <1>7, <1>10, <1>11

LEMMA RejectSafe ==
  ASSUME ReviewSafe, NEW u \in Users, RejectClaim(u)
  PROVE  /\ ReviewSafe' /\ UNCHANGED sourceTables
         /\ \E c \in Claims :
              /\ claims[c] # None /\ verdict[c] = None /\ card[c] = None
              /\ claims' = [claims EXCEPT ![c].status = "rejected"]
              /\ \A b \in Claims \ {c} : verdict'[b] = verdict[b] /\ card'[b] = card[b]
  <1>1. reading[u] # None
    BY DEF RejectClaim
  <1>2. PICK c \in Claims, v \in Registered :
           /\ reading[u] \in Readings /\ reading[u].claim = c
           /\ claims[c] \in ClaimCandidates /\ claims[c].version = v
           /\ claims[c].status = "submitted"
           /\ reading[u].decision = ruling[v] /\ ruling[v] \in SourceDecisions
           /\ ruling[v].approved /\ ApprovalCurrent(v)
           /\ verdict[c] = None /\ card[c] = None
    BY <1>1, OpenReview
  <1>3. PICK e \in ClaimDecisions :
          e = [by |-> u, approved |-> FALSE, storage |-> 0, eligibility |-> 0,
               level |-> reading[u].level]
    <2>1. PICK l \in Levels : l = reading[u].level
      BY <1>2 DEF Readings
    <2>2. [by |-> u, approved |-> FALSE, storage |-> 0, eligibility |-> 0, level |-> l]
            \in ClaimDecisions
      BY DEF ClaimDecisions
    <2>3. QED
      BY <2>1, <2>2
  <1>4. /\ verdict' = [verdict EXCEPT ![c] = e]
        /\ claims' = [claims EXCEPT ![c].status = "rejected"]
        /\ reading' = [reading EXCEPT ![u] = None]
        /\ UNCHANGED sourceTables /\ UNCHANGED card
    BY <1>2, <1>3 DEF RejectClaim
  <1>5. /\ claims' \in [Claims -> ClaimCandidates \cup {None}]
        /\ claims'[c].version = v /\ claims'[c].status = "rejected" /\ claims'[c] \in ClaimCandidates
        /\ \A b \in Claims \ {c} : claims'[b] = claims[b]
    <2> DEFINE k == [claims[c] EXCEPT !.status = "rejected"]
    <2>1. k \in ClaimCandidates /\ k.version = v /\ k.status = "rejected"
      BY <1>2 DEF ClaimCandidates
    <2>2. claims' = [claims EXCEPT ![c] = k]
      BY <1>4
    <2> HIDE DEF k
    <2>3. QED
      BY <2>1, <2>2 DEF ReviewSafe, ReviewTypeOK
  <1>6. /\ verdict' \in [Claims -> ClaimDecisions \cup {None}]
        /\ card' \in [Claims -> EvidenceCards \cup {None}]
        /\ \A b \in Claims \ {c} : verdict'[b] = verdict[b] /\ card'[b] = card[b]
    BY <1>4 DEF ReviewSafe, ReviewTypeOK
  <1>7. ApprovalCurrent(v)'
    BY <1>2, <1>4, VersionFrozen DEF sourceTables, Registered
  <1>8. claims[c] # None
    BY <1>1, <1>2 DEF ReviewSafe, ReadingHolds
  <1>9. CandidateHolds(c)'
    BY <1>5, <1>7, NoRowIsNone DEF CandidateHolds, ApprovalCurrent
  <1>10. ReviewSafe'
    BY <1>1, <1>2, <1>4, <1>5, <1>6, <1>9, CloseSafe
  <1>11. QED
    BY <1>2, <1>4, <1>6, <1>8, <1>10

LEMMA AbandonSafe ==
  ASSUME ReviewSafe, NEW u \in Users, AbandonClaimReview(u)
  PROVE  ReviewSafe' /\ UNCHANGED <<sourceTables, claimTables>>
  <1>1. /\ reading[u] # None /\ reading' = [reading EXCEPT ![u] = None]
        /\ UNCHANGED <<sourceTables, claimTables>>
    BY DEF AbandonClaimReview
  <1>2. PICK c \in Claims, v \in Registered :
          /\ reading[u].claim = c /\ claims[c].version = v
          /\ ApprovalCurrent(v) /\ CandidateHolds(c)
    BY <1>1, OpenReview DEF ReviewSafe
  <1>3. UNCHANGED <<claims, verdict, card>>
    BY <1>1 DEF claimTables
  <1>4. ApprovalCurrent(v)' /\ ruling'[v] = ruling[v]
    BY <1>1, <1>2, VersionFrozen DEF sourceTables, Registered
  <1>5. CandidateHolds(c)'
    BY <1>1, <1>2, <1>3, <1>4 DEF CandidateHolds, ApprovalCurrent, sourceTables
  <1>6. QED
    BY <1>1, <1>2, <1>3, <1>5, CloseSafe DEF ReviewSafe, ReviewTypeOK

-----------------------------------------------------------------------------
(* All steps.                                                               *)

LEMMA InitSafe == ReviewInit => ReviewSafe
  <1> SUFFICES ASSUME ReviewInit PROVE ReviewSafe
    OBVIOUS
  <1>1. 1 \in Versions /\ MaxVersion >= 1
    BY ReviewConstants DEF Versions
  <1>2. CASE versions = <<>> /\ requests = [v \in Versions |-> <<>>]
    <2>1. /\ \A v \in Versions : requests[v] \in Seq(PermissionRequests)
          /\ versions \in Seq(SubmittedVersions) /\ Len(versions) <= MaxVersion
      <3>1. \A S : <<>> \in Seq(S)
        OBVIOUS
      <3>2. Len(versions) = 0
        BY <1>2
      <3>3. QED
        BY <1>1, <1>2, <3>1, <3>2, ReviewConstants
    <2>2. QED
      BY <1>2, <2>1
         DEF ReviewInit, ReviewSafe, ReviewTypeOK, DecisionHolds, CandidateHolds, ReadingHolds
  <1>3. CASE \E old \in SubmittedVersions, q \in PermissionRequests :
               /\ q.by = old.by /\ versions = <<old>>
               /\ requests = [v \in Versions |-> IF v = 1 THEN <<q>> ELSE <<>>]
    <2>1. PICK old \in SubmittedVersions, q \in PermissionRequests :
            /\ versions = <<old>>
            /\ requests = [v \in Versions |-> IF v = 1 THEN <<q>> ELSE <<>>]
      BY <1>3
    <2>2. <<old>> \in Seq(SubmittedVersions) /\ Len(<<old>>) = 1
          /\ <<q>> \in Seq(PermissionRequests) /\ <<>> \in Seq(PermissionRequests)
      OBVIOUS
    <2>3. \A v \in Versions : requests[v] \in Seq(PermissionRequests)
      BY <2>1, <2>2
    <2>4. versions \in Seq(SubmittedVersions) /\ Len(versions) <= MaxVersion
      BY <1>1, <2>1, <2>2
    <2>5. QED
      BY <2>1, <2>3, <2>4
         DEF ReviewInit, ReviewSafe, ReviewTypeOK, DecisionHolds, CandidateHolds, ReadingHolds
  <1>4. QED
    BY <1>2, <1>3 DEF ReviewInit

LEMMA StutterSafe ==
  ASSUME ReviewSafe, UNCHANGED reviewVars
  PROVE  ReviewSafe'
  <1>1. UNCHANGED <<versions, requests, ruling, claims, verdict, card, reading>>
    BY DEF reviewVars, sourceTables, claimTables
  <1>2. ReviewTypeOK'
    BY <1>1 DEF ReviewSafe, ReviewTypeOK
  <1>3. (\A c \in Claims : CandidateHolds(c)') /\ (\A u \in Users : ReadingHolds(u)')
    BY <1>1, ClaimsFrozen DEF claimTables, Registered
  <1>4. \A v \in Versions : DecisionHolds(v)'
    BY <1>1, VersionFrozen DEF ReviewSafe, DecisionHolds, Registered
  <1>5. QED
    BY <1>2, <1>3, <1>4 DEF ReviewSafe

LEMMA NextSafe == ReviewSafe /\ [ReviewNext]_reviewVars => ReviewSafe'
  <1> SUFFICES ASSUME ReviewSafe, [ReviewNext]_reviewVars PROVE ReviewSafe'
    OBVIOUS
  <1>1. CASE UNCHANGED reviewVars
    BY <1>1, StutterSafe
  <1>2. ASSUME NEW q \in PermissionRequests, NEW l \in Levels,
               RegisterSource(q.by, l, q) \/ AddSourceVersion(q.by, l, q)
        PROVE  ReviewSafe'
    BY <1>2, NewVersionSafe
  <1>3. ASSUME NEW q \in PermissionRequests, NEW v \in Registered,
               AddSourcePermissionRequest(q.by, v, q)
        PROVE  ReviewSafe'
    BY <1>3, RequestSafe
  <1>4. ASSUME NEW d \in SourceDecisions, NEW v \in Registered, ReviewSource(v, d)
        PROVE  ReviewSafe'
    BY <1>4, SourceReviewSafe
  <1>5. ASSUME NEW u \in Users, NEW c \in Claims, NEW v \in Registered, SubmitClaim(u, c, v)
        PROVE  ReviewSafe'
    BY <1>5, SubmitSafe
  <1>6. ASSUME NEW u \in Users, NEW c \in Claims, OpenClaimReview(u, c) PROVE ReviewSafe'
    BY <1>6, OpenSafe
  <1>7. ASSUME NEW d \in ClaimDecisions, ApproveClaim(d) PROVE ReviewSafe'
    BY <1>7, ApproveSafe
  <1>8. ASSUME NEW u \in Users, RejectClaim(u) \/ AbandonClaimReview(u) PROVE ReviewSafe'
    BY <1>8, RejectSafe, AbandonSafe
  <1>9. QED
    BY <1>1, <1>2, <1>3, <1>4, <1>5, <1>6, <1>7, <1>8 DEF ReviewNext

\* Every reachable state of versions, requests, decisions, Claims and reviews is well-typed.
THEOREM TypeCorrect == ReviewSpec => []ReviewTypeOK
  <1>1. ReviewSafe => ReviewTypeOK
    BY DEF ReviewSafe
  <1>2. QED
    BY <1>1, InitSafe, NextSafe, PTL DEF ReviewSpec

-----------------------------------------------------------------------------
(* Approvals and cards stay current.                                        *)

LEMMA SafeApprovals == ReviewSafe => ApprovalsStayCurrent
  <1> SUFFICES ASSUME ReviewSafe, NEW v \in Versions, SourceState(v) = "approved"
               PROVE  ApprovalCurrent(v) <=>
                        /\ ruling[v].extraction = 2 \/ ruling[v].scope = {}
                        /\ WellShaped(requests[v][ruling[v].request])
    BY DEF ApprovalsStayCurrent
  <1>1. ruling[v] # None /\ ruling[v].approved
    BY DEF SourceState
  <1>2. /\ ChainSound(v, ruling[v].request) /\ ruling[v].by \notin Submitters(v)
        /\ Approvable(ruling[v], v)
    BY <1>1 DEF ReviewSafe, DecisionHolds
  <1>3. WithinRequest(ruling[v], requests[v][ruling[v].request])
          <=> ruling[v].extraction = 2 \/ ruling[v].scope = {}
    BY <1>2 DEF WithinRequest, Approvable
  <1>4. QED
    BY <1>1, <1>2, <1>3 DEF ApprovalCurrent

\* review_source and require_current_source_approval: what one of them approves, the
\* other accepts for good, apart from the two shapes that the run exhibits.
THEOREM ApprovalsRemainCurrent == ReviewSpec => []ApprovalsStayCurrent
  BY SafeApprovals, InitSafe, NextSafe, PTL DEF ReviewSpec

LEMMA ShowsLess ==
  ASSUME NEW u, NEW l \in Levels, NEW m \in Levels, l <= m, Shows(u, m)
  PROVE  Shows(u, l)
  BY ReviewConstants DEF Shows

\* The policies of an approved candidate, and what its readers derive from them.
LEMMA ApprovedCandidate ==
  ASSUME ReviewSafe, NEW c \in Claims, claims[c] # None, claims[c].status = "approved"
  PROVE  /\ CardCurrent(c) <=> verdict[c].eligibility <= ruling[claims[c].version].eligibility
         /\ EvidenceUsable(c) <=> CardCurrent(c)
         /\ EvidenceStorable(c) <=> CardCurrent(c)
         /\ \A u \in Users : EvidenceVisible(u, c) <=> ClaimVisible(u, c)
  <1>1. PICK v \in Registered : v = claims[c].version /\ v \in Versions
    BY CandidateVersion, VersionLevels DEF ReviewSafe
  <1>2. PICK d \in SourceDecisions : d = ruling[v] /\ d.approved
    BY <1>1, CandidateVersion
  <1>3. PICK e \in ClaimDecisions : e = verdict[c] /\ e.approved /\ ClaimApprovable(e, d)
    <2>1. card[c] # None /\ card[c] = BuildEvidenceCard(verdict[c], d)
          /\ verdict[c] # None /\ verdict[c].approved /\ ClaimApprovable(verdict[c], d)
      BY <1>1, <1>2 DEF ReviewSafe, CandidateHolds, ClaimApprovable, BuildEvidenceCard
    <2>2. verdict[c] \in ClaimDecisions
      BY <2>1 DEF ReviewSafe, ReviewTypeOK
    <2>3. QED
      BY <2>1, <2>2
  <1>4. /\ card[c] # None /\ card[c] \in EvidenceCards /\ card[c] = BuildEvidenceCard(e, d)
        /\ ApprovalCurrent(v) /\ Approvable(d, v)
    BY <1>1, <1>2, <1>3 DEF ReviewSafe, ReviewTypeOK, CandidateHolds, DecisionHolds,
                          BuildEvidenceCard, Approvable, ApprovalCurrent
  <1>5. /\ d.extraction >= 2 /\ d.extraction \in 0..3
        /\ d.eligibility >= 2 /\ d.eligibility \in 0..3 /\ d.storage \in 0..2
    BY <1>2, <1>4, DecisionTypes, ReviewConstants DEF Approvable
  <1>6. /\ e.eligibility >= 2 /\ e.eligibility \in 0..3
        /\ e.storage >= 1 /\ e.storage <= d.storage /\ e.storage \in 0..2
        /\ e.level >= d.level /\ e.level \in 0..3 /\ d.level \in 0..3
    BY <1>2, <1>3, DecisionTypes, ClaimDecisionTypes, ReviewConstants DEF ClaimApprovable
  <1>7. /\ card[c].extraction = d.extraction /\ card[c].storage = e.storage
        /\ card[c].eligibility = e.eligibility /\ card[c].level = e.level
    BY <1>4 DEF BuildEvidenceCard
  <1>8. Smaller(d.storage, e.storage) = e.storage /\ Larger(d.level, e.level) = e.level
    BY <1>5, <1>6 DEF Smaller, Larger
  <1>9. Smaller(d.eligibility, e.eligibility) = e.eligibility <=> e.eligibility <= d.eligibility
    BY <1>5, <1>6 DEF Smaller
  <1>10. PoliciesMatch(c) <=> e.eligibility <= d.eligibility
    <2>1. CASE e.eligibility <= d.eligibility
      <3>1. Smaller(d.eligibility, e.eligibility) = e.eligibility
        BY <1>9, <2>1
      <3>2. card[c] = [extraction |-> d.extraction, storage |-> Smaller(d.storage, e.storage),
                       eligibility |-> Smaller(d.eligibility, e.eligibility),
                       level |-> Larger(d.level, e.level)]
        BY <1>4, <1>8, <3>1 DEF BuildEvidenceCard
      <3>3. d.storage >= 1
        BY <1>5, <1>6
      <3>4. QED
        BY <1>1, <1>2, <1>3, <1>5, <1>6, <1>7, <2>1, <3>2, <3>3 DEF PoliciesMatch
    <2>2. CASE PoliciesMatch(c)
      <3>1. Smaller(d.eligibility, e.eligibility) = card[c].eligibility
        BY <1>1, <1>2, <1>3, <2>2 DEF PoliciesMatch
      <3>2. QED
        BY <1>7, <1>9, <2>2, <3>1
    <2>3. QED
      BY <2>1, <2>2
  <1>11. Projectable(card[c])
    BY <1>6, <1>7 DEF Projectable
  <1>12. CardCurrent(c) <=> verdict[c].eligibility <= ruling[claims[c].version].eligibility
    BY <1>1, <1>2, <1>3, <1>4, <1>10, <1>11 DEF CardCurrent
  <1>13. EvidenceStorable(c) <=> CardCurrent(c)
    BY DEF EvidenceStorable, CardCurrent
  <1>14. EvidenceUsable(c) <=> CardCurrent(c)
    <2>1. \A policy \in {"level", "storage", "eligibility"} : card[c][policy] = verdict[c][policy]
      BY <1>3, <1>7
    <2>2. QED
      BY <2>1 DEF EvidenceUsable, CardCurrent
  <1>15. ASSUME NEW u \in Users PROVE EvidenceVisible(u, c) <=> ClaimVisible(u, c)
    <2>1. /\ EffectiveSourceLevel(v) \in Levels /\ LevelsOf(v) \subseteq Levels
          /\ \A l \in LevelsOf(v) : EffectiveSourceLevel(v) >= l
      BY EffectiveLevels, VersionLevels DEF ReviewSafe
    <2>2. DecisionLevels(c) = {e.level} /\ SourceLevel(v) \in LevelsOf(v) /\ e.level \in LevelsOf(v)
      <3>1. DecisionLevels(c) = {e.level}
        <4>1. verdict[c] # None
          BY DEF ReviewSafe, CandidateHolds
        <4>2. QED
          BY <1>3, <1>4, <1>7, <4>1 DEF DecisionLevels
      <3>2. QED
        BY <1>1, <3>1 DEF LevelsOf
    <2>3. EffectiveClaimLevel(c) \in {SourceLevel(v), e.level}
      <3>1. {SourceLevel(v), e.level} \in SUBSET (0..3)
        BY <2>1, <2>2, ReviewConstants
      <3>2. Max({SourceLevel(v), e.level}) \in {SourceLevel(v), e.level}
        BY <3>1, LargestLevel
      <3>3. EffectiveClaimLevel(c) = Max({SourceLevel(v)} \cup {e.level})
        BY <1>1, <2>2 DEF EffectiveClaimLevel
      <3>4. {SourceLevel(v)} \cup {e.level} = {SourceLevel(v), e.level}
        OBVIOUS
      <3>5. QED
        BY <3>2, <3>3, <3>4
    <2>4. ASSUME NEW l \in LevelsOf(v), Shows(u, EffectiveSourceLevel(v)) PROVE Shows(u, l)
      <3>1. l \in Levels /\ l <= EffectiveSourceLevel(v)
        BY <2>1, ReviewConstants
      <3>2. QED
        BY <2>1, <2>4, <3>1, ShowsLess
    <2>5. EvidenceVisible(u, c) <=> Shows(u, EffectiveSourceLevel(v))
      BY <1>1, <1>3, <1>7, <2>2, <2>4 DEF EvidenceVisible
    <2>6. ClaimVisible(u, c) <=> Shows(u, EffectiveSourceLevel(v))
      BY <1>1, <1>4, <2>2, <2>3, <2>4 DEF ClaimVisible
    <2>7. QED
      BY <2>5, <2>6
  <1>16. QED
    BY <1>12, <1>13, <1>14, <1>15

\* review_claim: each candidate rests on a current approval, and an approved one has the
\* card that the reads, the mappings and the manifests derive again.
THEOREM CardsRemainCurrent == ReviewSpec => []CardsStayCurrent
  <1>1. ReviewSafe => CardsStayCurrent
    BY CandidateVersion, ApprovedCandidate DEF CardsStayCurrent
  <1>2. QED
    BY <1>1, InitSafe, NextSafe, PTL DEF ReviewSpec

-----------------------------------------------------------------------------
(* Classification.                                                          *)

LEMMA LevelIsLargest ==
  ReviewTypeOK => \A v \in Registered :
    /\ EffectiveSourceLevel(v) \in LevelsOf(v) /\ EffectiveSourceLevel(v) \in Levels
    /\ \A l \in LevelsOf(v) : EffectiveSourceLevel(v) >= l
    /\ SourceLevel(v) \in Levels
  BY EffectiveLevels, VersionLevels

LEMMA LevelIsLargestNext ==
  ReviewTypeOK' => \A v \in Registered' :
    /\ EffectiveSourceLevel(v)' \in LevelsOf(v)' /\ EffectiveSourceLevel(v)' \in Levels
    /\ \A l \in LevelsOf(v)' : EffectiveSourceLevel(v)' >= l
    /\ SourceLevel(v)' \in Levels
  <1>1. (ReviewTypeOK => \A v \in Registered :
           /\ EffectiveSourceLevel(v) \in LevelsOf(v) /\ EffectiveSourceLevel(v) \in Levels
           /\ \A l \in LevelsOf(v) : EffectiveSourceLevel(v) >= l
           /\ SourceLevel(v) \in Levels)'
    BY LevelIsLargest, PTL
  <1>2. QED
    BY <1>1

LEMMA LevelsGrow ==
  ASSUME ReviewSafe, ReviewSafe', NEW v \in Registered, v \in Registered',
         SourceLevel(v)' >= SourceLevel(v),
         \A c \in Claims : claims[c] # None =>
           /\ claims'[c] # None /\ claims'[c].version = claims[c].version
           /\ DecisionLevels(c) \subseteq DecisionLevels(c)'
  PROVE  EffectiveSourceLevel(v)' >= EffectiveSourceLevel(v)
  <1>1. EffectiveSourceLevel(v) \in LevelsOf(v) /\ EffectiveSourceLevel(v) \in 0..3
    BY EffectiveLevels, ReviewConstants DEF ReviewSafe
  <1>2. /\ EffectiveSourceLevel(v)' \in 0..3
        /\ \A l \in LevelsOf(v)' : EffectiveSourceLevel(v)' >= l
    BY LevelIsLargestNext, ReviewConstants DEF ReviewSafe
  <1>3. CASE EffectiveSourceLevel(v) = SourceLevel(v)
    <2>1. SourceLevel(v)' \in LevelsOf(v)' /\ SourceLevel(v)' \in 0..3
      BY LevelIsLargestNext, ReviewConstants DEF LevelsOf, ReviewSafe
    <2>2. QED
      BY <1>1, <1>2, <1>3, <2>1
  <1>4. CASE EffectiveSourceLevel(v) # SourceLevel(v)
    <2>1. PICK c \in Claims : /\ claims[c] # None /\ claims[c].version = v
                              /\ EffectiveSourceLevel(v) \in DecisionLevels(c)
      BY <1>1, <1>4 DEF LevelsOf
    <2>2. EffectiveSourceLevel(v) \in LevelsOf(v)'
      BY <2>1 DEF LevelsOf
    <2>3. QED
      BY <1>2, <2>2
  <1>5. QED
    BY <1>3, <1>4

LEMMA SameLevels ==
  ASSUME UNCHANGED claimTables
  PROVE  \A c \in Claims : claims[c] # None =>
           /\ claims'[c] # None /\ claims'[c].version = claims[c].version
           /\ DecisionLevels(c) \subseteq DecisionLevels(c)'
  BY DEF claimTables, DecisionLevels

\* The decision about one candidate is the first.
LEMMA DecidedLevels ==
  ASSUME ReviewSafe, NEW c \in Claims, NEW s \in {"approved", "rejected"},
         claims[c] # None, verdict[c] = None, card[c] = None,
         claims' = [claims EXCEPT ![c].status = s],
         \A b \in Claims \ {c} : verdict'[b] = verdict[b] /\ card'[b] = card[b]
  PROVE  \A b \in Claims : claims[b] # None =>
           /\ claims'[b] # None /\ claims'[b].version = claims[b].version
           /\ DecisionLevels(b) \subseteq DecisionLevels(b)'
  <1> SUFFICES ASSUME NEW b \in Claims, claims[b] # None
               PROVE  /\ claims'[b] # None /\ claims'[b].version = claims[b].version
                      /\ DecisionLevels(b) \subseteq DecisionLevels(b)'
    OBVIOUS
  <1>1. CASE b = c
    <2>1. claims[c] \in ClaimCandidates
      BY CandidateVersion
    <2>2. claims'[c] = [claims[c] EXCEPT !.status = s]
      BY DEF ReviewSafe, ReviewTypeOK
    <2>3. claims'[c].version = claims[c].version /\ claims'[c] \in ClaimCandidates
      BY <2>1, <2>2 DEF ClaimCandidates
    <2>4. DecisionLevels(c) = {}
      BY DEF DecisionLevels
    <2>5. QED
      BY <1>1, <2>3, <2>4, NoRowIsNone
  <1>2. CASE b # c
    BY <1>2 DEF ReviewSafe, ReviewTypeOK, DecisionLevels
  <1>3. QED
    BY <1>1, <1>2

LEMMA ClassificationStep ==
  ASSUME ReviewSafe, ReviewSafe', [ReviewNext]_reviewVars, NEW v \in Registered
  PROVE  EffectiveSourceLevel(v)' >= EffectiveSourceLevel(v)
  <1>1. v \in Versions /\ versions[v] \in SubmittedVersions /\ SourceLevel(v) \in 0..3
    BY VersionLevels, ReviewConstants DEF ReviewSafe
  <1>2. ASSUME UNCHANGED claimTables, v \in Registered', SourceLevel(v)' >= SourceLevel(v)
        PROVE  EffectiveSourceLevel(v)' >= EffectiveSourceLevel(v)
    BY <1>2, SameLevels, LevelsGrow
  <1>3. ASSUME UNCHANGED <<versions, ruling>>
        PROVE  v \in Registered' /\ SourceLevel(v)' >= SourceLevel(v)
    BY <1>1, <1>3 DEF Registered, SourceLevel
  <1>4. CASE UNCHANGED reviewVars
    BY <1>2, <1>3, <1>4 DEF reviewVars, sourceTables
  <1>5. ASSUME NEW q \in PermissionRequests, NEW l \in Levels,
               RegisterSource(q.by, l, q) \/ AddSourceVersion(q.by, l, q)
        PROVE  EffectiveSourceLevel(v)' >= EffectiveSourceLevel(v)
    <2>1. /\ UNCHANGED <<claimTables, ruling>>
          /\ v \in Registered' /\ versions'[v] = versions[v]
      BY <1>5, NewVersionSafe
    <2>2. QED
      BY <1>1, <1>2, <2>1 DEF SourceLevel
  <1>6. ASSUME NEW q \in PermissionRequests, NEW w \in Registered,
               AddSourcePermissionRequest(q.by, w, q)
        PROVE  EffectiveSourceLevel(v)' >= EffectiveSourceLevel(v)
    BY <1>2, <1>3, <1>6, RequestSafe
  <1>7. ASSUME NEW d \in SourceDecisions, NEW w \in Registered, ReviewSource(w, d)
        PROVE  EffectiveSourceLevel(v)' >= EffectiveSourceLevel(v)
    <2>1. /\ UNCHANGED <<versions, claimTables>> /\ ruling[w] = None /\ ruling'[w] = d
          /\ \A x \in Versions \ {w} : ruling'[x] = ruling[x]
      BY <1>7, SourceReviewSafe
    <2>2. v \in Registered' /\ versions'[v] = versions[v]
      BY <2>1 DEF Registered
    <2>3. versions[v].level \in 0..3 /\ d.level \in 0..3
      BY <1>1, DecisionTypes, ReviewConstants DEF SubmittedVersions
    <2>4. CASE v = w
      BY <1>2, <2>1, <2>2, <2>3, <2>4 DEF SourceLevel, Larger
    <2>5. CASE v # w
      BY <1>1, <1>2, <2>1, <2>2, <2>5 DEF SourceLevel
    <2>6. QED
      BY <2>4, <2>5
  <1>8. ASSUME NEW u \in Users, NEW c \in Claims, NEW w \in Registered, SubmitClaim(u, c, w)
        PROVE  EffectiveSourceLevel(v)' >= EffectiveSourceLevel(v)
    <2>1. UNCHANGED <<versions, ruling, verdict, card>> /\ claims[c] = None
      BY <1>8, SubmitSafe DEF sourceTables
    <2>2. \A b \in Claims \ {c} : claims'[b] = claims[b]
      BY <1>8 DEF SubmitClaim, ReviewSafe, ReviewTypeOK
    <2>3. \A b \in Claims : claims[b] # None =>
            /\ claims'[b] # None /\ claims'[b].version = claims[b].version
            /\ DecisionLevels(b) \subseteq DecisionLevels(b)'
      BY <2>1, <2>2 DEF DecisionLevels
    <2>4. QED
      BY <1>3, <2>1, <2>3, LevelsGrow
  <1>9. ASSUME NEW u \in Users, NEW c \in Claims, OpenClaimReview(u, c)
        PROVE  EffectiveSourceLevel(v)' >= EffectiveSourceLevel(v)
    BY <1>2, <1>3, <1>9, OpenSafe DEF sourceTables
  <1>10. ASSUME NEW d \in ClaimDecisions, ApproveClaim(d)
         PROVE  EffectiveSourceLevel(v)' >= EffectiveSourceLevel(v)
    <2>1. UNCHANGED <<versions, ruling>>
      BY <1>10, ApproveSafe DEF sourceTables
    <2>2. QED
      BY <1>3, <1>10, <2>1, ApproveSafe, DecidedLevels, LevelsGrow
  <1>11. ASSUME NEW u \in Users, RejectClaim(u)
         PROVE  EffectiveSourceLevel(v)' >= EffectiveSourceLevel(v)
    <2>1. UNCHANGED <<versions, ruling>>
      BY <1>11, RejectSafe DEF sourceTables
    <2>2. QED
      BY <1>3, <1>11, <2>1, RejectSafe, DecidedLevels, LevelsGrow
  <1>12. ASSUME NEW u \in Users, AbandonClaimReview(u)
         PROVE  EffectiveSourceLevel(v)' >= EffectiveSourceLevel(v)
    BY <1>2, <1>3, <1>12, AbandonSafe DEF sourceTables
  <1>13. QED
    BY <1>4, <1>5, <1>6, <1>7, <1>8, <1>9, <1>10, <1>11, <1>12 DEF ReviewNext

\* review_source and review_claim: no decision, also one of a review that read the
\* Source before it was raised, lowers a version's effective classification.
THEOREM ClassificationIsMonotone == ReviewSpec => ClassificationNeverLowers
  <1>1. ReviewSafe /\ ReviewSafe' /\ [ReviewNext]_reviewVars =>
          [\A v \in Registered : EffectiveSourceLevel(v)' >= EffectiveSourceLevel(v)]_reviewVars
    BY ClassificationStep
  <1>2. QED
    BY <1>1, InitSafe, NextSafe, PTL DEF ReviewSpec, ClassificationNeverLowers
=============================================================================
