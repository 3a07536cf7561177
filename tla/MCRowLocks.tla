----------------------------- MODULE MCRowLocks -----------------------------
(* The services whose transactions lock one row after another, for TLC:     *)
(* activations, mapping reviews, and manifests beside mapping reviews.      *)
(* Activations share no row with the others, so each is a part of its own:  *)
(* the part is chosen in the initial state.                                 *)
EXTENDS CorpusActivation, ManifestGovernance, TLC

CONSTANTS
  op, both, rev,              \* accounts: an operator, one with both roles, a reviewer
  A, B, pA, pB, qA, qB, rAB,  \* entities and mapping proposals
  t1, m1,                     \* a thread and a manifest
  w1, w2, w3, production, preview  \* activating threads and scopes

Pay == [p \in Proposals |->
  CASE p \in {pA, qA} -> [kind |-> "entity", name |-> A]
    [] p \in {pB, qB} -> [kind |-> "entity", name |-> B]
    [] p = rAB -> [kind |-> "relationship", source |-> A, target |-> B]]

ItemsOfManifests == m1 :> {AssertionItem(A, B, 1)}
OrderOfIds == <<A, B>>

VARIABLE part  \* what is checked

lockVars == <<vars, storageVars, part>>

\* What op has proposed and both has approved: two entities and their relationship.
RegistryFilled ==
  /\ registry = [e \in Entities |-> CanonicalEntity({})]
  /\ proposal = [p \in Proposals |->
       IF p \in {pA, pB, rAB} THEN [by |-> op, status |-> "approved"] ELSE None]
  /\ nodes = (A :> <<pA>> @@ B :> <<pB>>)
  /\ assertions = [pair \in Entities \X Entities |-> IF pair = <<A, B>> THEN <<rAB>> ELSE <<>>]
  /\ review = [u \in Users |-> None]

LockInit ==
  /\ part \in {"activation", "mapping", "manifests"}
  /\ Init
  /\ IF part = "manifests" THEN RegistryFilled ELSE MappingInit
  /\ ManifestInit

ActivationPart == part = "activation" /\ UNCHANGED <<part, storageVars>>
MappingPart == part = "mapping" /\ UNCHANGED <<part, vars, manifestVars>>
ManifestPart == part = "manifests" /\ UNCHANGED <<part, vars>>

LockNextStep ==
  \/ ActivationPart /\ Next
  \/ MappingPart /\ MappingNext
  \/ ManifestPart /\ ManifestNext

ReviewGoesOn(Move) == (MappingPart /\ Move) \/ (ManifestPart /\ Beside(Move))

\* The fairness of FairSpec, MappingFairness and ManifestFairness.  A part is never left,
\* so a thread that activates in one and reviews for its user in the others has that of
\* each part.
UserOf == w1 :> op @@ w2 :> both @@ w3 :> rev
LockFairness ==
  /\ \A w \in Workers :
       /\ SF_lockVars((ActivationPart /\ Step(w)) \/ ReviewGoesOn(ApprovalStep(UserOf[w])))
       /\ WF_lockVars((ActivationPart /\ DeadlockVictim(w)) \/ ReviewGoesOn(AbortDeadlocked(UserOf[w])))
  /\ \A t \in Threads : WF_lockVars(ManifestPart /\ StorageStep(t))

LockSpec == LockInit /\ [][LockNextStep]_lockVars /\ LockFairness

\* Every part has the types its module declares.
LockTypeOK == TypeOK /\ MappingTypeOK /\ ManifestTypeOK
=============================================================================
