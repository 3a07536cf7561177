--------------------------- MODULE GovernanceRoles ---------------------------
(***************************************************************************)
(* What the governance services share: the accounts, the two roles that    *)
(* submit and review, and what an account may see                          *)
(* (security/policy.py, retrieval_authorization_for_actor).                *)
(***************************************************************************)
EXTENDS Naturals

CONSTANTS
  Users,      \* accounts
  Operators,  \* those that register, submit and request
  Reviewers,  \* those that decide
  None        \* a row that does not exist

ASSUME RoleAssumptions ==
  /\ Operators \subseteq Users /\ Reviewers \subseteq Users
  /\ None \notin Users

\* Levels are public, controlled, secret_method and restricted, in this order.
\* Nothing activates break-glass, so "restricted" is shown to nobody.
Shows(u, l) == l < 2 \/ (l = 2 /\ u \in Reviewers)
=============================================================================
