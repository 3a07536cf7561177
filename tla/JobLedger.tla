------------------------------ MODULE JobLedger ------------------------------
(***************************************************************************)
(* What governed extraction promises about one job, whoever runs it and    *)
(* however often it fails: a job is opened once; at most one proposal is   *)
(* ever fixed for it; Claims of that proposal, and no others, enter review *)
(* one at a time; and it is done only when all of them have.               *)
(***************************************************************************)
CONSTANTS Jobs, Claims

VARIABLES
  phase,   \* absent, open, proposed or done
  chosen,  \* the Claims of the fixed proposal
  entered  \* those of them in the review queue

ledger == <<phase, chosen, entered>>

Init ==
  /\ phase = [j \in Jobs |-> "absent"]
  /\ chosen = [j \in Jobs |-> {}]
  /\ entered = [j \in Jobs |-> {}]

Open(j) ==
  /\ phase[j] = "absent"
  /\ phase' = [phase EXCEPT ![j] = "open"]
  /\ UNCHANGED <<chosen, entered>>

\* A proposal may repeat Claims that an earlier job on the same Source version
\* and run identity already put in the queue: those count from the start.
Propose(j, found, already) ==
  /\ phase[j] = "open"
  /\ already \subseteq found
  /\ phase' = [phase EXCEPT ![j] = "proposed"]
  /\ chosen' = [chosen EXCEPT ![j] = found]
  /\ entered' = [entered EXCEPT ![j] = already]

\* One Claim enters the queue, for every proposal that contains it.
Enter(c, S) ==
  /\ S # {}
  /\ \A j \in S : phase[j] = "proposed" /\ c \in chosen[j] \ entered[j]
  /\ entered' = [j \in Jobs |-> IF j \in S THEN entered[j] \cup {c} ELSE entered[j]]
  /\ UNCHANGED <<phase, chosen>>

Finish(j) ==
  /\ phase[j] = "proposed"
  /\ entered[j] = chosen[j]
  /\ phase' = [phase EXCEPT ![j] = "done"]
  /\ UNCHANGED <<chosen, entered>>

Next ==
  \/ \E j \in Jobs : Open(j) \/ Finish(j)
  \/ \E j \in Jobs, found, already \in SUBSET Claims : Propose(j, found, already)
  \/ \E c \in Claims, S \in SUBSET Jobs : Enter(c, S)

Spec == Init /\ [][Next]_ledger
=============================================================================
