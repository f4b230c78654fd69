--------------------------- MODULE ProposalLifecycle ---------------------------
(***************************************************************************)
(* What the governor promises about one proposal, without blocks, settings *)
(* or a timelock: the phases it can go through, with a vote that is taken  *)
(* only while it is active and cannot be taken back or reweighed.          *)
(* NounsDAOLogicV2 implements it for every proposal.                       *)
(***************************************************************************)
EXTENDS Naturals

CONSTANTS Voters, NoVote, Supports

VARIABLES
  phase,   \* "None" before the proposal is made
  ballots  \* what every voter voted: NoVote, or a support

plVars == <<phase, ballots>>

Init ==
  /\ phase = "None"
  /\ ballots = [v \in Voters |-> NoVote]

\* the phases that follow each phase; a decision is never revised
Following ==
  [None      |-> {"Pending"},
   Pending   |-> {"Active"},
   Active    |-> {"Defeated", "Succeeded"},
   Defeated  |-> {},
   Succeeded |-> {"Queued"},
   Queued    |-> {"Executed", "Expired"},
   Executed  |-> {},
   Expired   |-> {},
   Canceled  |-> {},
   Vetoed    |-> {}]

Advance ==
  /\ phase' \in Following[phase]
  /\ UNCHANGED ballots

\* anything but an executed proposal can be canceled, and vetoed even then
Stop ==
  /\ \/ phase \notin {"None", "Executed", "Vetoed"} /\ phase' = "Vetoed"
     \/ phase \notin {"None", "Executed", "Vetoed", "Canceled"} /\ phase' = "Canceled"
  /\ UNCHANGED ballots

Vote(v, support) ==
  /\ phase = "Active"
  /\ ballots[v] = NoVote
  /\ ballots' = [ballots EXCEPT ![v] = support]
  /\ UNCHANGED phase

Next ==
  \/ Advance
  \/ Stop
  \/ \E v \in Voters, support \in Supports : Vote(v, support)

Spec == Init /\ [][Next]_plVars
===============================================================================
