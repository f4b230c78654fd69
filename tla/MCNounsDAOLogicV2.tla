--------------------------- MODULE MCNounsDAOLogicV2 ---------------------------
(***************************************************************************)
(* Instances of NounsDAOLogicV2, with the subgraph's index of it and what  *)
(* the web application shows of that (GovernanceApp).  Of ten nouns alice  *)
(* has five and bob three, so that bob's votes against raise the quorum    *)
(* from two to six while the coefficient is 2, and alice's votes alone do  *)
(* not pass.                                                               *)
(***************************************************************************)
EXTENDS GovernanceApp

CONSTANTS alice, bob

MCAccounts == {alice, bob}

MCInitialVotes == alice :> 5 @@ bob :> 3

MCParams(coefficient) ==
  [min |-> 2000, max |-> 6000, coefficient |-> coefficient]

MCInitialSettings ==
  [votingDelay |-> 1, votingPeriod |-> 1, proposalThresholdBPS |-> 1000,
   quorumParams |-> <<[fromBlock |-> 0, value |-> MCParams(2000)]>>,
   admin |-> Executor, pendingAdmin |-> Nobody]

\* a call outside the DAO
Send(what) == [call |-> "send", arg |-> what]

Call(f, x) == [call |-> f, arg |-> x]

MCTwins == {<<Send("a")>>}

\* proposals that share an action, and those that replace an admin
MCTakeovers ==
  {<<Send("a")>>, <<Send("a"), Call("setPendingAdmin", bob)>>, <<Call("setDelay", 3)>>,
   <<Call("_setPendingAdmin", bob), Call("_setVotingPeriod", 2)>>}

MCReforms == {<<Call("_setQuorumCoefficient", 0)>>}

MCOnlyAlice == {<<alice, For>>}

MCDivided == {<<alice, For>>, <<bob, Against>>, <<bob, Abstain>>}

MCMoves == {<<alice, bob>>, <<Nobody, bob>>}
===============================================================================
