------------------------------- MODULE DAOIndex -------------------------------
(***************************************************************************)
(* The subgraph's index of the governor (nouns-dao.ts), one handler per    *)
(* event, as an operator from the stored entities to the stored entities.  *)
(* A proposal takes the governor's consecutive id, its votes are kept in   *)
(* the proposal.  What a handler only copies for display (the actions,     *)
(* the description, the reason, times and hashes) is left out.             *)
(***************************************************************************)
EXTENDS DynamicQuorum

CONSTANTS NoBlock   \* null

NullEta == 0        \* executionETA === null

\* params is the LATEST DynamicQuorumParams entity
EmptyDAOIndex ==
  [proposals               |-> <<>>,
   proposalsQueued         |-> 0,
   params                  |-> [min |-> 0, max |-> 0, coefficient |-> 0],
   dynamicQuorumStartBlock |-> NoBlock]

\* getOrCreateDynamicQuorumParams(block)
StartBlockKept(store, block) ==
  IF store.dynamicQuorumStartBlock = NoBlock
  THEN [store EXCEPT !.dynamicQuorumStartBlock = block]
  ELSE store

\* MinQuorumVotesBPSSet, MaxQuorumVotesBPSSet, QuorumCoefficientSet: one field each
handleParameterSet(store, block, field, value) ==
  [StartBlockKept(store, block) EXCEPT !.params[field] = value]

\* the quorum is that of the event, the supply that of the token's index
handleProposalCreatedWithRequirements(store, block, created, totalTokenHolders) ==
  [store EXCEPT !.proposals = Append(@,
     [status       |-> IF block >= created.startBlock THEN "ACTIVE" ELSE "PENDING",
      proposer     |-> created.proposer,
      createdBlock |-> block,
      startBlock   |-> created.startBlock,
      endBlock     |-> created.endBlock,
      executionETA |-> NullEta,
      quorumVotes  |-> created.minQuorumVotes,
      tally        |-> [support \in 0 .. 2 |-> 0],
      votes        |-> {},
      totalSupply  |-> totalTokenHolders,
      params       |-> store.params])]

\* seeded error: a canceled proposal that has an ETA is counted down, by every
\* ProposalCanceled of it
handleProposalCanceledRecounting(store, i) ==
  [store EXCEPT !.proposals[i].status = "CANCELLED",
                !.proposalsQueued =
                   IF store.proposals[i].executionETA # NullEta THEN @ - 1 ELSE @]

handleProposalCanceled(store, i) == [store EXCEPT !.proposals[i].status = "CANCELLED"]

handleProposalVetoed(store, i) == [store EXCEPT !.proposals[i].status = "VETOED"]

handleProposalQueued(store, i, eta) ==
  [store EXCEPT !.proposals[i].status = "QUEUED",
                !.proposals[i].executionETA = eta,
                !.proposalsQueued = @ + 1]

handleProposalExecuted(store, i) ==
  [store EXCEPT !.proposals[i].status = "EXECUTED",
                !.proposals[i].executionETA = NullEta,
                !.proposalsQueued = @ - 1]

\* the parameters have changed by the executing proposal after this one was
\* created: those stored with it count
indexedQuorum(p) == dynamicQuorumVotes(p.tally[0], p.totalSupply, p.params)

\* seeded error: the quorum of the parameters in force now
handleVoteCastByLatest(store, i, voter, support, votes) ==
  LET p       == store.proposals[i]
      counted == [p EXCEPT !.tally[support] = @ + votes,
                           !.votes = @ \cup {[voter |-> voter, votes |-> votes,
                                              support |-> support]}]
  IN  [store EXCEPT !.proposals[i] =
        [counted EXCEPT
           !.quorumVotes = indexedQuorum([counted EXCEPT !.params = store.params]),
           !.status = IF @ = "PENDING" THEN "ACTIVE" ELSE @]]

handleVoteCast(store, i, voter, support, votes) ==
  LET p       == store.proposals[i]
      counted == [p EXCEPT !.tally[support] = @ + votes,
                           !.votes = @ \cup {[voter |-> voter, votes |-> votes,
                                              support |-> support]}]
      usingDynamicQuorum ==
        /\ store.dynamicQuorumStartBlock # NoBlock
        /\ store.dynamicQuorumStartBlock < p.createdBlock
  IN  [store EXCEPT !.proposals[i] =
        [counted EXCEPT
           !.quorumVotes = IF usingDynamicQuorum THEN indexedQuorum(counted) ELSE @,
           !.status = IF @ = "PENDING" THEN "ACTIVE" ELSE @]]
===============================================================================
