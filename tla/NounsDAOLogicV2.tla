---------------------------- MODULE NounsDAOLogicV2 ----------------------------
(***************************************************************************)
(* NounsDAOLogicV2.sol, the governor, composed with the executor that      *)
(* carries out its proposals and with the votes of the noun token.  Every  *)
(* external function is one transaction.                                   *)
(*                                                                         *)
(* The token is seen through VotingPower: everybody's votes in the block   *)
(* being built, and at the end of every finished block.  What a proposal   *)
(* does to the DAO itself is modelled too: the governor's admin is the     *)
(* executor, so its settings change while other proposals are under way.   *)
(***************************************************************************)
EXTENDS NounsDAOExecutor, DynamicQuorum, SequencesExt, FiniteSetsExt

CONSTANTS
  Accounts,
  Governor, Executor,   \* the addresses of the two contracts
  Vetoer,               \* the account that can veto at first
  Payloads,             \* bound: the sequences of transactions proposed
  MaxProposals, MaxBlock, MaxSupply,   \* bounds
  Intentions,           \* bound: who may vote what, pairs of account and support
  Moves,                \* bound: the pairs between which votes move, from Nobody by a mint
  Heirs,                \* bound: the accounts offered the role of the vetoer
  InitialVotes, InitialSupply,  \* some nouns may be of accounts that do nothing
  InitialSettings, InitialDelay,
  MIN_VOTING_DELAY, MAX_VOTING_DELAY, MIN_VOTING_PERIOD, MAX_VOTING_PERIOD

ASSUME VotingTakesTime ==
  /\ MIN_VOTING_DELAY \in Nat \ {0} /\ MIN_VOTING_PERIOD \in Nat \ {0}
  /\ MAX_VOTING_DELAY \in Nat /\ MAX_VOTING_PERIOD \in Nat

\* what the constructors and initialize() leave, in the block before the first
ASSUME StartsWithinBounds ==
  /\ InitialDelay \in MINIMUM_DELAY .. MAXIMUM_DELAY
  /\ InitialSettings \in
       [votingDelay          : MIN_VOTING_DELAY .. MAX_VOTING_DELAY,
        votingPeriod         : MIN_VOTING_PERIOD .. MAX_VOTING_PERIOD,
        proposalThresholdBPS : Nat,
        quorumParams         : Seq([fromBlock : Nat,
                                    value : [min : Nat, max : Nat, coefficient : Nat]]),
        admin : {InitialSettings.admin}, pendingAdmin : {InitialSettings.pendingAdmin}]
  /\ Ascending(InitialSettings.quorumParams, 0)
  /\ quorumVotesBPS \in Nat
  /\ IsFiniteSet(Accounts) /\ InitialVotes \in [Accounts -> Nat] /\ InitialSupply \in Nat

Transactions == UNION {ToSet(payload) : payload \in Payloads}

\* calldata is decoded by the types of the function that is called
ASSUME CallsAreDecoded ==
  /\ Payloads \subseteq Seq(Transactions)
  /\ \A tx \in Transactions :
       /\ tx.call \in {"_setVotingDelay", "_setVotingPeriod", "_setProposalThresholdBPS",
                       "_setMinQuorumVotesBPS", "_setMaxQuorumVotesBPS",
                       "_setQuorumCoefficient", "setDelay"} => tx.arg \in Nat
       /\ tx.call = "_setDynamicQuorumParams" =>
            tx.arg \in [min : Nat, max : Nat, coefficient : Nat]

\* who votes and what moves
ASSUME ActorsAreAccounts ==
  /\ Intentions \subseteq Accounts \X (0 .. 2)
  /\ Moves \subseteq (Accounts \cup {Nobody}) \X Accounts

VARIABLES
  proposals,           \* _proposals: proposal i is proposals[i]
  latestProposalIds,
  settings,            \* what the admin can change, and the admin itself
  vetoer, pendingVetoer,
  votes, supply,       \* the token in the block being built
  pastVotes            \* the votes at the end of every finished block

governorVars == <<proposals, latestProposalIds>>
vetoVars     == <<vetoer, pendingVetoer>>
tokenVars    == <<votes, supply, pastVotes>>
executorVars == <<timelock, queuedTransactions>>
vars == <<governorVars, settings, vetoVars, tokenVars, executorVars, now>>

MIN_PROPOSAL_THRESHOLD_BPS         == 1
MAX_PROPOSAL_THRESHOLD_BPS         == 1000
MIN_QUORUM_VOTES_BPS_LOWER_BOUND   == 200
MIN_QUORUM_VOTES_BPS_UPPER_BOUND   == 2000
MAX_QUORUM_VOTES_BPS_UPPER_BOUND   == 6000
proposalMaxOperations              == 10

Against == 0
For     == 1
Abstain == 2
NoVote  == 3

Ids == 1 .. Len(proposals)

Init ==
  /\ now = 1
  /\ timelock = [admin |-> Governor, pendingAdmin |-> Nobody, delay |-> InitialDelay]
  /\ queuedTransactions = {}
  /\ proposals = <<>>
  /\ latestProposalIds = [a \in Accounts |-> 0]
  /\ settings = InitialSettings
  /\ vetoer = Vetoer
  /\ pendingVetoer = Nobody
  /\ votes = InitialVotes
  /\ supply = InitialSupply
  /\ pastVotes = [b \in {0} |-> InitialVotes]

-------------------------------------------------------------------------------
(* The state of a proposal *)

getPriorVotes(a, b) == pastVotes[b][a]

\* seeded error: the quorum parameters in force now
quorumVotesNow(p) ==
  dynamicQuorumVotes(p.tally[Against], p.totalSupply,
                     getDynamicQuorumParamsAt(settings.quorumParams, now))

\* by the parameters in force when the proposal was created, which was by this
\* implementation: V1's proposals have another quorum
quorumVotes(p) ==
  dynamicQuorumVotes(p.tally[Against], p.totalSupply,
                     getDynamicQuorumParamsAt(settings.quorumParams, p.creationBlock))

Passed(p) ==
  /\ p.tally[For] > p.tally[Against]
  /\ p.tally[For] >= quorumVotes(p)

State(i) ==
  LET p == proposals[i]
  IN  IF p.vetoed THEN "Vetoed"
      ELSE IF p.canceled THEN "Canceled"
      ELSE IF now <= p.startBlock THEN "Pending"
      ELSE IF now <= p.endBlock THEN "Active"
      ELSE IF ~Passed(p) THEN "Defeated"
      ELSE IF p.eta = 0 THEN "Succeeded"
      ELSE IF p.executed THEN "Executed"
      ELSE IF now >= p.eta + GRACE_PERIOD THEN "Expired"
      ELSE "Queued"

-------------------------------------------------------------------------------
(* The settings: what the admin may call, and the effect *)

CurrentParams(st) == getDynamicQuorumParamsAt(st.quorumParams, now)

\* the parameters a call would leave, for the four functions that set some
NewParams(st, tx) ==
  CASE tx.call = "_setMinQuorumVotesBPS" -> [CurrentParams(st) EXCEPT !.min = tx.arg]
    [] tx.call = "_setMaxQuorumVotesBPS" -> [CurrentParams(st) EXCEPT !.max = tx.arg]
    [] tx.call = "_setQuorumCoefficient" -> [CurrentParams(st) EXCEPT !.coefficient = tx.arg]
    [] OTHER                             -> tx.arg

QuorumCalls == {"_setMinQuorumVotesBPS", "_setMaxQuorumVotesBPS",
                "_setQuorumCoefficient", "_setDynamicQuorumParams"}

ParamsInBounds(params) ==
  /\ params.min \in MIN_QUORUM_VOTES_BPS_LOWER_BOUND .. MIN_QUORUM_VOTES_BPS_UPPER_BOUND
  /\ params.max <= MAX_QUORUM_VOTES_BPS_UPPER_BOUND
  /\ params.min <= params.max

AdminAccepts(st, tx) ==
  /\ tx.call = "_setVotingDelay" => tx.arg \in MIN_VOTING_DELAY .. MAX_VOTING_DELAY
  /\ tx.call = "_setVotingPeriod" => tx.arg \in MIN_VOTING_PERIOD .. MAX_VOTING_PERIOD
  /\ tx.call = "_setProposalThresholdBPS" =>
       tx.arg \in MIN_PROPOSAL_THRESHOLD_BPS .. MAX_PROPOSAL_THRESHOLD_BPS
  /\ tx.call \in QuorumCalls => ParamsInBounds(NewParams(st, tx))

AfterAdminCall(st, tx) ==
  CASE tx.call = "_setVotingDelay"          -> [st EXCEPT !.votingDelay = tx.arg]
    [] tx.call = "_setVotingPeriod"         -> [st EXCEPT !.votingPeriod = tx.arg]
    [] tx.call = "_setProposalThresholdBPS" -> [st EXCEPT !.proposalThresholdBPS = tx.arg]
    [] tx.call = "_setPendingAdmin"         -> [st EXCEPT !.pendingAdmin = tx.arg]
    [] tx.call \in QuorumCalls              ->
         [st EXCEPT !.quorumParams = Written(@, now, NewParams(st, tx))]
    [] OTHER                                -> st

AdminCalls == QuorumCalls \cup {"_setVotingDelay", "_setVotingPeriod",
                                "_setProposalThresholdBPS", "_setPendingAdmin"}

\* the executor makes one call: to itself, to the governor or elsewhere
AfterCall(s, tx) ==
  IF /\ SetterAccepts(tx)
     /\ tx.call \in AdminCalls => s.settings.admin = Executor /\ AdminAccepts(s.settings, tx)
  THEN [s EXCEPT !.timelock = AfterSetter(@, tx), !.settings = AfterAdminCall(@, tx)]
  ELSE [s EXCEPT !.reverted = TRUE]

AfterCalls(payload) ==
  FoldLeft(AfterCall, [timelock |-> timelock, settings |-> settings, reverted |-> FALSE],
           payload)

-------------------------------------------------------------------------------
(* Proposing, voting, queueing, executing *)

\* seeded error: a pending proposal is not counted as live
MayProposeWhilePending(a) ==
  latestProposalIds[a] # 0 => State(latestProposalIds[a]) # "Active"

MayPropose(a) ==
  latestProposalIds[a] # 0 =>
    State(latestProposalIds[a]) \notin {"Active", "Pending"}

Propose(a, payload) ==
  LET threshold == bps2Uint(settings.proposalThresholdBPS, supply)
      start     == now + settings.votingDelay
  IN  /\ Len(proposals) < MaxProposals
      /\ getPriorVotes(a, now - 1) > threshold
      /\ Len(payload) \in 1 .. proposalMaxOperations
      /\ MayPropose(a)
      /\ proposals' = Append(proposals,
           [proposer |-> a, payload |-> payload, proposalThreshold |-> threshold,
            startBlock |-> start, endBlock |-> start + settings.votingPeriod,
            creationBlock |-> now, totalSupply |-> supply,
            tally |-> [s \in {Against, For, Abstain} |-> 0],
            receipts |-> [v \in Accounts |-> NoVote],
            eta |-> 0, canceled |-> FALSE, vetoed |-> FALSE, executed |-> FALSE])
      /\ latestProposalIds' = [latestProposalIds EXCEPT ![a] = Len(proposals) + 1]
      /\ UNCHANGED <<settings, vetoVars, tokenVars, executorVars, now>>

\* seeded error: the votes of the start block, as in GovernorBravo
VoteWeightAtStart(p, voter) == getPriorVotes(voter, p.startBlock)

\* the votes are those of the creation block
VoteWeight(p, voter) == getPriorVotes(voter, p.creationBlock)

\* every way of voting: castVote, with a reason, with a refund, by signature
CastVote(voter, i, support) ==
  /\ State(i) = "Active"
  /\ proposals[i].receipts[voter] = NoVote
  /\ proposals' = [proposals EXCEPT
       ![i].tally[support] = @ + VoteWeight(proposals[i], voter),
       ![i].receipts[voter] = support]
  /\ UNCHANGED <<latestProposalIds, settings, vetoVars, tokenVars, executorVars, now>>

\* seeded error: an entry that is there already is taken for queued
NotYetQueuedUnchecked(payload, eta) == TRUE

\* every action is checked against the timelock before it is added, so that
\* a proposal that contains an action twice is stuck
NotYetQueued(payload, eta) ==
  /\ IsInjective(payload)
  /\ Entries(ToSet(payload), eta) \cap queuedTransactions = {}

Queue(i) ==
  LET payload == proposals[i].payload
      eta     == now + timelock.delay
  IN  /\ State(i) = "Succeeded"
      /\ NotYetQueued(payload, eta)
      /\ queueTransactions(Governor, ToSet(payload), eta)
      /\ proposals' = [proposals EXCEPT ![i].eta = eta]
      /\ UNCHANGED <<latestProposalIds, settings, vetoVars, tokenVars, timelock, now>>

\* if a call reverts, everything does
Execute(i) ==
  LET after == AfterCalls(proposals[i].payload)
  IN  /\ State(i) = "Queued"
      /\ executeTransactions(Governor, ToSet(proposals[i].payload), proposals[i].eta)
      /\ ~after.reverted
      /\ timelock' = after.timelock
      /\ settings' = after.settings
      /\ proposals' = [proposals EXCEPT ![i].executed = TRUE]
      /\ UNCHANGED <<latestProposalIds, vetoVars, tokenVars, now>>

\* also of a proposal that is canceled, vetoed, defeated or expired
Cancel(sender, i) ==
  LET p == proposals[i]
  IN  /\ State(i) # "Executed"
      /\ \/ sender = p.proposer
         \/ getPriorVotes(p.proposer, now - 1) <= p.proposalThreshold
      /\ cancelTransactions(Governor, ToSet(p.payload), p.eta)
      /\ proposals' = [proposals EXCEPT ![i].canceled = TRUE]
      /\ UNCHANGED <<latestProposalIds, settings, vetoVars, tokenVars, timelock, now>>

Veto(sender, i) ==
  /\ vetoer # Nobody
  /\ sender = vetoer
  /\ State(i) # "Executed"
  /\ cancelTransactions(Governor, ToSet(proposals[i].payload), proposals[i].eta)
  /\ proposals' = [proposals EXCEPT ![i].vetoed = TRUE]
  /\ UNCHANGED <<latestProposalIds, settings, vetoVars, tokenVars, timelock, now>>

-------------------------------------------------------------------------------
(* The vetoer, and the admins when they are replaced *)

SetPendingVetoer(sender, newPendingVetoer) ==
  /\ sender = vetoer
  /\ pendingVetoer' = newPendingVetoer
  /\ UNCHANGED <<governorVars, settings, vetoer, tokenVars, executorVars, now>>

AcceptVetoer(sender) ==
  /\ sender = pendingVetoer
  /\ vetoer' = pendingVetoer
  /\ pendingVetoer' = Nobody
  /\ UNCHANGED <<governorVars, settings, tokenVars, executorVars, now>>

BurnVetoPower(sender) ==
  /\ sender = vetoer
  /\ vetoer' = Nobody
  /\ pendingVetoer' = Nobody
  /\ UNCHANGED <<governorVars, settings, tokenVars, executorVars, now>>

\* an account the executor appointed admin of the governor
AcceptAdmin(sender) ==
  /\ sender = settings.pendingAdmin
  /\ settings' = [settings EXCEPT !.admin = sender, !.pendingAdmin = Nobody]
  /\ UNCHANGED <<governorVars, vetoVars, tokenVars, executorVars, now>>

\* after that, what only proposals could do before
AdminCall(sender, tx) ==
  /\ sender = settings.admin
  /\ tx.call \in AdminCalls
  /\ AdminAccepts(settings, tx)
  /\ settings' = AfterAdminCall(settings, tx)
  /\ UNCHANGED <<governorVars, vetoVars, tokenVars, executorVars, now>>

\* an account the executor appointed its own admin instead of the governor
AcceptTimelock(sender) ==
  /\ acceptAdmin(sender)
  /\ UNCHANGED <<governorVars, settings, vetoVars, tokenVars, queuedTransactions, now>>

-------------------------------------------------------------------------------
(* The token and the clock *)

\* nouns are transferred, or their votes delegated
MoveVotes(a, b) ==
  /\ votes[a] > 0
  /\ votes' = [votes EXCEPT ![a] = 0, ![b] = @ + votes[a]]
  /\ UNCHANGED <<governorVars, settings, vetoVars, supply, pastVotes, executorVars, now>>

MintVote(a) ==
  /\ supply < MaxSupply
  /\ votes' = [votes EXCEPT ![a] = @ + 1]
  /\ supply' = supply + 1
  /\ UNCHANGED <<governorVars, settings, vetoVars, pastVotes, executorVars, now>>

Mine ==
  /\ now < MaxBlock
  /\ now' = now + 1
  /\ pastVotes' = [b \in 0 .. now |-> IF b < now THEN pastVotes[b] ELSE votes]
  /\ UNCHANGED <<governorVars, settings, vetoVars, votes, supply, executorVars>>

Next ==
  \/ \E a \in Accounts, payload \in Payloads : Propose(a, payload)
  \/ \E i \in Ids :
       \/ \E c \in Intentions : CastVote(c[1], i, c[2])
       \/ Queue(i)
       \/ Execute(i)
       \/ \E a \in Accounts : Cancel(a, i) \/ Veto(a, i)
  \/ \E a \in Accounts :
       \/ \E b \in Heirs : SetPendingVetoer(a, b)
       \/ AcceptVetoer(a)
       \/ BurnVetoPower(a)
       \/ AcceptAdmin(a)
       \/ \E tx \in Transactions : AdminCall(a, tx)
       \/ AcceptTimelock(a)
  \/ \E m \in Moves :
       \/ m[1] # Nobody /\ MoveVotes(m[1], m[2])
       \/ m[1] = Nobody /\ MintVote(m[2])
  \/ Mine

Spec == Init /\ [][Next]_vars

-------------------------------------------------------------------------------

TypeOK ==
  /\ \A i \in Ids :
       /\ proposals[i].receipts \in [Accounts -> 0 .. NoVote]
       /\ proposals[i].tally \in [{Against, For, Abstain} -> Nat]
       /\ proposals[i].eta \in Nat
       /\ proposals[i].totalSupply \in 1 .. supply
       /\ proposals[i].creationBlock < proposals[i].startBlock
       /\ proposals[i].startBlock < proposals[i].endBlock
  /\ latestProposalIds \in [Accounts -> 0 .. Len(proposals)]
  /\ settings.votingDelay \in MIN_VOTING_DELAY .. MAX_VOTING_DELAY
  /\ settings.votingPeriod \in MIN_VOTING_PERIOD .. MAX_VOTING_PERIOD
  /\ timelock.delay \in MINIMUM_DELAY .. MAXIMUM_DELAY
  /\ ParamsInBounds(CurrentParams(settings))
  /\ {vetoer, pendingVetoer} \subseteq Accounts \cup {Nobody}

(***************************************************************************)
(* At most one proposal of a proposer is pending or active, whatever was   *)
(* canceled or vetoed meanwhile and however the periods were changed:      *)
(* propose looks at the latest proposal only.                              *)
(***************************************************************************)
OneLiveProposal ==
  \A i, j \in Ids :
    /\ proposals[i].proposer = proposals[j].proposer
    /\ {State(i), State(j)} \subseteq {"Pending", "Active"}
    => i = j

(***************************************************************************)
(* What castVoteInternal counts is what the accounts that voted had when   *)
(* the block of the proposal ended, once each: votes that are moved or     *)
(* minted later do not count, neither twice nor at all.                    *)
(***************************************************************************)
VotesAreSnapshots ==
  \A i \in Ids, support \in {Against, For, Abstain} :
    LET p      == proposals[i]
        voters == {v \in Accounts : p.receipts[v] = support}
    IN  p.tally[support] =
          MapThenSumSet(LAMBDA v : pastVotes[p.creationBlock][v], voters)

(***************************************************************************)
(* The timelock holds nothing but the actions of proposals that may still  *)
(* be carried out: canceling, vetoing and executing leave no entry behind, *)
(* and an entry becomes executable only a full MINIMUM_DELAY after the     *)
(* vote ended.  It is about the executor as long as the governor is its    *)
(* admin.                                                                  *)
(***************************************************************************)
TimelockHoldsQueued ==
  timelock.admin = Governor =>
    \A entry \in queuedTransactions :
      \E i \in Ids :
        /\ entry \in Entries(ToSet(proposals[i].payload), proposals[i].eta)
        /\ State(i) \in {"Queued", "Expired"}
        /\ entry.eta > proposals[i].endBlock + MINIMUM_DELAY

(***************************************************************************)
(* What execute's comment says, "Executes a queued proposal if eta has     *)
(* passed", needs the actions of a queued proposal to be in the timelock.  *)
(* It does not hold: cancel and veto can be repeated, and take away the    *)
(* entries of an identical proposal that was queued in the same block.     *)
(***************************************************************************)
Executable(i) ==
  Entries(ToSet(proposals[i].payload), proposals[i].eta) \subseteq queuedTransactions

QueuedIsExecutable == \A i \in Ids : State(i) = "Queued" => Executable(i)

(***************************************************************************)
(* That is the only way: a queued proposal has all its actions in the      *)
(* timelock unless a stopped proposal had one of them at the same eta.     *)
(***************************************************************************)
QueuedUnlessTwin ==
  \A i \in Ids : State(i) = "Queued" =>
    \/ Executable(i)
    \/ \E j \in Ids \ {i} :
         /\ State(j) \in {"Canceled", "Vetoed"}
         /\ proposals[j].eta = proposals[i].eta
         /\ ToSet(proposals[j].payload) \cap ToSet(proposals[i].payload) # {}

Phase(i)   == IF i \in Ids THEN State(i) ELSE "None"
Ballots(i) == IF i \in Ids THEN proposals[i].receipts ELSE [v \in Accounts |-> NoVote]

(***************************************************************************)
(* Refinement: every proposal goes through the phases of ProposalLifecycle,*)
(* although its state is computed anew from the block, the votes, the      *)
(* supply, the quorum checkpoints and the timelock on every call.  This is *)
(* Life(i)!Spec of every i, with the quantifier inside the box.            *)
(***************************************************************************)
Life(i) == INSTANCE ProposalLifecycle WITH
  Voters <- Accounts, Supports <- {Against, For, Abstain},
  phase <- Phase(i), ballots <- Ballots(i)

ImplementsLifecycle ==
  /\ \A i \in 1 .. MaxProposals : Life(i)!Init
  /\ [][\A i \in 1 .. MaxProposals : [Life(i)!Next]_(Life(i)!plVars)]_vars
===============================================================================
