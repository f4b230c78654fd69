---------------------------- MODULE NounsDAOLogicV1 ----------------------------
(***************************************************************************)
(* The first governor, and the proposals it leaves to NounsDAOLogicV2 when *)
(* the proxy is given that implementation.  Both use the same storage; V2  *)
(* recognises a proposal of V1's by the creation block and the supply V1   *)
(* did not store, takes its snapshot as V1 did and its quorum as stored.   *)
(*                                                                         *)
(* A proposal is followed until its vote is decided or it is canceled.     *)
(* What may come after that, vetoes and the timelock, is the same in both  *)
(* and is modelled in NounsDAOLogicV2.  What the admin, the executor,      *)
(* calls by way of other proposals may come in any block.                  *)
(***************************************************************************)
EXTENDS Integers, Checkpoints

CONSTANTS
  Electorate,     \* the votes of each account at first
  TotalNouns,     \* at first; some are of accounts that do nothing
  Leanings,       \* bound: who may vote what, pairs of account and support
  Sales,          \* bound: the nouns that change hands: from, to, how many
  Buyers,         \* bound: of new nouns
  VotingDelays, QuorumShares, QuorumParams,  \* bounds: what the admin may set
  VotingPeriod, ThresholdBPS,
  MaxMade, LastHeight, MaxChanges  \* bounds: proposals, blocks, and what is set or sold

Councillors == DOMAIN Electorate

\* support is 0, 1 or 2 in castVoteInternal
ASSUME UpgradeConstants ==
  /\ Electorate \in [Councillors -> Nat] /\ TotalNouns \in Nat
  /\ Leanings \subseteq Councillors \X {"against", "for", "abstain"}
  /\ Sales \subseteq Councillors \X Councillors \X Nat /\ Buyers \subseteq Councillors
  /\ VotingDelays \subseteq Nat /\ VotingPeriod \in Nat /\ ThresholdBPS \in Nat
  /\ QuorumShares \subseteq Nat
  /\ QuorumParams \subseteq [min : Nat, max : Nat, coefficient : Nat]

VARIABLES
  implementation, \* of the proxy
  changes,        \* bounded by MaxChanges
  governance,     \* votingDelay, quorumVotesBPS, and V2's quorumParamsCheckpoints
  made,           \* proposals: proposal i is made[i]
  height, nounVotes, nounSupply, votesAt,
  madeWith,       \* history: block, delay and quorum when a proposal was made,
                  \* and what became of the vote
  astray          \* history: the ballots cast while the delay was another

upgradeVars == <<implementation, changes, governance, made, height, nounVotes, nounSupply, votesAt,
                 madeWith, astray>>
nounVars    == <<nounVotes, nounSupply, votesAt, height>>
recordVars  == <<madeWith, astray>>

Made     == 1 .. Len(made)
NoBallot == [support |-> "none", votes |-> 0]

UpgradeInit ==
  /\ implementation = "V1" /\ changes = 0
  /\ governance = [votingDelay |-> 1, quorumVotesBPS |-> 2000, params |-> <<>>]
  /\ made = <<>> /\ madeWith = <<>> /\ astray = {}
  /\ height = 1 /\ nounVotes = Electorate /\ nounSupply = TotalNouns
  /\ votesAt = [b \in {0} |-> Electorate]

-------------------------------------------------------------------------------

V2(bps) == INSTANCE DynamicQuorum WITH quorumVotesBPS <- bps, CoefficientOne <- 1000

bps2Uint(bps, number) == (number * bps) \div 10000

\* seeded error: V2 takes the block that V1 did not store
proposalCreationBlockStored(p) == p.creationBlock

\* V1, and V2 for V1's proposals: by the delay there is now
proposalCreationBlock(p) ==
  IF p.creationBlock = 0 THEN p.startBlock - governance.votingDelay ELSE p.creationBlock

\* V1's proposals have no supply, and keep the quorum stored
quorumVotes(p) ==
  IF p.totalSupply = 0 THEN p.quorumVotes
  ELSE V2(governance.quorumVotesBPS)!dynamicQuorumVotes(p.tally["against"], p.totalSupply,
         V2(governance.quorumVotesBPS)!getDynamicQuorumParamsAt(governance.params,
                                                                p.creationBlock))

Carried(p) == p.tally["for"] > p.tally["against"] /\ p.tally["for"] >= quorumVotes(p)

ProposalState(i) ==
  LET p == made[i]
  IN  IF p.canceled THEN "Canceled"
      ELSE IF height <= p.startBlock THEN "Pending"
      ELSE IF height <= p.endBlock THEN "Active"
      ELSE IF ~Carried(p) THEN "Defeated"
      ELSE "Succeeded"

-------------------------------------------------------------------------------
(* What both implementations do *)

LatestOf(a) == {i \in Made : /\ made[i].proposer = a
                             /\ \A j \in Made : made[j].proposer = a => j <= i}

\* what is stored of a proposal differs
Propose(a, stored) ==
  LET threshold == bps2Uint(ThresholdBPS, nounSupply)
      start     == height + governance.votingDelay
  IN  /\ Len(made) < MaxMade
      /\ votesAt[height - 1][a] > threshold
      /\ \A i \in LatestOf(a) : ProposalState(i) \notin {"Active", "Pending"}
      /\ made' = Append(made,
           [proposer |-> a, proposalThreshold |-> threshold, startBlock |-> start,
            endBlock |-> start + VotingPeriod, quorumVotes |-> stored.quorumVotes,
            creationBlock |-> stored.creationBlock, totalSupply |-> stored.totalSupply,
            tally |-> [s \in {"against", "for", "abstain"} |-> 0],
            receipts |-> [v \in Councillors |-> NoBallot],
            canceled |-> FALSE])
      /\ madeWith' = Append(madeWith,
           [block |-> height, delay |-> governance.votingDelay, outcome |-> "open",
            quorum |-> bps2Uint(governance.quorumVotesBPS, nounSupply)])
      /\ UNCHANGED <<implementation, governance, nounVars, astray>>

CastVote(voter, i, support) ==
  LET snapshot == proposalCreationBlock(made[i])
  IN  /\ ProposalState(i) = "Active"
      /\ made[i].receipts[voter] = NoBallot
      /\ snapshot >= 0  \* or the subtraction reverts
      /\ made' = [made EXCEPT
           ![i].tally[support] = @ + votesAt[snapshot][voter],
           ![i].receipts[voter] = [support |-> support, votes |-> votesAt[snapshot][voter]]]
      /\ astray' = IF governance.votingDelay # madeWith[i].delay
                   THEN astray \cup {<<i, voter>>} ELSE astray
      /\ UNCHANGED <<implementation, governance, nounVars, madeWith>>

Cancel(sender, i, fell) ==
  /\ sender = made[i].proposer \/ fell
  /\ made' = [made EXCEPT ![i].canceled = TRUE]
  /\ UNCHANGED <<implementation, governance, nounVars, recordVars>>

Governs(setting, value) ==
  /\ governance' = [governance EXCEPT ![setting] = value]
  /\ UNCHANGED <<implementation, made, nounVars, recordVars>>

SetVotingDelay(delay) == Governs("votingDelay", delay)

-------------------------------------------------------------------------------
(* What differs *)

ProposeV1(a) ==
  /\ implementation = "V1"
  /\ Propose(a, [quorumVotes |-> bps2Uint(governance.quorumVotesBPS, nounSupply),
                 creationBlock |-> 0, totalSupply |-> 0])

ProposeV2(a) ==
  /\ implementation = "V2"
  /\ Propose(a, [quorumVotes |-> 0, creationBlock |-> height, totalSupply |-> nounSupply])

CancelV1(sender, i) ==
  /\ implementation = "V1"
  /\ Cancel(sender, i,
       votesAt[height - 1][made[i].proposer] < made[i].proposalThreshold)

CancelV2(sender, i) ==
  /\ implementation = "V2"
  /\ Cancel(sender, i,
       votesAt[height - 1][made[i].proposer] <= made[i].proposalThreshold)

\* V2 has no setter for V1's share
SetQuorumVotesBPS(share) ==
  /\ implementation = "V1"
  /\ share \in 200 .. 2000
  /\ Governs("quorumVotesBPS", share)

SetDynamicQuorumParams(params) ==
  /\ implementation = "V2"
  /\ params.min \in 200 .. 2000 /\ params.max \in params.min .. 6000
  /\ Governs("params", Written(governance.params, height, params))

\* NounsDAOProxy; nothing is migrated
SetImplementation ==
  /\ implementation = "V1"
  /\ implementation' = "V2"
  /\ UNCHANGED <<governance, made, nounVars, recordVars>>

-------------------------------------------------------------------------------
(* The token and the blocks *)

PassOn(a, b, nouns) ==
  /\ nounVotes[a] >= nouns
  /\ nounVotes' = [nounVotes EXCEPT ![a] = @ - nouns, ![b] = @ + nouns]
  /\ UNCHANGED <<implementation, governance, made, height, nounSupply, votesAt, recordVars>>

MintNoun(a) ==
  /\ nounSupply' = nounSupply + 1
  /\ nounVotes' = [nounVotes EXCEPT ![a] = @ + 1]
  /\ UNCHANGED <<implementation, governance, made, height, votesAt, recordVars>>

\* the votes of a past block are those at its end
NextBlock ==
  /\ height < LastHeight
  /\ height' = height + 1
  /\ votesAt' = [b \in 0 .. height |-> IF b < height THEN votesAt[b] ELSE nounVotes]
  /\ madeWith' = [i \in Made |->
       IF madeWith[i].outcome = "open" /\ height >= made[i].endBlock
       THEN [madeWith[i] EXCEPT !.outcome = IF Carried(made[i]) THEN "carried" ELSE "lost"]
       ELSE madeWith[i]]
  /\ UNCHANGED <<implementation, governance, made, nounVotes, nounSupply, astray>>

Voting ==
  \/ \E a \in Councillors : ProposeV1(a) \/ ProposeV2(a)
  \/ \E i \in Made :
       \/ \E c \in Leanings : CastVote(c[1], i, c[2])
       \/ \E a \in Councillors : CancelV1(a, i) \/ CancelV2(a, i)
  \/ NextBlock

Changing ==
  \/ \E delay \in VotingDelays : SetVotingDelay(delay)
  \/ \E share \in QuorumShares : SetQuorumVotesBPS(share)
  \/ \E params \in QuorumParams : SetDynamicQuorumParams(params)
  \/ SetImplementation
  \/ \E sale \in Sales : PassOn(sale[1], sale[2], sale[3])
  \/ \E a \in Buyers : MintNoun(a)

UpgradeNext ==
  \/ Voting /\ UNCHANGED changes
  \/ changes < MaxChanges /\ Changing /\ changes' = changes + 1

UpgradeSpec == UpgradeInit /\ [][UpgradeNext]_upgradeVars

-------------------------------------------------------------------------------

\* no parameters of V2's hold for the block the proposal was made in
BeforeParams(i) ==
  governance.params = <<>> \/ governance.params[1].fromBlock > madeWith[i].block

(***************************************************************************)
(* The upgrade leaves every proposal what it was made with, whichever      *)
(* implementation made it and whichever is asked: a ballot weighs what the *)
(* voter had when the block of the proposal ended, unless the voting delay *)
(* was another at the moment of the vote; the quorum of a proposal made    *)
(* before V2 has parameters is V1's share of the supply of then, however   *)
(* the shares are set later and whatever the votes against; and a vote     *)
(* that has ended is not decided anew.                                     *)
(***************************************************************************)
UpgradeKeepsProposals ==
  \A i \in Made :
    /\ \A v \in Councillors :
         made[i].receipts[v] # NoBallot /\ <<i, v>> \notin astray =>
           made[i].receipts[v].votes = votesAt[madeWith[i].block][v]
    /\ made[i].creationBlock = 0 \/ BeforeParams(i) => quorumVotes(made[i]) = madeWith[i].quorum
    /\ madeWith[i].outcome # "open" => (madeWith[i].outcome = "carried") = Carried(made[i])
===============================================================================
