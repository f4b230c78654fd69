---------------------------- MODULE Clients_proofs ----------------------------
(***************************************************************************)
(* The parts that share no state with one another, proved for every value  *)
(* of their constants: the contracts' checkpoint search and the upgrade of *)
(* the governor, and of the web app the dialogs that delegate, vote and    *)
(* explain the quorum, the cache of logs, the playground, the page of all  *)
(* nouns, the auction page and the draft of a proposal.                    *)
(***************************************************************************)
EXTENDS CheckpointSearch, NounsDAOLogicV1, DelegationPanel, VoteDialog, LogsCache, QuorumCurve,
        Playground, Explore, AuctionPage, ProposalDraft, DataTheorems, SequenceTheorems

-------------------------------------------------------------------------------
(* The search agrees with the plain record of the past for any values, any *)
(* number of blocks and any pattern of writes.                             *)

(***************************************************************************)
(* SearchReturnsPast with what it rests on: the list is ascending and none *)
(* of it is in the future, `written' is its newest value, and `past' has   *)
(* one entry for every block that ended.                                   *)
(***************************************************************************)
SearchInv ==
  /\ searchBlock \in Nat \ {0}
  /\ CheckpointList(cps, Values)
  /\ Ascending(cps, searchBlock)
  /\ written \in Values \cup {Default}
  /\ written = Latest(cps, Default)
  /\ past \in Seq(Values \cup {Default})
  /\ Len(past) = searchBlock - 1
  /\ SearchReturnsPast

(***************************************************************************)
(* _writeCheckpoint keeps the invariant: it changes the answer for the     *)
(* current block only, which has not ended.                                *)
(***************************************************************************)
LEMMA WriteKeepsSearchInv ==
  ASSUME SearchInv, NEW v \in Values, WriteCheckpoint(v)
  PROVE  SearchInv'
<1>. USE DEF SearchInv, WriteCheckpoint
<1>1. /\ CheckpointList(cps, Values)' /\ Ascending(cps, searchBlock)'
      /\ (written = Latest(cps, Default))'
  BY WrittenIsLatest
<1>2. ASSUME NEW b \in 1 .. searchBlock - 1
      PROVE  ValueAt(cps', Default, b) = past[b]
  <2>1. b \in Nat /\ b < searchBlock
    OBVIOUS
  <2>2. ValueAt(Written(cps, searchBlock, v), Default, b) = ValueAt(cps, Default, b)
    BY <2>1, WrittenKeepsPast
  <2>. QED BY <2>2 DEF SearchReturnsPast
<1>3. SearchReturnsPast'
  BY <1>2 DEF SearchReturnsPast
<1>. QED BY <1>1, <1>3

(***************************************************************************)
(* A new block keeps the invariant: the block that ended is not before any *)
(* checkpoint, so that its answer is the current value, which is recorded. *)
(***************************************************************************)
LEMMA EndBlockKeepsSearchInv ==
  ASSUME SearchInv, EndBlock
  PROVE  SearchInv'
<1>. USE DEF SearchInv, EndBlock
<1>1. searchBlock' \in Nat \ {0} /\ searchBlock' - 1 = searchBlock
  OBVIOUS
<1>2. /\ past' \in Seq(Values \cup {Default}) /\ Len(past') = searchBlock
      /\ past'[searchBlock] = written
      /\ \A b \in 1 .. searchBlock - 1 : past'[b] = past[b]
  OBVIOUS
<1>3. Ascending(cps, searchBlock)'
  <2>1. \A i \in 1 .. Len(cps) : cps[i].fromBlock \in Nat
    BY ListedBlocks
  <2>2. \A i \in 1 .. Len(cps) : cps[i].fromBlock <= searchBlock + 1
    BY <2>1 DEF Ascending
  <2>. QED BY <2>2 DEF Ascending
<1>4. ASSUME NEW b \in 1 .. searchBlock
      PROVE  ValueAt(cps, Default, b) = past'[b]
  <2>1. CASE b = searchBlock
    <3>1. ValueAt(cps, Default, searchBlock) = Latest(cps, Default)
      BY ValueAtEnd
    <3>. QED BY <1>2, <2>1, <3>1
  <2>2. CASE b # searchBlock
    BY <1>2, <2>2 DEF SearchReturnsPast
  <2>. QED BY <2>1, <2>2
<1>5. SearchReturnsPast'
  BY <1>1, <1>4 DEF SearchReturnsPast
<1>6. /\ CheckpointList(cps, Values)'
      /\ (written \in Values \cup {Default})'
      /\ (written = Latest(cps, Default))'
  OBVIOUS
<1>. QED BY <1>1, <1>2, <1>3, <1>5, <1>6

(***************************************************************************)
(* The binary search of getPriorVotes and getDynamicQuorumParamsAt returns *)
(* what the value was when the block ended, however long the list has      *)
(* grown.                                                                  *)
(***************************************************************************)
THEOREM SearchCorrect == SearchSpec => []SearchReturnsPast
<1>1. SearchInit => SearchInv
  <2>. SUFFICES ASSUME SearchInit PROVE SearchInv
    OBVIOUS
  <2>1. CheckpointList(cps, Values) /\ Ascending(cps, 1) /\ Latest(cps, Default) = Default
    BY DEF SearchInit, CheckpointList, Ascending, Latest
  <2>. QED BY <2>1 DEF SearchInit, SearchInv, SearchReturnsPast
<1>2. SearchInv /\ [SearchNext]_searchVars => SearchInv'
  <2>. SUFFICES ASSUME SearchInv, [SearchNext]_searchVars PROVE SearchInv'
    OBVIOUS
  <2>1. CASE EndBlock
    BY <2>1, EndBlockKeepsSearchInv
  <2>2. CASE \E v \in Values : WriteCheckpoint(v)
    BY <2>2, WriteKeepsSearchInv
  <2>3. CASE UNCHANGED searchVars
    BY <2>3 DEF SearchInv, searchVars, SearchReturnsPast
  <2>. QED BY <2>1, <2>2, <2>3 DEF SearchNext
<1>3. SearchInv => SearchReturnsPast
  BY DEF SearchInv
<1>. QED BY <1>1, <1>2, <1>3, PTL DEF SearchSpec

-------------------------------------------------------------------------------
(* The upgrade of the governor                                             *)

QuorumParamsType == [min : Nat, max : Nat, coefficient : Nat]

Sides == {"against", "for", "abstain"}

MadeType ==
  [proposer : Councillors, proposalThreshold : Nat, startBlock : Nat, endBlock : Nat,
   quorumVotes : Nat, creationBlock : Nat, totalSupply : Nat, tally : [Sides -> Nat],
   receipts : [Councillors -> [support : Sides \cup {"none"}, votes : Nat]],
   canceled : BOOLEAN]

RecordType ==
  [block : Nat, delay : Nat, outcome : {"open", "carried", "lost"}, quorum : Nat]

UpgradeTyped ==
  /\ implementation \in {"V1", "V2"}
  /\ governance \in [votingDelay : Nat, quorumVotesBPS : Nat,
                     params : Seq(CheckpointOf(QuorumParamsType))]
  /\ Ascending(governance.params, height)
  /\ made \in Seq(MadeType) /\ madeWith \in Seq(RecordType) /\ Len(madeWith) = Len(made)
  /\ height \in Nat \ {0} /\ nounVotes \in [Councillors -> Nat] /\ nounSupply \in Nat
  /\ votesAt \in [0 .. height - 1 -> [Councillors -> Nat]]

\* the proposal p agrees with the record m of its making
Recorded(p, m) ==
  /\ m.block <= height
  /\ p.startBlock = m.block + m.delay /\ p.endBlock = p.startBlock + VotingPeriod
  /\ p.creationBlock \in {0, m.block}

\* V1 stored the quorum, V2 the supply, of which V1's share is the quorum still
QuorumRecorded(p, m) ==
  /\ p.creationBlock = 0 => p.totalSupply = 0 /\ p.quorumVotes = m.quorum
  /\ p.creationBlock # 0 =>
       /\ implementation = "V2" /\ p.quorumVotes = 0
       /\ m.quorum = bps2Uint(governance.quorumVotesBPS, p.totalSupply)

\* a ballot was cast when the block of the proposal had ended
BallotsRecorded(p, m, i) ==
  \A v \in Councillors :
    p.receipts[v] # NoBallot =>
      /\ m.block < height
      /\ <<i, v>> \notin astray => p.receipts[v].votes = votesAt[m.block][v]

Decided(p, m) ==
  m.outcome # "open" => height > p.endBlock /\ ((m.outcome = "carried") = Carried(p))

Faithful(p, m, i) ==
  Recorded(p, m) /\ QuorumRecorded(p, m) /\ BallotsRecorded(p, m, i) /\ Decided(p, m)

UpgradeInv == UpgradeTyped /\ \A i \in Made : Faithful(made[i], madeWith[i], i)

-------------------------------------------------------------------------------

\* the parameters that hold for a block
ParamsOf(bps, params, block) ==
  ValueAt(params, [min |-> bps, max |-> bps, coefficient |-> 0], block)

(***************************************************************************)
(* V2's lookup is the one of the checkpoint lists.                         *)
(***************************************************************************)
LEMMA LooksUp ==
  ASSUME NEW bps, NEW checkpoints, NEW block
  PROVE  V2(bps)!getDynamicQuorumParamsAt(checkpoints, block) = ParamsOf(bps, checkpoints, block)
<1>1. V2(bps)!SearchIndex(checkpoints, block) = SearchIndex(checkpoints, block)
  BY DEF V2!SearchIndex, SearchIndex
<1> QED BY <1>1 DEF V2!getDynamicQuorumParamsAt, ParamsOf, V2!ValueAt, ValueAt

(***************************************************************************)
(* A proposal and its record as members of their types.                    *)
(***************************************************************************)
LEMMA MadeTyped ==
  ASSUME UpgradeTyped, NEW i \in Made
  PROVE  /\ made[i] \in MadeType /\ madeWith[i] \in RecordType
         /\ i \in 1 .. Len(madeWith)
  BY DEF UpgradeTyped, Made

(***************************************************************************)
(* Parameters that are set after the block of a proposal do not change its *)
(* quorum.                                                                 *)
(***************************************************************************)
LEMMA QuorumStays ==
  ASSUME UpgradeTyped, NEW p \in MadeType, NEW params \in QuorumParamsType,
         p.creationBlock < height, governance'.quorumVotesBPS = governance.quorumVotesBPS,
         governance'.params = Written(governance.params, height, params)
  PROVE  quorumVotes(p)' = quorumVotes(p)
<1> DEFINE bps == governance.quorumVotesBPS
           b   == p.creationBlock
<1>1. /\ CheckpointList(governance.params, QuorumParamsType)
      /\ Ascending(governance.params, height)
      /\ height \in Nat /\ b \in Nat
  BY DEF UpgradeTyped, CheckpointList, MadeType
<1>2. ParamsOf(bps, governance'.params, b) = ParamsOf(bps, governance.params, b)
  BY <1>1, WrittenKeepsPast DEF ParamsOf
<1> QED BY <1>2, LooksUp DEF quorumVotes

(***************************************************************************)
(* A step that leaves a proposal, the blocks and the votes alone keeps     *)
(* what is known of it, if its quorum stays when it is decided, and V1's   *)
(* share when it is V2's.                                                  *)
(***************************************************************************)
LEMMA StaysFaithful ==
  ASSUME UpgradeInv, NEW i \in Made, NEW p, NEW m, p = made[i], m = madeWith[i],
         height' = height, votesAt' = votesAt, astray \subseteq astray',
         implementation' \in {implementation, "V2"},
         \/ governance'.quorumVotesBPS = governance.quorumVotesBPS
         \/ implementation = "V1",
         m.outcome # "open" => quorumVotes(p)' = quorumVotes(p)
  PROVE  Faithful(p, m, i)'
<1>1. Faithful(p, m, i)
  BY DEF UpgradeInv
<1>2. Recorded(p, m)'
  BY <1>1 DEF Faithful, Recorded
<1>3. QuorumRecorded(p, m)'
  BY <1>1 DEF Faithful, QuorumRecorded
<1>4. BallotsRecorded(p, m, i)'
  BY <1>1 DEF Faithful, BallotsRecorded
<1>5. Decided(p, m)'
  BY <1>1 DEF Faithful, Decided, Carried
<1> QED BY <1>2, <1>3, <1>4, <1>5 DEF Faithful

\* a share of a number is a number
LEMMA ShareIsNumber ==
  ASSUME NEW bps \in Nat, NEW number \in Nat
  PROVE  bps2Uint(bps, number) \in Nat
<1>1. number * bps \in Nat
  OBVIOUS
<1>2. \A z \in Nat : z \div 10000 \in Nat
  OBVIOUS
<1> QED BY <1>1, <1>2 DEF bps2Uint

(***************************************************************************)
(* A proposal is made with the quorum that V1's share of the supply is.    *)
(***************************************************************************)
LEMMA ProposeFaithful ==
  ASSUME UpgradeInv, NEW a \in Councillors, ProposeV1(a) \/ ProposeV2(a)
  PROVE  UpgradeInv'
<1>1. PICK stored \in [quorumVotes : Nat, creationBlock : Nat, totalSupply : Nat] :
        /\ Propose(a, stored)
        /\ \/ /\ stored.creationBlock = 0 /\ stored.totalSupply = 0
              /\ stored.quorumVotes = bps2Uint(governance.quorumVotesBPS, nounSupply)
           \/ /\ implementation = "V2" /\ stored.quorumVotes = 0
              /\ stored.creationBlock = height /\ stored.totalSupply = nounSupply
  <2>1. bps2Uint(governance.quorumVotesBPS, nounSupply) \in Nat
    BY ShareIsNumber DEF UpgradeInv, UpgradeTyped
  <2>2. height \in Nat /\ nounSupply \in Nat
    BY DEF UpgradeInv, UpgradeTyped
  <2> QED BY <2>1, <2>2 DEF ProposeV1, ProposeV2
<1>0. PICK n : n = Len(made) + 1
  OBVIOUS
<1>a. PICK p, m :
        /\ p = [proposer |-> a, proposalThreshold |-> bps2Uint(ThresholdBPS, nounSupply),
                startBlock |-> height + governance.votingDelay,
                endBlock |-> height + governance.votingDelay + VotingPeriod,
                quorumVotes |-> stored.quorumVotes, creationBlock |-> stored.creationBlock,
                totalSupply |-> stored.totalSupply, tally |-> [s \in Sides |-> 0],
                receipts |-> [v \in Councillors |-> NoBallot], canceled |-> FALSE]
        /\ m = [block |-> height, delay |-> governance.votingDelay, outcome |-> "open",
                quorum |-> bps2Uint(governance.quorumVotesBPS, nounSupply)]
  OBVIOUS
<1>2. /\ made' = Append(made, p) /\ madeWith' = Append(madeWith, m)
      /\ UNCHANGED <<implementation, governance, nounVars, astray>>
  BY <1>1, <1>a DEF Propose, Sides
<1>3. /\ p \in MadeType /\ m \in RecordType
  <2>1. /\ bps2Uint(ThresholdBPS, nounSupply) \in Nat
        /\ bps2Uint(governance.quorumVotesBPS, nounSupply) \in Nat
    BY UpgradeConstants, ShareIsNumber DEF UpgradeInv, UpgradeTyped
  <2>2. height \in Nat /\ governance.votingDelay \in Nat /\ VotingPeriod \in Nat
    BY UpgradeConstants DEF UpgradeInv, UpgradeTyped
  <2>3. [v \in Councillors |-> NoBallot] \in
          [Councillors -> [support : Sides \cup {"none"}, votes : Nat]]
    BY DEF NoBallot
  <2> QED BY <1>a, <2>1, <2>2, <2>3 DEF MadeType, RecordType
<1>4. /\ made \in Seq(MadeType) /\ madeWith \in Seq(RecordType) /\ Len(madeWith) = Len(made)
  BY DEF UpgradeInv, UpgradeTyped
<1>5. /\ n \in Nat /\ made' \in Seq(MadeType) /\ madeWith' \in Seq(RecordType)
      /\ Len(made') = n /\ Len(madeWith') = n
      /\ made'[n] = p /\ madeWith'[n] = m
      /\ \A i \in Made : made'[i] = made[i] /\ madeWith'[i] = madeWith[i]
  BY <1>0, <1>2, <1>3, <1>4 DEF Made
<1>6. UpgradeTyped'
  BY <1>2, <1>5 DEF UpgradeInv, UpgradeTyped, nounVars
<1>7. Faithful(p, m, n)'
  <2>1. height \in Nat /\ height # 0 /\ governance.votingDelay \in Nat /\ VotingPeriod \in Nat
    BY UpgradeConstants DEF UpgradeInv, UpgradeTyped
  <2>2. UNCHANGED <<height, governance, implementation>>
    BY <1>2 DEF nounVars
  <2>3. Recorded(p, m)'
    BY <1>1, <1>a, <2>1, <2>2 DEF Recorded
  <2>4. QuorumRecorded(p, m)'
    <3>1. /\ p.creationBlock = stored.creationBlock /\ p.totalSupply = stored.totalSupply
          /\ p.quorumVotes = stored.quorumVotes
          /\ m.quorum = bps2Uint(governance.quorumVotesBPS, nounSupply)
      BY <1>a
    <3> QED BY <1>1, <2>1, <2>2, <3>1 DEF QuorumRecorded
  <2>5. BallotsRecorded(p, m, n)' /\ Decided(p, m)'
    BY <1>a DEF BallotsRecorded, Decided
  <2> QED BY <2>3, <2>4, <2>5 DEF Faithful
<1>8. ASSUME NEW i \in Made PROVE Faithful(made[i], madeWith[i], i)'
  <2>1. UNCHANGED <<implementation, governance, nounVars, astray>>
    BY <1>2
  <2>2. \A q : quorumVotes(q)' = quorumVotes(q)
    BY <2>1 DEF quorumVotes
  <2>3. PICK q, r : q = made[i] /\ r = madeWith[i]
    OBVIOUS
  <2>4. Faithful(q, r, i)'
    BY <2>1, <2>2, <2>3, StaysFaithful DEF nounVars
  <2>5. q = made'[i] /\ r = madeWith'[i]
    BY <1>5, <2>3
  <2> QED BY <2>4, <2>5
<1>9. Made' = Made \cup {n} /\ n \in Nat
  BY <1>0, <1>4, <1>5 DEF Made
<1>10. Faithful(made[n], madeWith[n], n)'
  BY <1>5, <1>7
<1> QED BY <1>6, <1>8, <1>9, <1>10 DEF UpgradeInv

(***************************************************************************)
(* A ballot is cast in a block after that of the proposal, whose votes are *)
(* final, and leaves alone what has been decided.                          *)
(***************************************************************************)
LEMMA CastFaithful ==
  ASSUME UpgradeInv, NEW i \in Made, NEW c \in Leanings, CastVote(c[1], i, c[2])
  PROVE  UpgradeInv'
<1> DEFINE v == c[1]
           snapshot == proposalCreationBlock(made[i])
<1>1. PICK p, m : p = made[i] /\ m = madeWith[i]
  OBVIOUS
<1>2. p \in MadeType /\ m \in RecordType /\ i \in 1 .. Len(made)
  BY <1>1, MadeTyped DEF UpgradeInv, Made
<1>3. v \in Councillors /\ c[2] \in Sides
  BY UpgradeConstants DEF Sides
<1>4. Faithful(p, m, i)
  BY <1>1 DEF UpgradeInv
<1>5. height > p.startBlock /\ height <= p.endBlock
  <2>1. ProposalState(i) = "Active"
    BY DEF CastVote
  <2>2. p.startBlock \in Nat /\ p.endBlock \in Nat /\ height \in Nat
    BY <1>2 DEF MadeType, UpgradeInv, UpgradeTyped
  <2> QED BY <1>1, <2>1, <2>2 DEF ProposalState
<1>6. /\ m.block < height /\ snapshot \in 0 .. height - 1
      /\ governance.votingDelay = m.delay => snapshot = m.block
  <2>1. /\ m.block \in Nat /\ m.delay \in Nat /\ height \in Nat /\ p.creationBlock \in Nat
        /\ governance.votingDelay \in Nat /\ p.startBlock \in Nat
    BY <1>2 DEF MadeType, RecordType, UpgradeInv, UpgradeTyped
  <2>2. snapshot >= 0
    BY DEF CastVote
  <2> QED BY <1>1, <1>4, <1>5, <2>1, <2>2 DEF Faithful, Recorded, proposalCreationBlock
<1>7. PICK w : w = votesAt[snapshot][v]
  OBVIOUS
<1>8. w \in Nat
  BY <1>3, <1>6, <1>7 DEF UpgradeInv, UpgradeTyped
<1>9. PICK q : q = [p EXCEPT !.tally[c[2]] = @ + w,
                             !.receipts[v] = [support |-> c[2], votes |-> w]]
  OBVIOUS
<1>10. made' = [made EXCEPT ![i] = q]
  BY <1>1, <1>7, <1>9 DEF CastVote
<1>11. /\ q \in MadeType
       /\ q.startBlock = p.startBlock /\ q.endBlock = p.endBlock
       /\ q.creationBlock = p.creationBlock /\ q.totalSupply = p.totalSupply
       /\ q.quorumVotes = p.quorumVotes
       /\ q.receipts = [p.receipts EXCEPT ![v] = [support |-> c[2], votes |-> w]]
  <2>1. PICK t, r : /\ t = [p.tally EXCEPT ![c[2]] = @ + w]
                    /\ r = [p.receipts EXCEPT ![v] = [support |-> c[2], votes |-> w]]
    OBVIOUS
  <2>2. t \in [Sides -> Nat]
    BY <1>2, <1>3, <1>8, <2>1 DEF MadeType
  <2>3. r \in [Councillors -> [support : Sides \cup {"none"}, votes : Nat]]
    BY <1>2, <1>3, <1>8, <2>1 DEF MadeType
  <2>4. q = [p EXCEPT !.tally = t, !.receipts = r]
    BY <1>9, <2>1
  <2> QED BY <1>2, <2>1, <2>2, <2>3, <2>4 DEF MadeType
<1>12. /\ UNCHANGED <<implementation, governance, height, nounVotes, nounSupply>>
       /\ UNCHANGED <<votesAt, madeWith>>
       /\ astray \subseteq astray'
       /\ governance.votingDelay # m.delay => <<i, v>> \in astray'
  BY <1>1 DEF CastVote, nounVars
<1>13. made \in Seq(MadeType) /\ Len(madeWith) = Len(made)
  BY DEF UpgradeInv, UpgradeTyped
<1>14. /\ made' \in Seq(MadeType) /\ Len(made') = Len(made) /\ made'[i] = q
       /\ \A j \in Made : j # i => made'[j] = made[j]
  BY <1>2, <1>10, <1>11, <1>13 DEF Made
<1>15. UpgradeTyped'
  BY <1>12, <1>14 DEF UpgradeInv, UpgradeTyped
<1>16. Faithful(q, m, i)'
  <2>1. Recorded(q, m)' /\ QuorumRecorded(q, m)'
    BY <1>4, <1>11, <1>12 DEF Faithful, Recorded, QuorumRecorded
  <2>2. BallotsRecorded(q, m, i)'
    <3> SUFFICES ASSUME NEW u \in Councillors, q.receipts[u] # NoBallot
                 PROVE  /\ m.block < height
                        /\ <<i, u>> \notin astray' => q.receipts[u].votes = votesAt[m.block][u]
      BY <1>12 DEF BallotsRecorded
    <3>1. CASE u = v
      <4>1. q.receipts[u].votes = w
        BY <1>2, <1>3, <1>11, <3>1 DEF MadeType
      <4> QED BY <1>6, <1>7, <1>12, <3>1, <4>1
    <3>2. CASE u # v
      <4>1. q.receipts[u] = p.receipts[u]
        BY <1>2, <1>11, <3>2 DEF MadeType
      <4> QED BY <1>4, <1>12, <4>1 DEF Faithful, BallotsRecorded
    <3> QED BY <3>1, <3>2
  <2>3. Decided(q, m)'
    <3>1. height \in Nat /\ p.endBlock \in Nat
      BY <1>2 DEF MadeType, UpgradeInv, UpgradeTyped
    <3>2. m.outcome = "open"
      BY <1>4, <1>5, <3>1 DEF Faithful, Decided
    <3> QED BY <3>2 DEF Decided
  <2> QED BY <2>1, <2>2, <2>3 DEF Faithful
<1>17. ASSUME NEW j \in Made, j # i PROVE Faithful(made[j], madeWith[j], j)'
  <2>1. \A x : quorumVotes(x)' = quorumVotes(x)
    BY <1>12 DEF quorumVotes
  <2>2. PICK x, y : x = made[j] /\ y = madeWith[j]
    OBVIOUS
  <2>3. Faithful(x, y, j)'
    BY <1>12, <2>1, <2>2, StaysFaithful
  <2>4. x = made'[j] /\ y = madeWith'[j]
    BY <1>12, <1>14, <1>17, <2>2
  <2> QED BY <2>3, <2>4
<1>18. Made' = Made
  BY <1>14 DEF Made
<1>19. Faithful(made[i], madeWith[i], i)'
  BY <1>1, <1>12, <1>14, <1>16
<1> QED BY <1>15, <1>17, <1>18, <1>19 DEF UpgradeInv

(***************************************************************************)
(* A proposal that is canceled keeps all the rest.                         *)
(***************************************************************************)
LEMMA CancelFaithful ==
  ASSUME UpgradeInv, NEW i \in Made, NEW a, NEW fell, Cancel(a, i, fell)
  PROVE  UpgradeInv'
<1>1. PICK p, m : p = made[i] /\ m = madeWith[i]
  OBVIOUS
<1>2. p \in MadeType /\ i \in 1 .. Len(made)
  BY <1>1, MadeTyped DEF UpgradeInv, Made
<1>3. PICK q : q = [p EXCEPT !.canceled = TRUE]
  OBVIOUS
<1>4. /\ made' = [made EXCEPT ![i] = q]
      /\ UNCHANGED <<implementation, governance, height, nounVotes, nounSupply, votesAt, madeWith,
                     astray>>
  BY <1>1, <1>3 DEF Cancel, nounVars, recordVars
<1>5. /\ q \in MadeType
      /\ q.startBlock = p.startBlock /\ q.endBlock = p.endBlock
      /\ q.creationBlock = p.creationBlock /\ q.totalSupply = p.totalSupply
      /\ q.quorumVotes = p.quorumVotes /\ q.receipts = p.receipts /\ q.tally = p.tally
  BY <1>2, <1>3 DEF MadeType
<1>6. made \in Seq(MadeType) /\ Len(madeWith) = Len(made)
  BY DEF UpgradeInv, UpgradeTyped
<1>7. /\ made' \in Seq(MadeType) /\ Len(made') = Len(made) /\ made'[i] = q
      /\ \A j \in Made : j # i => made'[j] = made[j]
  BY <1>2, <1>4, <1>5, <1>6 DEF Made
<1>8. UpgradeTyped'
  BY <1>4, <1>7 DEF UpgradeInv, UpgradeTyped
<1>9. ASSUME NEW j \in Made PROVE Faithful(made[j], madeWith[j], j)'
  <2>1. PICK x, y : x = made[j] /\ y = madeWith[j]
    OBVIOUS
  <2>2. \A z : quorumVotes(z)' = quorumVotes(z)
    BY <1>4 DEF quorumVotes
  <2>3. Faithful(x, y, j)'
    BY <1>4, <2>1, <2>2, StaysFaithful
  <2>4. CASE j # i
    BY <1>4, <1>7, <2>1, <2>3, <2>4
  <2>5. CASE j = i
    <3>1. x = p /\ y = m /\ made'[j] = q /\ madeWith'[j] = m
      BY <1>1, <1>4, <1>7, <2>1, <2>5
    <3>2. quorumVotes(q)' = quorumVotes(p)'
      BY <1>5 DEF quorumVotes
    <3>3. Carried(q)' = Carried(p)'
      BY <1>5, <3>2 DEF Carried
    <3>4. Faithful(q, m, j)'
      BY <1>5, <2>3, <3>1, <3>3
         DEF Faithful, Recorded, QuorumRecorded, BallotsRecorded, Decided
    <3> QED BY <3>1, <3>4
  <2> QED BY <2>4, <2>5
<1>10. Made' = Made
  BY <1>7 DEF Made
<1> QED BY <1>8, <1>9, <1>10 DEF UpgradeInv

(***************************************************************************)
(* What is set, sold or minted, and the new implementation, leave the      *)
(* proposals as they are.                                                  *)
(***************************************************************************)
LEMMA ChangingFaithful == UpgradeInv /\ Changing => UpgradeInv'
<1> SUFFICES ASSUME UpgradeInv, Changing PROVE UpgradeInv'
  OBVIOUS
<1>1. /\ UNCHANGED <<made, madeWith, height, votesAt, astray>>
      /\ implementation' \in {implementation, "V2"}
      /\ nounVotes' \in [Councillors -> Nat] /\ nounSupply' \in Nat
  <2>1. nounVotes \in [Councillors -> Nat] /\ nounSupply \in Nat
    BY DEF UpgradeInv, UpgradeTyped
  <2>2. ASSUME NEW sale \in Sales, PassOn(sale[1], sale[2], sale[3])
        PROVE  nounVotes' \in [Councillors -> Nat]
    <3>1. sale[1] \in Councillors /\ sale[2] \in Councillors /\ sale[3] \in Nat
      BY UpgradeConstants
    <3>2. nounVotes[sale[1]] - sale[3] \in Nat
      BY <2>1, <2>2, <3>1 DEF PassOn
    <3> QED BY <2>1, <2>2, <3>1, <3>2 DEF PassOn
  <2>3. ASSUME NEW a \in Buyers, MintNoun(a)
        PROVE  nounVotes' \in [Councillors -> Nat] /\ nounSupply' \in Nat
    BY <2>1, <2>3, UpgradeConstants DEF MintNoun
  <2> QED BY <2>1, <2>2, <2>3
       DEF Changing, SetVotingDelay, SetQuorumVotesBPS, SetDynamicQuorumParams, Governs,
           SetImplementation, PassOn, MintNoun, nounVars, recordVars
<1>2. \/ governance' = governance
      \/ \E delay \in Nat : governance' = [governance EXCEPT !.votingDelay = delay]
      \/ /\ implementation = "V1"
         /\ \E share \in Nat : governance' = [governance EXCEPT !.quorumVotesBPS = share]
      \/ \E params \in QuorumParamsType :
           governance' = [governance EXCEPT
             !.params = Written(governance.params, height, params)]
  BY UpgradeConstants
     DEF Changing, SetVotingDelay, SetQuorumVotesBPS, SetDynamicQuorumParams, Governs,
         SetImplementation, PassOn, MintNoun, QuorumParamsType
<1>3. /\ governance \in [votingDelay : Nat, quorumVotesBPS : Nat,
                         params : Seq(CheckpointOf(QuorumParamsType))]
      /\ Ascending(governance.params, height) /\ height \in Nat
  BY DEF UpgradeInv, UpgradeTyped
<1>4. \A params \in QuorumParamsType :
        /\ Written(governance.params, height, params) \in Seq(CheckpointOf(QuorumParamsType))
        /\ Ascending(Written(governance.params, height, params), height)
  BY <1>3, WrittenIsLatest DEF CheckpointList
<1>5. UpgradeTyped'
  <2>1. /\ governance' \in [votingDelay : Nat, quorumVotesBPS : Nat,
                            params : Seq(CheckpointOf(QuorumParamsType))]
        /\ Ascending(governance'.params, height)
    BY <1>2, <1>3, <1>4
  <2> QED BY <1>1, <2>1 DEF UpgradeInv, UpgradeTyped
<1>6. ASSUME NEW j \in Made PROVE Faithful(made[j], madeWith[j], j)'
  <2>1. PICK p, m : p = made[j] /\ m = madeWith[j]
    OBVIOUS
  <2>2. /\ p \in MadeType /\ m \in RecordType /\ Faithful(p, m, j)
    BY <2>1, MadeTyped DEF UpgradeInv
  <2>3. \/ governance'.quorumVotesBPS = governance.quorumVotesBPS
        \/ implementation = "V1"
    BY <1>2, <1>3
  <2>4. ASSUME m.outcome # "open" PROVE quorumVotes(p)' = quorumVotes(p)
    <3>1. CASE p.totalSupply = 0
      BY <3>1 DEF quorumVotes
    <3>2. CASE p.totalSupply # 0
      <4>1. implementation = "V2" /\ p.creationBlock < height
        <5>1. /\ p.endBlock < height /\ p.creationBlock = m.block
              /\ p.endBlock = m.block + m.delay + VotingPeriod /\ implementation = "V2"
          BY <2>2, <2>4, <3>2 DEF Faithful, Decided, Recorded, QuorumRecorded
        <5>2. m.block \in Nat /\ m.delay \in Nat /\ VotingPeriod \in Nat /\ height \in Nat
          BY <1>3, <2>2, UpgradeConstants DEF RecordType
        <5> QED BY <5>1, <5>2
      <4>2. CASE governance'.params = governance.params
        <5>1. governance'.quorumVotesBPS = governance.quorumVotesBPS
          BY <2>3, <4>1
        <5> QED BY <4>2, <5>1 DEF quorumVotes
      <4>3. CASE \E params \in QuorumParamsType :
                   governance' = [governance EXCEPT
                     !.params = Written(governance.params, height, params)]
        <5>1. PICK params \in QuorumParamsType :
                   governance' = [governance EXCEPT
                     !.params = Written(governance.params, height, params)]
          BY <4>3
        <5>2. /\ governance'.quorumVotesBPS = governance.quorumVotesBPS
              /\ governance'.params = Written(governance.params, height, params)
          BY <1>3, <5>1
        <5> QED BY <2>2, <4>1, <5>2, QuorumStays DEF UpgradeInv
      <4> QED BY <1>2, <1>3, <4>2, <4>3
    <3> QED BY <3>1, <3>2
  <2>5. Faithful(p, m, j)'
    BY <1>1, <2>1, <2>3, <2>4, StaysFaithful
  <2> QED BY <1>1, <2>1, <2>5
<1> QED BY <1>1, <1>5, <1>6 DEF UpgradeInv, Made

(***************************************************************************)
(* The end of a block fixes its votes, and decides the votes that end.     *)
(***************************************************************************)
LEMMA NextBlockFaithful == UpgradeInv /\ NextBlock => UpgradeInv'
<1> SUFFICES ASSUME UpgradeInv, NextBlock PROVE UpgradeInv'
  OBVIOUS
<1>1. /\ height \in Nat \ {0} /\ height' = height + 1
      /\ UNCHANGED <<implementation, governance, made, nounVotes, nounSupply, astray>>
  BY DEF NextBlock, UpgradeInv, UpgradeTyped
<1>2. /\ votesAt' \in [0 .. height' - 1 -> [Councillors -> Nat]]
      /\ \A b \in 0 .. height - 1 : votesAt'[b] = votesAt[b]
  <2>1. votesAt \in [0 .. height - 1 -> [Councillors -> Nat]] /\ nounVotes \in [Councillors -> Nat]
    BY DEF UpgradeInv, UpgradeTyped
  <2>2. votesAt' = [b \in 0 .. height |-> IF b < height THEN votesAt[b] ELSE nounVotes]
    BY DEF NextBlock
  <2> QED BY <1>1, <2>1, <2>2
<1>3. ASSUME NEW i \in Made
      PROVE  /\ madeWith'[i] \in RecordType
             /\ \E m : /\ m = madeWith[i] /\ madeWith'[i].block = m.block
                       /\ madeWith'[i].delay = m.delay /\ madeWith'[i].quorum = m.quorum
                       /\ \/ m.outcome = "open" /\ madeWith'[i].outcome = "open"
                          \/ m.outcome # "open" /\ madeWith'[i].outcome = m.outcome
                          \/ /\ m.outcome = "open" /\ height >= made[i].endBlock
                             /\ madeWith'[i].outcome =
                                  IF Carried(made[i]) THEN "carried" ELSE "lost"
  <2>1. madeWith[i] \in RecordType
    BY MadeTyped DEF UpgradeInv
  <2>2. madeWith'[i] =
          IF madeWith[i].outcome = "open" /\ height >= made[i].endBlock
          THEN [madeWith[i] EXCEPT !.outcome = IF Carried(made[i]) THEN "carried" ELSE "lost"]
          ELSE madeWith[i]
    BY DEF NextBlock
  <2> QED BY <2>1, <2>2 DEF RecordType
<1>4. madeWith' \in Seq(RecordType) /\ Len(madeWith') = Len(made)
  <2>1. madeWith' = [i \in Made |-> madeWith'[i]]
    BY DEF NextBlock
  <2>2. Len(made) \in Nat
    BY DEF UpgradeInv, UpgradeTyped
  <2> HIDE DEF NextBlock
  <2> QED BY <1>3, <2>1, <2>2 DEF Made
<1>5. UpgradeTyped'
  <2>1. Ascending(governance.params, height + 1)
    <3>1. \A k \in 1 .. Len(governance.params) : governance.params[k].fromBlock \in Nat
      BY ListedBlocks DEF UpgradeInv, UpgradeTyped, CheckpointList
    <3>2. Ascending(governance.params, height) /\ height \in Nat
      BY <1>1 DEF UpgradeInv, UpgradeTyped
    <3>3. ASSUME NEW k \in 1 .. Len(governance.params)
          PROVE  governance.params[k].fromBlock <= height + 1
      <4>1. PICK b \in Nat, h \in Nat : b = governance.params[k].fromBlock /\ h = height
        BY <3>1, <3>2
      <4>2. b <= h
        BY <3>2, <4>1 DEF Ascending
      <4>3. b <= h + 1
        BY <4>2
      <4> QED BY <4>1, <4>3
    <3> QED BY <3>2, <3>3 DEF Ascending
  <2> QED BY <1>1, <1>2, <1>4, <2>1 DEF UpgradeInv, UpgradeTyped
<1>6. ASSUME NEW i \in Made PROVE Faithful(made[i], madeWith[i], i)'
  <2>1. PICK p, m, n : p = made[i] /\ m = madeWith[i] /\ n = madeWith'[i]
    OBVIOUS
  <2>2. /\ p \in MadeType /\ m \in RecordType /\ Faithful(p, m, i)
    BY <2>1, MadeTyped DEF UpgradeInv
  <2>3. /\ n.block = m.block /\ n.delay = m.delay /\ n.quorum = m.quorum
        /\ \/ m.outcome = "open" /\ n.outcome = "open"
           \/ m.outcome # "open" /\ n.outcome = m.outcome
           \/ /\ m.outcome = "open" /\ height >= p.endBlock
              /\ n.outcome = IF Carried(p) THEN "carried" ELSE "lost"
    BY <1>3, <2>1
  <2>4. m.block \in Nat /\ p.endBlock \in Nat
    BY <2>2 DEF MadeType, RecordType
  <2>5. Recorded(p, n)' /\ QuorumRecorded(p, n)'
    BY <1>1, <2>2, <2>3, <2>4 DEF Faithful, Recorded, QuorumRecorded
  <2>6. BallotsRecorded(p, n, i)'
    <3> SUFFICES ASSUME NEW v \in Councillors, p.receipts[v] # NoBallot
                 PROVE  /\ m.block < height'
                        /\ <<i, v>> \notin astray' => p.receipts[v].votes = votesAt'[m.block][v]
      BY <2>3 DEF BallotsRecorded
    <3>1. /\ m.block < height
          /\ <<i, v>> \notin astray => p.receipts[v].votes = votesAt[m.block][v]
      BY <2>2 DEF Faithful, BallotsRecorded
    <3>2. m.block \in 0 .. height - 1
      BY <1>1, <2>4, <3>1
    <3> QED BY <1>1, <1>2, <2>4, <3>1, <3>2
  <2>7. Decided(p, n)'
    <3>1. Carried(p)' = Carried(p)
      BY <1>1 DEF Carried, quorumVotes
    <3>2. Carried(p) \in BOOLEAN
      BY DEF Carried
    <3> HIDE DEF Carried
    <3> QED BY <1>1, <2>2, <2>3, <2>4, <3>1, <3>2 DEF Faithful, Decided
  <2>8. Faithful(p, n, i)'
    BY <2>5, <2>6, <2>7 DEF Faithful
  <2> QED BY <1>1, <2>1, <2>8
<1> QED BY <1>1, <1>5, <1>6 DEF UpgradeInv, Made

(***************************************************************************)
(* Before V2 has parameters for a block, V1's share is the whole curve.    *)
(***************************************************************************)
LEMMA FlatQuorum ==
  ASSUME UpgradeInv, NEW i \in Made, made[i].creationBlock # 0, BeforeParams(i)
  PROVE  quorumVotes(made[i]) = madeWith[i].quorum
<1> DEFINE p == made[i]
           m == madeWith[i]
           bps == governance.quorumVotesBPS
<1>1. p \in MadeType /\ m \in RecordType /\ Faithful(p, m, i)
  BY MadeTyped DEF UpgradeInv
<1>2. /\ CheckpointList(governance.params, QuorumParamsType)
      /\ Ascending(governance.params, height) /\ bps \in Nat
  BY DEF UpgradeInv, UpgradeTyped, CheckpointList
<1>3. p.creationBlock = m.block /\ m.quorum = bps2Uint(bps, p.totalSupply)
  BY <1>1 DEF Faithful, Recorded, QuorumRecorded
<1>4. ParamsOf(bps, governance.params, p.creationBlock) =
        [min |-> bps, max |-> bps, coefficient |-> 0]
  <2>1. m.block \in Nat
    BY <1>1 DEF RecordType
  <2>2. CASE governance.params = <<>>
    BY <2>2 DEF ParamsOf, ValueAt
  <2>3. CASE governance.params # <<>> /\ governance.params[1].fromBlock > m.block
    <3>1. /\ Len(governance.params) \in Nat /\ Len(governance.params) >= 1
          /\ \A k \in 1 .. Len(governance.params) : governance.params[k].fromBlock \in Nat
      BY <1>2, <2>3, ListedBlocks
    <3>2. \A k \in 1 .. Len(governance.params) :
            governance.params[1].fromBlock <= governance.params[k].fromBlock
      BY <1>2, <3>1 DEF Ascending
    <3>3. \A k \in 1 .. Len(governance.params) : ~ (governance.params[k].fromBlock <= m.block)
      BY <2>1, <2>3, <3>1, <3>2
    <3> QED BY <1>3, <2>1, <2>3, <3>1, <3>3 DEF ParamsOf, ValueAt
  <2> QED BY <2>2, <2>3 DEF BeforeParams
<1>5. CASE p.totalSupply = 0
  <2>1. m.quorum = 0
    <3>1. bps2Uint(bps, 0) = 0
      BY <1>2 DEF bps2Uint
    <3> QED BY <1>3, <1>5, <3>1
  <2>2. p.quorumVotes = 0
    BY <1>1 DEF Faithful, QuorumRecorded
  <2> QED BY <1>5, <2>1, <2>2 DEF quorumVotes
<1>6. CASE p.totalSupply # 0
  <2> DEFINE flat == [min |-> bps, max |-> bps, coefficient |-> 0]
             against == (10000 * p.tally["against"]) \div p.totalSupply
  <2>1. quorumVotes(p) = V2(bps)!dynamicQuorumVotes(p.tally["against"], p.totalSupply, flat)
    BY <1>4, <1>6, LooksUp DEF quorumVotes
  <2>2. against \in Nat
    <3>1. p.tally["against"] \in Nat /\ p.totalSupply \in Nat \ {0}
      BY <1>1, <1>6 DEF MadeType, Sides
    <3>2. \A x \in Nat, y \in Nat \ {0} : x \div y \in Nat
      OBVIOUS
    <3>3. 10000 * p.tally["against"] \in Nat
      BY <3>1
    <3> HIDE DEF p
    <3> QED BY <3>1, <3>2, <3>3
  <2>3. (flat.coefficient * against) \div 1000 = 0
    BY <2>2
  <2>4. V2(bps)!AtMost(flat.max, flat.min + 0) = bps
    BY <1>2 DEF V2!AtMost
  <2>5. V2(bps)!dynamicQuorumVotes(p.tally["against"], p.totalSupply, flat) =
          bps2Uint(bps, p.totalSupply)
    BY <2>3, <2>4 DEF V2!dynamicQuorumVotes, V2!bps2Uint, bps2Uint
  <2> QED BY <1>3, <2>1, <2>5
<1> QED BY <1>5, <1>6

(***************************************************************************)
(* What proposals were made with survives every setting, every sale and    *)
(* the upgrade at any moment, for any number of proposals and blocks.      *)
(***************************************************************************)
THEOREM ProposalsAreKept == UpgradeSpec => []UpgradeKeepsProposals
<1>1. UpgradeInit => UpgradeInv
  <2> SUFFICES ASSUME UpgradeInit PROVE UpgradeInv
    OBVIOUS
  <2>1. UpgradeTyped
    BY UpgradeConstants DEF UpgradeInit, UpgradeTyped, Ascending
  <2>2. Made = {}
    BY DEF UpgradeInit, Made
  <2> QED BY <2>1, <2>2 DEF UpgradeInv
<1>2. UpgradeInv /\ [UpgradeNext]_upgradeVars => UpgradeInv'
  <2> SUFFICES ASSUME UpgradeInv, [UpgradeNext]_upgradeVars PROVE UpgradeInv'
    OBVIOUS
  <2>1. CASE UNCHANGED upgradeVars
    <3>1. UNCHANGED <<made, madeWith, governance, implementation, height, votesAt, nounVotes,
                      nounSupply, astray>>
      BY <2>1 DEF upgradeVars
    <3>2. UpgradeTyped'
      BY <3>1 DEF UpgradeInv, UpgradeTyped
    <3>3. ASSUME NEW i \in Made PROVE Faithful(made[i], madeWith[i], i)'
      <4>1. PICK p, m : p = made[i] /\ m = madeWith[i]
        OBVIOUS
      <4>2. quorumVotes(p)' = quorumVotes(p)
        BY <3>1 DEF quorumVotes
      <4>3. Faithful(p, m, i)'
        BY <3>1, <4>1, <4>2, StaysFaithful
      <4> QED BY <3>1, <4>1, <4>3
    <3> QED BY <3>1, <3>2, <3>3 DEF UpgradeInv, Made
  <2>2. ASSUME NEW a \in Councillors, ProposeV1(a) \/ ProposeV2(a) PROVE UpgradeInv'
    BY <2>2, ProposeFaithful
  <2>3. ASSUME NEW i \in Made, NEW c \in Leanings, CastVote(c[1], i, c[2]) PROVE UpgradeInv'
    BY <2>3, CastFaithful
  <2>4. ASSUME NEW i \in Made, NEW a \in Councillors, CancelV1(a, i) \/ CancelV2(a, i)
        PROVE  UpgradeInv'
    BY <2>4, CancelFaithful DEF CancelV1, CancelV2
  <2>5. CASE NextBlock
    BY <2>5, NextBlockFaithful
  <2>6. CASE Changing
    BY <2>6, ChangingFaithful
  <2> QED BY <2>1, <2>2, <2>3, <2>4, <2>5, <2>6 DEF UpgradeNext, Voting
<1>3. UpgradeInv => UpgradeKeepsProposals
  <2> SUFFICES ASSUME UpgradeInv, NEW i \in Made
               PROVE  /\ \A v \in Councillors :
                           made[i].receipts[v] # NoBallot /\ <<i, v>> \notin astray =>
                             made[i].receipts[v].votes = votesAt[madeWith[i].block][v]
                      /\ made[i].creationBlock = 0 \/ BeforeParams(i) =>
                           quorumVotes(made[i]) = madeWith[i].quorum
                      /\ madeWith[i].outcome # "open" =>
                           (madeWith[i].outcome = "carried") = Carried(made[i])
    BY DEF UpgradeKeepsProposals
  <2>1. Faithful(made[i], madeWith[i], i)
    BY DEF UpgradeInv
  <2>2. made[i].creationBlock = 0 => quorumVotes(made[i]) = madeWith[i].quorum
    BY <2>1 DEF Faithful, QuorumRecorded, quorumVotes
  <2>3. made[i].creationBlock # 0 /\ BeforeParams(i) =>
          quorumVotes(made[i]) = madeWith[i].quorum
    BY FlatQuorum
  <2> QED BY <2>1, <2>2, <2>3 DEF Faithful, BallotsRecorded, Decided
<1> QED BY <1>1, <1>2, <1>3, PTL DEF UpgradeSpec

-------------------------------------------------------------------------------
(* The dialog that votes                                                   *)

Ballots == Support \cup {"none"}

RequestType ==
  [id : Nat, support : Support,
   at : {"asking", "estimating", "signing", "mining", "Success", "Fail"}]

VoteTyped ==
  /\ vote \in Ballots /\ submitted \in Nat
  /\ requests \in SUBSET RequestType

(***************************************************************************)
(* A vote that was mined is thanked for or its receipt is on its way, and  *)
(* neither happens without one.                                            *)
(***************************************************************************)
BallotIsKnown ==
  /\ isVoteSuccessful \/ (\E r \in requests : r.at = "Success") => ballot # "none"
  /\ ballot # "none" => isVoteSuccessful \/ \E r \in requests : r.at = "Success"

\* what loads is under way, or has died without a word
LoadsForRequest == isLoading /\ ~unanswered => requests # {}

VoteInv == VoteTyped /\ BallotIsKnown /\ LoadsForRequest

(***************************************************************************)
(* A request that moves on is still the same request.                      *)
(***************************************************************************)
LEMMA RequestMovesOn ==
  ASSUME VoteTyped, NEW r \in requests,
         NEW at \in {"asking", "estimating", "signing", "mining", "Success", "Fail"},
         MovesOn(r, at), r.at # "Success"
  PROVE  /\ requests' \in SUBSET RequestType /\ requests' # {}
         /\ (\E q \in requests' : q.at = "Success")
              <=> at = "Success" \/ \E q \in requests : q.at = "Success"
<1>1. PICK moved : moved = [r EXCEPT !.at = at] OBVIOUS
<1>2. moved \in RequestType /\ moved.at = at BY <1>1 DEF VoteTyped, RequestType
<1>3. requests' = (requests \ {r}) \cup {moved} BY <1>1 DEF MovesOn
<1> QED BY <1>2, <1>3 DEF VoteTyped

(***************************************************************************)
(* So is one that is no more: only the receipt takes a mined vote away.    *)
(***************************************************************************)
LEMMA RequestGoes ==
  ASSUME VoteTyped, NEW r \in requests, requests' = requests \ {r}
  PROVE  /\ requests' \in SUBSET RequestType
         /\ r.at # "Success" =>
              ((\E q \in requests' : q.at = "Success") <=> \E q \in requests : q.at = "Success")
  BY DEF VoteTyped

\* nothing that happens to the dialog takes its invariant away
LEMMA VoteStepKeeps == VoteInv /\ [VoteNext]_voteVars => VoteInv'
<1> SUFFICES ASSUME VoteInv, [VoteNext]_voteVars
             PROVE  VoteInv'
  OBVIOUS
<1> USE DEF VoteInv
<1>1. ASSUME UNCHANGED <<vote, submitted, requests, ballot, isVoteSuccessful>>,
             isLoading' /\ ~unanswered' => isLoading /\ ~unanswered
      PROVE  VoteInv'
  BY <1>1 DEF VoteTyped, BallotIsKnown, LoadsForRequest
<1>2. CASE OpenVoteDialog
  BY <1>1, <1>2 DEF OpenVoteDialog, dialogFlags, voteChain
<1>3. CASE DismissVoteDialog
  BY <1>1, <1>3 DEF DismissVoteDialog, voteChain
<1>4. CASE CloseAfterSuccess
  BY <1>1, <1>4 DEF CloseAfterSuccess, voteChain
<1>5. CASE SubmitVote
  <2>1. vote \in Support /\ submitted \in Nat
    BY <1>5 DEF SubmitVote, VoteTyped, Ballots
  <2>2. PICK new : new = [id |-> submitted, support |-> vote, at |-> "asking"]
    OBVIOUS
  <2>3. new \in RequestType /\ new.at # "Success"
    BY <2>1, <2>2 DEF RequestType
  <2>4. requests' = requests \cup {new}
    BY <1>5, <2>2 DEF SubmitVote
  <2>5. requests' \in SUBSET RequestType /\ requests' # {}
    BY <2>3, <2>4 DEF VoteTyped
  <2>6. (\E q \in requests' : q.at = "Success") <=> \E q \in requests : q.at = "Success"
    BY <2>3, <2>4
  <2>7. submitted' \in Nat
    BY <1>5, <2>1 DEF SubmitVote
  <2> QED
    BY <1>5, <2>5, <2>6, <2>7 DEF SubmitVote, voteChain, VoteTyped, BallotIsKnown, LoadsForRequest
<1>6. ASSUME NEW s \in Support, EnterVote(s)
      PROVE  VoteInv'
  BY <1>6 DEF EnterVote, dialogFlags, voteChain, VoteTyped, Ballots, BallotIsKnown, LoadsForRequest
<1>7. ASSUME NEW r \in requests, SignerKnown(r) \/ Estimated(r)
      PROVE  VoteInv'
  <2>1. PICK at \in {"asking", "estimating", "signing"} : MovesOn(r, at)
    BY <1>7 DEF SignerKnown, Estimated
  <2>2. r.at # "Success"
    BY <1>7 DEF SignerKnown, Estimated
  <2>3. /\ requests' \in SUBSET RequestType /\ requests' # {}
        /\ (\E q \in requests' : q.at = "Success") <=> \E q \in requests : q.at = "Success"
    BY <2>1, <2>2, RequestMovesOn
  <2> QED
    BY <1>7, <2>3 DEF SignerKnown, Estimated, dialogFlags, voteChain, VoteTyped, BallotIsKnown,
                      LoadsForRequest
<1>8. ASSUME NEW r \in requests, RequestDies(r) \/ RefuseVote(r)
      PROVE  VoteInv'
  <2>1. requests' = requests \ {r} /\ r.at # "Success"
    BY <1>8 DEF RequestDies, RefuseVote
  <2>2. /\ requests' \in SUBSET RequestType
        /\ (\E q \in requests' : q.at = "Success") <=> \E q \in requests : q.at = "Success"
    BY <2>1, RequestGoes
  <2>3. ~(isLoading' /\ ~unanswered')
    BY <1>8 DEF RequestDies, RefuseVote, handleVoteStateChange
  <2>4. UNCHANGED <<vote, submitted, ballot>> /\ (isVoteSuccessful' <=> isVoteSuccessful)
    <3>1. CASE RequestDies(r)
      BY <3>1 DEF RequestDies, dialogFlags, voteChain
    <3>2. CASE RefuseVote(r)
      <4>1. isVoteSuccessful' = (isVoteSuccessful \/ "Exception" = "Success")
        BY <3>2 DEF RefuseVote, handleVoteStateChange
      <4> QED
        BY <3>2, <4>1 DEF RefuseVote, voteChain
    <3> QED
      BY <1>8, <3>1, <3>2
  <2> QED
    BY <2>2, <2>3, <2>4 DEF VoteTyped, BallotIsKnown, LoadsForRequest
<1>9. ASSUME NEW r \in requests, SignVote(r)
      PROVE  VoteInv'
  <2>1. /\ requests' \in SUBSET RequestType /\ requests' # {}
        /\ (\E q \in requests' : q.at = "Success") <=> \E q \in requests : q.at = "Success"
    BY <1>9, RequestMovesOn DEF SignVote
  <2> QED
    BY <1>9, <2>1 DEF SignVote, handleVoteStateChange, voteChain, VoteTyped, BallotIsKnown,
                      LoadsForRequest
<1>10. ASSUME NEW r \in requests, MineVote(r)
       PROVE  VoteInv'
  <2>1. r.support \in Support /\ r.support # "none"
    BY VoteConstants DEF VoteTyped, RequestType
  <2>2. PICK at \in {"Success", "Fail"} :
          /\ MovesOn(r, at)
          /\ at = "Success" => ballot' = r.support
          /\ at = "Fail" => ballot' = ballot
    BY <1>10 DEF MineVote
  <2>3. r.at # "Success"
    BY <1>10 DEF MineVote
  <2>4. /\ requests' \in SUBSET RequestType /\ requests' # {}
        /\ (\E q \in requests' : q.at = "Success")
             <=> at = "Success" \/ \E q \in requests : q.at = "Success"
    BY <2>2, <2>3, RequestMovesOn
  <2> QED
    BY <1>10, <2>1, <2>2, <2>4 DEF MineVote, dialogFlags, VoteTyped, BallotIsKnown, LoadsForRequest
<1>11. ASSUME NEW r \in requests, VoteReceipt(r)
       PROVE  VoteInv'
  <2>1. requests' = requests \ {r} /\ r.at \in {"Success", "Fail"}
    BY <1>11 DEF VoteReceipt
  <2>2. /\ requests' \in SUBSET RequestType
        /\ r.at # "Success" =>
             ((\E q \in requests' : q.at = "Success") <=> \E q \in requests : q.at = "Success")
    BY <2>1, RequestGoes
  <2>3. /\ UNCHANGED <<vote, submitted, ballot>> /\ isLoading' = FALSE
        /\ isVoteSuccessful' = (isVoteSuccessful \/ r.at = "Success")
    BY <1>11, <2>1 DEF VoteReceipt, handleVoteStateChange, voteChain
  <2> QED
    BY <2>1, <2>2, <2>3 DEF VoteTyped, BallotIsKnown, LoadsForRequest
<1>12. CASE VotingEnds
  BY <1>1, <1>12 DEF VotingEnds, dialogFlags
<1>13. CASE SeeReceipt
  BY <1>1, <1>13 DEF SeeReceipt, dialogFlags, voteChain
<1>14. CASE UNCHANGED voteVars
  BY <1>1, <1>14 DEF voteVars, dialogFlags, voteChain
<1> QED
  BY <1>2, <1>3, <1>4, <1>5, <1>6, <1>7, <1>8, <1>9, <1>10, <1>11, <1>12, <1>13, <1>14
  DEF VoteNext

(***************************************************************************)
(* DialogFollowsBallot: the dialog thanks for a vote when and only when    *)
(* the ballot is on chain, and loads only for a vote under way, however    *)
(* many are sent (handleVoteStateChange).                                  *)
(***************************************************************************)
THEOREM ThanksForBallots == VoteSpec => []DialogFollowsBallot
<1>1. VoteInit => VoteInv
  BY DEF VoteInit, VoteInv, VoteTyped, Ballots, BallotIsKnown, LoadsForRequest
<1>2. VoteInv => DialogFollowsBallot
  BY DEF VoteInv, BallotIsKnown, LoadsForRequest, DialogFollowsBallot
<1> QED
  BY <1>1, <1>2, VoteStepKeeps, PTL DEF VoteSpec


-------------------------------------------------------------------------------
(* The dialog that delegates                                               *)

DelegationStatuses ==
  {"PendingSignature", "Mining", "Exception", "Mined", "Reverted", "Success", "Fail"}

DelegationType ==
  [to : Addresses, entered : Addresses \cup DOMAIN ENS \cup DeepLinks \cup {""},
   status : DelegationStatuses, followed : BOOLEAN]

PanelTyped ==
  /\ delegateTo \in DeepLinks \cup {"none"}
  /\ delegateInputText \in Addresses \cup DOMAIN ENS \cup DeepLinks \cup {""}
  /\ delegations \in Seq(DelegationType)

PanelInv == PanelTyped /\ PanelTellsTheChain

(***************************************************************************)
(* What is shown as long as the delegations that are followed stay as far  *)
(* as they were.                                                           *)
(***************************************************************************)
LEMMA PanelGoesOnTelling ==
  ASSUME PanelTellsTheChain,
         changeDelegateState' \in {"ENTER_DELEGATE_ADDRESS", changeDelegateState},
         \A statuses \in {{"Mining", "Mined", "Reverted"}, {"Success"}, {"Fail", "Exception"}} :
           Followed(statuses) # {} => Followed(statuses)' # {}
  PROVE  PanelTellsTheChain'
  BY DEF PanelTellsTheChain

(***************************************************************************)
(* What has been sent, one by one.                                         *)
(***************************************************************************)
LEMMA SentAre ==
  ASSUME PanelTyped
  PROVE  /\ delegations \in Seq(DelegationType) /\ Len(delegations) \in Nat
         /\ DOMAIN delegations = 1 .. Len(delegations)
         /\ \A i \in DOMAIN delegations : delegations[i] \in DelegationType
<1>1. delegations \in Seq(DelegationType)
  BY DEF PanelTyped
<1>2. Len(delegations) \in Nat /\ DOMAIN delegations = 1 .. Len(delegations)
  BY <1>1
<1> QED
  BY <1>1, <1>2, ElementOfSeq

(***************************************************************************)
(* The status of one delegation changes, and nothing of the others.        *)
(***************************************************************************)
LEMMA StatusChanges ==
  ASSUME PanelTyped, NEW i \in DOMAIN delegations, NEW reported \in DelegationStatuses,
         delegations' = [delegations EXCEPT ![i].status = reported]
  PROVE  /\ delegations' \in Seq(DelegationType) /\ DOMAIN delegations' = DOMAIN delegations
         /\ delegations'[i].status = reported
         /\ delegations'[i].followed = delegations[i].followed
         /\ \A j \in DOMAIN delegations : j # i => delegations'[j] = delegations[j]
<1>1. /\ delegations[i] \in DelegationType
      /\ i \in 1 .. Len(delegations)
  BY SentAre
<1>2. PICK old \in DelegationType : old = delegations[i]
  BY <1>1
<1>3. PICK new : new = [old EXCEPT !.status = reported]
  OBVIOUS
<1>4. new \in DelegationType /\ new.status = reported /\ new.followed = old.followed
  BY <1>3 DEF DelegationType
<1>5. delegations' = [delegations EXCEPT ![i] = new]
  BY <1>2, <1>3
<1>6. delegations' \in Seq(DelegationType)
  BY <1>1, <1>4, <1>5, SentAre, ExceptSeq
<1> QED
  BY <1>2, <1>4, <1>5, <1>6

(***************************************************************************)
(* What a delegation of this dialog reports is shown, and is true of it.   *)
(***************************************************************************)
LEMMA ReportsAreTrue ==
  ASSUME PanelInv, NEW i \in DOMAIN delegations,
          NEW reported \in {"Mining", "Exception", "Success", "Fail"},
         delegations[i].status \in {"PendingSignature", "Mined", "Reverted"},
         Reports(i, reported)
  PROVE  PanelInv'
<1>1. /\ delegations' \in Seq(DelegationType) /\ DOMAIN delegations' = DOMAIN delegations
      /\ delegations'[i].status = reported
      /\ delegations'[i].followed = delegations[i].followed
      /\ \A j \in DOMAIN delegations : j # i => delegations'[j] = delegations[j]
  BY StatusChanges DEF Reports, PanelInv, DelegationStatuses
<1>2. PanelTyped'
  BY <1>1 DEF Reports, PanelInv, PanelTyped, delegationInput
<1>3. CASE delegations[i].followed
  <2>1. changeDelegateState' = StateShown(reported, changeDelegateState)
    BY <1>3 DEF Reports
  <2>2. \A statuses : reported \in statuses => Followed(statuses)' # {}
    BY <1>1, <1>3 DEF Followed
  <2>3. PanelTellsTheChain'
    BY <2>1, <2>2 DEF PanelTellsTheChain, StateShown
  <2> QED
    BY <1>2, <2>3 DEF PanelInv
<1>4. CASE ~delegations[i].followed
  <2>1. changeDelegateState' = changeDelegateState
    BY <1>4 DEF Reports
  <2>2. \A statuses : Followed(statuses) # {} => Followed(statuses)' # {}
    BY <1>1, <1>4 DEF Followed
  <2>3. PanelTellsTheChain'
    BY <2>1, <2>2, PanelGoesOnTelling DEF PanelInv
  <2> QED
    BY <1>2, <2>3 DEF PanelInv
<1> QED
  BY <1>3, <1>4

\* nor does anything that happens to the delegation panel
LEMMA PanelStepKeeps == PanelInv /\ [DelegationNext]_delegationVars => PanelInv'
<1> SUFFICES ASSUME PanelInv, [DelegationNext]_delegationVars
             PROVE  PanelInv'
  OBVIOUS
<1> USE DEF PanelInv
<1>1. ASSUME delegations' = delegations,
             changeDelegateState' \in {"ENTER_DELEGATE_ADDRESS", changeDelegateState},
             delegateTo' \in DeepLinks \cup {"none"},
             delegateInputText' \in Addresses \cup DOMAIN ENS \cup DeepLinks \cup {""}
      PROVE  PanelInv'
  <2>1. PanelTyped'
    BY <1>1 DEF PanelTyped
  <2>2. PanelTellsTheChain'
    BY <1>1, PanelGoesOnTelling DEF Followed
  <2> QED
    BY <2>1, <2>2
<1>2. /\ delegateTo \in DeepLinks \cup {"none"}
      /\ delegateInputText \in Addresses \cup DOMAIN ENS \cup DeepLinks \cup {""}
  BY DEF PanelTyped
<1>3. ASSUME NEW link \in DeepLinks, OpenDelegation(link)
      PROVE  PanelInv'
  BY <1>1, <1>2, <1>3 DEF OpenDelegation, MountPanel, delegationInput, delegationChain
<1>4. CASE UpdateDelegate
  <2>1. delegateInputText' \in DeepLinks \cup {""}
    BY <1>2, <1>4 DEF UpdateDelegate, MountPanel
  <2> QED
    BY <1>1, <1>2, <1>4, <2>1 DEF UpdateDelegate, MountPanel, delegationChain
<1>5. CASE CloseDelegation
  <2>1. delegations' \in Seq(DelegationType)
    <3>1. \A i \in DOMAIN delegations :
            [delegations[i] EXCEPT !.followed = FALSE] \in DelegationType
      <4> SUFFICES ASSUME NEW i \in DOMAIN delegations
                   PROVE  [delegations[i] EXCEPT !.followed = FALSE] \in DelegationType
        OBVIOUS
      <4>1. PICK old \in DelegationType : old = delegations[i]
        BY SentAre
      <4> QED
        BY <4>1 DEF DelegationType
    <3>2. DOMAIN delegations = 1 .. Len(delegations) /\ Len(delegations) \in Nat
      BY SentAre
    <3>3. delegations' \in [1 .. Len(delegations) -> DelegationType]
      BY <1>5, <3>1, <3>2 DEF CloseDelegation
    <3> QED
      BY <3>2, <3>3
  <2>2. /\ changeDelegateState' = "ENTER_DELEGATE_ADDRESS" /\ delegateInputText' = ""
        /\ delegateTo' = "none"
    BY <1>5 DEF CloseDelegation
  <2> QED
    BY <2>1, <2>2 DEF PanelTyped, PanelTellsTheChain
<1>6. ASSUME NEW text \in Addresses \union DOMAIN ENS, EnterDelegate(text)
      PROVE  PanelInv'
  BY <1>1, <1>2, <1>6 DEF EnterDelegate, delegationChain
<1>7. ASSUME NEW name \in resolving, ResolveENS(name)
      PROVE  PanelInv'
  BY <1>1, <1>2, <1>7 DEF ResolveENS, delegationChain
<1>8. CASE DelegateVotes
  <2>1. PICK request : request = [to |-> delegateAddress, entered |-> delegateInputText,
                            status |-> "PendingSignature", followed |-> TRUE]
    OBVIOUS
  <2>2. request \in DelegationType
    BY <1>2, <1>8, <2>1 DEF DelegateVotes, isAddress, DelegationType, DelegationStatuses
  <2>3. delegations' = Append(delegations, request)
    BY <1>8, <2>1 DEF DelegateVotes
  <2>4. /\ delegations' \in Seq(DelegationType)
        /\ \A i \in DOMAIN delegations :
             i \in DOMAIN delegations' /\ delegations'[i] = delegations[i]
    <3>1. delegations \in Seq(DelegationType)
      BY SentAre
    <3>2. /\ delegations' \in Seq(DelegationType)
          /\ Len(delegations') = Len(delegations) + 1
          /\ \A i \in 1 .. Len(delegations) : delegations'[i] = delegations[i]
      BY <2>2, <2>3, <3>1, AppendProperties
    <3>3. DOMAIN delegations' = 1 .. Len(delegations')
      BY <3>2
    <3> QED
      BY <3>2, <3>3, SentAre
  <2>5. \A statuses : Followed(statuses) # {} => Followed(statuses)' # {}
    BY <2>4 DEF Followed
  <2>6. UNCHANGED <<changeDelegateState, delegateTo, delegateInputText>>
    BY <1>8 DEF DelegateVotes, delegationInput
  <2>7. PanelTellsTheChain'
    BY <2>5, <2>6, PanelGoesOnTelling
  <2> QED
    BY <1>2, <2>4, <2>6, <2>7 DEF PanelTyped
<1>9. ASSUME NEW i \in DOMAIN delegations, NEW reported \in {"Mining", "Exception"},
             SignDelegation(i, reported)
      PROVE  PanelInv'
  BY <1>9, ReportsAreTrue DEF SignDelegation
<1>10. ASSUME NEW i \in DOMAIN delegations, NEW succeeds \in BOOLEAN, MineDelegation(i, succeeds)
       PROVE  PanelInv'
  <2>1. PICK reported \in {"Mined", "Reverted"} :
          delegations' = [delegations EXCEPT ![i].status = reported]
    BY <1>10 DEF MineDelegation
  <2>2. /\ delegations' \in Seq(DelegationType) /\ DOMAIN delegations' = DOMAIN delegations
        /\ delegations'[i].status = reported
        /\ delegations'[i].followed = delegations[i].followed
        /\ \A j \in DOMAIN delegations : j # i => delegations'[j] = delegations[j]
    BY <2>1, StatusChanges DEF DelegationStatuses
  <2>3. delegations[i].status = "Mining"
    BY <1>10 DEF MineDelegation
  <2>4. \A statuses \in {{"Mining", "Mined", "Reverted"}, {"Success"}, {"Fail", "Exception"}} :
           Followed(statuses) # {} => Followed(statuses)' # {}
    <3>1. "Mining" \in {"Mining", "Mined", "Reverted"}
          /\ reported \in {"Mining", "Mined", "Reverted"}
          /\ "Mining" \notin {"Success"} /\ "Mining" \notin {"Fail", "Exception"}
      OBVIOUS
    <3>2. \A statuses : (reported \in statuses \/ "Mining" \notin statuses)
             => (Followed(statuses) # {} => Followed(statuses)' # {})
      BY <2>2, <2>3 DEF Followed
    <3> QED
      BY <3>1, <3>2
  <2>5. UNCHANGED <<changeDelegateState, delegateTo, delegateInputText>>
    BY <1>10 DEF MineDelegation, delegationInput
  <2>6. PanelTellsTheChain'
    BY <2>4, <2>5, PanelGoesOnTelling
  <2> QED
    BY <1>2, <2>2, <2>5, <2>6 DEF PanelTyped
<1>11. ASSUME NEW i \in DOMAIN delegations, DelegationReceipt(i)
       PROVE  PanelInv'
  <2>1. PICK reported \in {"Mining", "Exception", "Success", "Fail"} : Reports(i, reported)
    BY <1>11 DEF DelegationReceipt
  <2> QED
    BY <1>11, <2>1, ReportsAreTrue DEF DelegationReceipt
<1>12. CASE ChangeAgain
  BY <1>1, <1>2, <1>12 DEF ChangeAgain, delegationChain
<1>13. CASE BalanceChanges
  BY <1>1, <1>2, <1>13 DEF BalanceChanges, delegationInput, delegationChain
<1>14. CASE UNCHANGED delegationVars
  BY <1>1, <1>2, <1>14 DEF delegationVars, delegationInput, delegationChain
<1> QED
  BY <1>3, <1>4, <1>5, <1>6, <1>7, <1>8, <1>9, <1>10, <1>11, <1>12, <1>13, <1>14
  DEF DelegationNext

(***************************************************************************)
(* PanelTellsTheChain: what the dialog says of a delegation is true of one *)
(* that was sent from it, although one hook follows them all               *)
(* (ChangeDelegatePanel, delegateState).                                   *)
(***************************************************************************)
THEOREM PanelIsTrue == DelegationSpec => []PanelTellsTheChain
<1>1. DelegationInit => PanelInv
  BY EmptySeq DEF DelegationInit, PanelInv, PanelTyped, PanelTellsTheChain
<1>2. PanelInv => PanelTellsTheChain
  BY DEF PanelInv
<1> QED
  BY <1>1, <1>2, PanelStepKeeps, PTL DEF DelegationSpec


-------------------------------------------------------------------------------
(* The cache of logs                                                       *)

ResultsType == [blockNumber : Int, logs : SUBSET Int, error : BOOLEAN]

ListenedType == [listeners : Int, fetching : Int, results : ResultsType]

CallType == [filter : Filters, blockNumber : Nat \ {0}]

LogsTyped ==
  /\ headBlock \in Nat \ {0}
  /\ blockNumber = Never \/ blockNumber \in 1 .. headBlock
  /\ logged \in [Filters -> SUBSET (1 .. headBlock)]
  /\ DOMAIN logsState \subseteq Filters
  /\ logsState \in [DOMAIN logsState -> ListenedType]
  /\ logCalls \in SUBSET CallType
  /\ \A call \in logCalls : call.blockNumber <= headBlock

(***************************************************************************)
(* Results that are no error are the chain's logs up to their block, and   *)
(* the block that was fetched is answered for or will be.                  *)
(***************************************************************************)
ResultsAre(f) ==
  /\ \/ logsState[f].results = NoResults
     \/ logsState[f].results.blockNumber \in 1 .. headBlock
  /\ logsState[f].results # NoResults /\ ~logsState[f].results.error =>
       logsState[f].results.logs = {b \in logged[f] : b <= logsState[f].results.blockNumber}

FetchIsAnswered(f) ==
  \/ logsState[f].fetching <= logsState[f].results.blockNumber
  \/ \E call \in logCalls : call.filter = f /\ call.blockNumber = logsState[f].fetching

LogsInv ==
  /\ LogsTyped
  /\ \A f \in DOMAIN logsState : ResultsAre(f) /\ FetchIsAnswered(f)

(***************************************************************************)
(* The calls that a fetch is split into leave no block out: the last       *)
(* multiple of the length of a call that is not after a block starts one   *)
(* that reaches it.                                                        *)
(***************************************************************************)
LEMMA RangesCover ==
  ASSUME NEW to \in Nat, NEW b \in 0 .. to
  PROVE  \E r \in Ranges(to) : r.fromBlock <= b /\ b <= r.toBlock
<1>1. PICK M \in Nat \ {0} : M = MAX_BLOCKS_PER_CALL
  BY LogsConstants
<1>2. PICK n \in Nat, q \in Nat, rest \in 0 .. M - 1 :
        n = M * q /\ b = n + rest /\ n % M = 0
  <2>1. PICK q \in Nat : q = b \div M
    OBVIOUS
  <2>2. b = M * q + (b % M) /\ b % M \in 0 .. M - 1
    BY <2>1
  <2>3. M * q \in Nat /\ (M * q) % M = 0
    OBVIOUS
  <2> QED
    BY <2>2, <2>3
<1>3. PICK last : last = IF n + M < to THEN n + M ELSE to
  OBVIOUS
<1>4. n \in 0 .. to /\ n <= b /\ b <= last
  BY <1>2, <1>3
<1>5. PICK r : r = [fromBlock |-> n, toBlock |-> last]
  OBVIOUS
<1>6. r \in Ranges(to)
  BY <1>1, <1>2, <1>3, <1>4, <1>5 DEF Ranges
<1> QED
  BY <1>4, <1>5, <1>6

(***************************************************************************)
(* So the answers together are the logs up to the block of the fetch,      *)
(* although logs at the seams come twice.                                  *)
(***************************************************************************)
LEMMA LogsUpToAre ==
  ASSUME NEW f \in Filters, NEW to \in Nat, logged[f] \in SUBSET Nat
  PROVE  LogsUpTo(f, to) = {b \in logged[f] : b <= to}
<1>1. \A b \in logged[f] : b <= to => \E r \in Ranges(to) : r.fromBlock <= b /\ b <= r.toBlock
  <2> SUFFICES ASSUME NEW b \in logged[f], b <= to
               PROVE  \E r \in Ranges(to) : r.fromBlock <= b /\ b <= r.toBlock
    OBVIOUS
  <2>1. b \in 0 .. to
    OBVIOUS
  <2> QED
    BY <2>1, RangesCover
<1>2. \A r \in Ranges(to) : \A b \in logged[f] : b <= r.toBlock => b <= to
  <2> SUFFICES ASSUME NEW r \in Ranges(to), NEW b \in logged[f], b <= r.toBlock
               PROVE  b <= to
    OBVIOUS
  <2>1. PICK n \in 0 .. to : r.toBlock = IF n + MAX_BLOCKS_PER_CALL < to
                                         THEN n + MAX_BLOCKS_PER_CALL ELSE to
    BY DEF Ranges
  <2>2. PICK last \in Nat : last = r.toBlock /\ last <= to
    BY <2>1, LogsConstants
  <2> QED
    BY <2>2
<1>3. ASSUME NEW b
      PROVE  b \in LogsUpTo(f, to) <=> b \in logged[f] /\ b <= to
  BY <1>1, <1>2 DEF LogsUpTo
<1> QED
  BY <1>3

(***************************************************************************)
(* What is listened to.                                                    *)
(***************************************************************************)
LEMMA ListenedAre ==
  ASSUME LogsTyped, NEW f \in DOMAIN logsState
  PROVE  /\ logsState[f] \in ListenedType /\ logsState[f].results \in ResultsType
         /\ logsState[f].listeners \in Int /\ logsState[f].fetching \in Int
         /\ logsState[f].results.blockNumber \in Int
         /\ f \in Filters /\ logged[f] \in SUBSET (1 .. headBlock)
<1>1. logsState[f] \in ListenedType /\ f \in Filters
  BY DEF LogsTyped
<1>2. logsState[f].results \in ResultsType
  BY <1>1 DEF ListenedType
<1> QED
  BY <1>1, <1>2 DEF LogsTyped, ListenedType, ResultsType

(***************************************************************************)
(* What a filter's results are depends on nothing else.                    *)
(***************************************************************************)
LEMMA ResultsStay ==
  ASSUME NEW f \in DOMAIN logsState, ResultsAre(f), FetchIsAnswered(f),
         logsState'[f].results = logsState[f].results,
         logsState'[f].fetching = logsState[f].fetching,
         headBlock' = headBlock, logged' = logged, logCalls \subseteq logCalls'
  PROVE  ResultsAre(f)' /\ FetchIsAnswered(f)'
  BY DEF ResultsAre, FetchIsAnswered

\* a listener: a new filter starts with no logs, a known one keeps its own
LEMMA addListenerKeeps ==
  ASSUME LogsInv, NEW f \in Filters, addListener(f)
  PROVE  LogsInv'
<1> USE DEF LogsInv
<1>1. UNCHANGED <<logged, headBlock, blockNumber, logCalls>>
  BY DEF addListener
<1>2. CASE f \in DOMAIN logsState
  <2>1. PICK old \in ListenedType : old = logsState[f]
    BY <1>2, ListenedAre
  <2>2. PICK new : new = [old EXCEPT !.listeners = @ + 1]
    OBVIOUS
  <2>3. new \in ListenedType /\ new.results = old.results /\ new.fetching = old.fetching
    BY <2>2 DEF ListenedType
  <2>4. logsState' = [logsState EXCEPT ![f] = new]
    BY <1>2, <2>1, <2>2 DEF addListener
  <2>5. /\ DOMAIN logsState' = DOMAIN logsState
        /\ logsState' \in [DOMAIN logsState -> ListenedType]
        /\ \A g \in DOMAIN logsState : /\ logsState'[g].results = logsState[g].results
                                      /\ logsState'[g].fetching = logsState[g].fetching
    BY <1>2, <2>1, <2>3, <2>4 DEF LogsTyped
  <2>6. LogsTyped'
    BY <1>1, <2>5 DEF LogsTyped
  <2>7. \A g \in DOMAIN logsState : ResultsAre(g)' /\ FetchIsAnswered(g)'
    BY <1>1, <2>5, ResultsStay
  <2> QED
    BY <2>5, <2>6, <2>7
<1>3. CASE f \notin DOMAIN logsState
  <2>1. PICK new : new = [listeners |-> 1, fetching |-> Never, results |-> NoResults]
    OBVIOUS
  <2>2. new \in ListenedType /\ new.results = NoResults /\ new.fetching = Never
    BY <2>1 DEF ListenedType, ResultsType, NoResults, Never
  <2>3. logsState' = [g \in DOMAIN logsState \union {f} |-> IF g = f THEN new ELSE logsState[g]]
    BY <1>3, <2>1 DEF addListener
  <2>4. /\ DOMAIN logsState' = DOMAIN logsState \cup {f} /\ logsState'[f] = new
        /\ \A g \in DOMAIN logsState : logsState'[g] = logsState[g]
    BY <1>3, <2>3
  <2>5. LogsTyped'
    <3>1. \A g \in DOMAIN logsState : logsState[g] \in ListenedType
      BY ListenedAre
    <3>2. logsState' \in [DOMAIN logsState' -> ListenedType]
      BY <2>2, <2>3, <2>4, <3>1
    <3> QED
      BY <1>1, <2>4, <3>2 DEF LogsTyped
  <2>6. \A g \in DOMAIN logsState : ResultsAre(g)' /\ FetchIsAnswered(g)'
    BY <1>1, <2>4, ResultsStay
  <2>7. ResultsAre(f)' /\ FetchIsAnswered(f)'
    BY <2>2, <2>4 DEF ResultsAre, FetchIsAnswered, NoResults, Never
  <2> QED
    BY <2>4, <2>5, <2>6, <2>7
<1> QED
  BY <1>2, <1>3

\* a listener less leaves the results and the fetches as they are
LEMMA removeListenerKeeps ==
  ASSUME LogsInv, NEW f \in Filters, removeListener(f)
  PROVE  LogsInv'
<1> USE DEF LogsInv
<1>1. UNCHANGED <<logged, headBlock, blockNumber, logCalls>> /\ f \in DOMAIN logsState
  BY DEF removeListener
<1>2. PICK old \in ListenedType : old = logsState[f]
  BY <1>1, ListenedAre
<1>3. PICK new : new = [old EXCEPT !.listeners = @ - 1]
  OBVIOUS
<1>4. new \in ListenedType /\ new.results = old.results /\ new.fetching = old.fetching
  BY <1>3 DEF ListenedType
<1>5. logsState' = [logsState EXCEPT ![f] = new]
  BY <1>2, <1>3 DEF removeListener
<1>6. /\ DOMAIN logsState' = DOMAIN logsState
      /\ logsState' \in [DOMAIN logsState -> ListenedType]
      /\ \A g \in DOMAIN logsState : /\ logsState'[g].results = logsState[g].results
                                    /\ logsState'[g].fetching = logsState[g].fetching
  BY <1>1, <1>2, <1>4, <1>5 DEF LogsTyped
<1>7. LogsTyped'
  BY <1>1, <1>6 DEF LogsTyped
<1>8. \A g \in DOMAIN logsState : ResultsAre(g)' /\ FetchIsAnswered(g)'
  BY <1>1, <1>6, ResultsStay
<1> QED
  BY <1>6, <1>7, <1>8

\* the updater asks for every filter that needs it, and marks it so
LEMMA FetchLogsKeeps ==
  ASSUME LogsInv, FetchLogs
  PROVE  LogsInv'
<1> USE DEF LogsInv
<1>1. UNCHANGED <<logged, headBlock, blockNumber>>
  BY DEF FetchLogs
<1>2. blockNumber \in Nat \ {0} /\ blockNumber <= headBlock /\ blockNumber \in Int
  <2>1. PICK f \in DOMAIN logsState :
          logsState[f].fetching < blockNumber /\ logsState[f].results.blockNumber < blockNumber
    BY DEF FetchLogs, filtersNeedFetch
  <2>2. blockNumber # Never
    <3>1. logsState[f].results.blockNumber = Never
            \/ logsState[f].results.blockNumber \in 1 .. headBlock
      BY DEF ResultsAre, NoResults
    <3>2. headBlock \in Nat
      BY DEF LogsTyped
    <3>3. PICK n \in Int, h \in Nat : n = logsState[f].results.blockNumber /\ h = headBlock
      BY <3>2, ListenedAre
    <3>4. n >= -1
      BY <3>1, <3>3 DEF Never
    <3> QED
      BY <2>1, <3>3, <3>4 DEF Never
  <2>3. blockNumber \in 1 .. headBlock /\ headBlock \in Nat
    BY <2>2 DEF LogsTyped
  <2> QED
    BY <2>3
<1>3. PICK upto \in Nat \ {0} : upto = blockNumber
  BY <1>2
<1>4. \A f \in filtersNeedFetch : f \in DOMAIN logsState
  BY DEF filtersNeedFetch
<1>5. \A f \in DOMAIN logsState :
        logsState'[f] = IF f \in filtersNeedFetch
                        THEN [logsState[f] EXCEPT !.fetching = upto] ELSE logsState[f]
  BY <1>3 DEF FetchLogs
<1>6. \A f \in DOMAIN logsState :
        /\ logsState'[f] \in ListenedType /\ logsState'[f].results = logsState[f].results
        /\ f \in filtersNeedFetch => logsState'[f].fetching = upto
        /\ f \notin filtersNeedFetch => logsState'[f] = logsState[f]
  <2> SUFFICES ASSUME NEW f \in DOMAIN logsState
               PROVE  /\ logsState'[f] \in ListenedType
                      /\ logsState'[f].results = logsState[f].results
                      /\ f \in filtersNeedFetch => logsState'[f].fetching = upto
                      /\ f \notin filtersNeedFetch => logsState'[f] = logsState[f]
    OBVIOUS
  <2>1. PICK old \in ListenedType : old = logsState[f]
    BY ListenedAre
  <2>2. PICK new : new = [old EXCEPT !.fetching = upto]
    OBVIOUS
  <2>3. new \in ListenedType /\ new.results = old.results /\ new.fetching = upto
    BY <2>2 DEF ListenedType
  <2> QED
    BY <1>5, <2>1, <2>2, <2>3
<1>7. DOMAIN logsState' = DOMAIN logsState
  BY DEF FetchLogs
<1>8. logsState' \in [DOMAIN logsState' -> ListenedType]
  <2>1. logsState' = [f \in DOMAIN logsState |-> logsState'[f]]
    BY DEF FetchLogs
  <2> QED
    BY <1>6, <1>7, <2>1
<1>9. /\ logCalls \subseteq logCalls'
      /\ \A f \in filtersNeedFetch : \E call \in logCalls' :
           call.filter = f /\ call.blockNumber = upto
      /\ \A call \in logCalls' :
           \/ call \in logCalls
           \/ \E f \in filtersNeedFetch : call = [filter |-> f, blockNumber |-> upto]
  <2>1. logCalls' = logCalls \cup {[filter |-> f, blockNumber |-> upto] : f \in filtersNeedFetch}
    BY <1>3 DEF FetchLogs
  <2>2. logCalls \subseteq logCalls'
    BY <2>1
  <2>3. ASSUME NEW f \in filtersNeedFetch
        PROVE  \E call \in logCalls' : call.filter = f /\ call.blockNumber = upto
    <3>1. PICK call : call = [filter |-> f, blockNumber |-> upto]
      OBVIOUS
    <3>2. call \in logCalls' /\ call.filter = f /\ call.blockNumber = upto
      BY <2>1, <3>1
    <3> QED
      BY <3>2
  <2>4. \A call \in logCalls' :
          \/ call \in logCalls
          \/ \E f \in filtersNeedFetch : call = [filter |-> f, blockNumber |-> upto]
    BY <2>1
  <2> QED
    BY <2>2, <2>3, <2>4
<1>10. LogsTyped'
  <2>1. \A call \in logCalls' : call \in CallType /\ call.blockNumber <= headBlock
    <3> SUFFICES ASSUME NEW call \in logCalls'
                 PROVE  call \in CallType /\ call.blockNumber <= headBlock
      OBVIOUS
    <3>1. CASE call \in logCalls
      BY <3>1 DEF LogsTyped
    <3>2. CASE call \notin logCalls
      <4>1. PICK f \in filtersNeedFetch : call = [filter |-> f, blockNumber |-> upto]
        BY <1>9, <3>2
      <4>2. f \in Filters
        BY <1>4, ListenedAre
      <4> QED
        BY <1>2, <1>3, <4>1, <4>2 DEF CallType
    <3> QED
      BY <3>1, <3>2
  <2> QED
    BY <1>1, <1>7, <1>8, <2>1 DEF LogsTyped
<1>11. ASSUME NEW f \in DOMAIN logsState
       PROVE  ResultsAre(f)' /\ FetchIsAnswered(f)'
  <2>1. CASE f \notin filtersNeedFetch
    BY <1>1, <1>6, <1>9, <2>1, ResultsStay
  <2>2. CASE f \in filtersNeedFetch
    <3>1. ResultsAre(f)'
      BY <1>1, <1>6, <2>2 DEF ResultsAre
    <3>2. FetchIsAnswered(f)'
      BY <1>6, <1>9, <2>2 DEF FetchIsAnswered
    <3> QED
      BY <3>1, <3>2
  <2> QED
    BY <2>1, <2>2
<1> QED
  BY <1>7, <1>10, <1>11

\* an answer, or a failure, is written only over what is older
LEMMA ResultingKeeps ==
  ASSUME LogsInv, NEW call \in logCalls, NEW logs \in SUBSET Int, NEW error \in BOOLEAN,
         Resulting(call, logs, error),
         ~error => logs = {b \in logged[call.filter] : b <= call.blockNumber}
  PROVE  LogsInv'
<1> USE DEF LogsInv
<1>1. UNCHANGED <<logged, headBlock, blockNumber>> /\ logCalls' = logCalls \ {call}
  BY DEF Resulting
<1>2. PICK f \in Filters, upto \in Nat \ {0} :
        f = call.filter /\ upto = call.blockNumber /\ upto <= headBlock /\ upto \in 1 .. headBlock
  BY DEF LogsTyped, CallType
<1>3. CASE Takes(f, upto)
  <2>1. f \in DOMAIN logsState /\ logsState[f].results.blockNumber <= upto
    BY <1>3 DEF Takes
  <2>2. PICK results : results = [blockNumber |-> upto, logs |-> logs, error |-> error]
    OBVIOUS
  <2>12. results \in ResultsType
    <3>1. upto \in Int
      OBVIOUS
    <3> QED
      BY <2>2, <3>1 DEF ResultsType
  <2>3. PICK old \in ListenedType : old = logsState[f]
    BY <2>1, ListenedAre
  <2>4. PICK new : new = [old EXCEPT !.results = results]
    OBVIOUS
  <2>5. new \in ListenedType /\ new.results = results /\ new.fetching = old.fetching
    BY <2>4, <2>12 DEF ListenedType
  <2>6. logsState' = [logsState EXCEPT ![f] = new]
    BY <1>2, <1>3, <2>2, <2>3, <2>4 DEF Resulting
  <2>7. /\ DOMAIN logsState' = DOMAIN logsState
        /\ logsState' \in [DOMAIN logsState -> ListenedType]
        /\ logsState'[f] = new
        /\ \A g \in DOMAIN logsState : g # f => logsState'[g] = logsState[g]
    BY <2>1, <2>5, <2>6 DEF LogsTyped
  <2>8. LogsTyped'
    BY <1>1, <2>7 DEF LogsTyped
  <2>9. ResultsAre(f)'
    <3>1. results.blockNumber = upto /\ results.logs = logs /\ results.error = error
      BY <2>2
    <3>2. ~error => logs = {b \in logged[f] : b <= upto}
      BY <1>2
    <3> QED
      BY <1>1, <1>2, <2>5, <2>7, <3>1, <3>2 DEF ResultsAre
  <2>10. FetchIsAnswered(f)'
    <3>1. results.blockNumber = upto
      BY <2>2
    <3>2. PICK fetching \in Int, was \in Int :
            fetching = logsState[f].fetching /\ was = logsState[f].results.blockNumber
      BY <2>1, ListenedAre
    <3>3. CASE fetching <= was
      <4>1. fetching <= upto
        BY <2>1, <3>2, <3>3
      <4> QED
        BY <2>3, <2>5, <2>7, <3>1, <3>2, <4>1 DEF FetchIsAnswered
    <3>4. CASE ~(fetching <= was)
      <4>1. PICK other \in logCalls : other.filter = f /\ other.blockNumber = fetching
        BY <2>1, <3>2, <3>4 DEF FetchIsAnswered
      <4>2. CASE other = call
        BY <1>2, <2>3, <2>5, <2>7, <3>1, <3>2, <4>1, <4>2 DEF FetchIsAnswered
      <4>3. CASE other # call
        BY <1>1, <2>3, <2>5, <2>7, <3>2, <4>1, <4>3 DEF FetchIsAnswered
      <4> QED
        BY <4>2, <4>3
    <3> QED
      BY <3>3, <3>4
  <2>11. ASSUME NEW g \in DOMAIN logsState, g # f
         PROVE  ResultsAre(g)' /\ FetchIsAnswered(g)'
    BY <1>1, <1>2, <2>7, <2>11 DEF ResultsAre, FetchIsAnswered
  <2> QED
    BY <2>7, <2>8, <2>9, <2>10, <2>11
<1>4. CASE ~Takes(f, upto)
  <2>1. logsState' = logsState
    BY <1>2, <1>4 DEF Resulting
  <2>2. LogsTyped'
    BY <1>1, <2>1 DEF LogsTyped
  <2>3. ASSUME NEW g \in DOMAIN logsState
        PROVE  ResultsAre(g)' /\ FetchIsAnswered(g)'
    <3>1. ResultsAre(g)'
      BY <1>1, <2>1 DEF ResultsAre
    <3>2. FetchIsAnswered(g)'
      <4>1. PICK fetching \in Int, was \in Int :
              fetching = logsState[g].fetching /\ was = logsState[g].results.blockNumber
        BY ListenedAre
      <4>2. CASE fetching <= was
        BY <2>1, <4>1, <4>2 DEF FetchIsAnswered
      <4>3. CASE ~(fetching <= was)
        <5>1. PICK other \in logCalls : other.filter = g /\ other.blockNumber = fetching
          BY <4>1, <4>3 DEF FetchIsAnswered
        <5>2. other # call
          <6> SUFFICES ASSUME other = call
                       PROVE  FALSE
            OBVIOUS
          <6>1. g = f /\ fetching = upto
            BY <1>2, <5>1
          <6>2. ~(was <= upto)
            BY <1>4, <4>1, <6>1 DEF Takes
          <6> QED
            BY <4>3, <6>1, <6>2
        <5> QED
          BY <1>1, <2>1, <4>1, <5>1, <5>2 DEF FetchIsAnswered
      <4> QED
        BY <4>2, <4>3
    <3> QED
      BY <3>1, <3>2
  <2> QED
    BY <2>1, <2>2, <2>3
<1> QED
  BY <1>3, <1>4

\* every step keeps it, the chain's own as well
LEMMA LogsStepKeeps == LogsInv /\ [LogsNext]_logsVars => LogsInv'
<1> SUFFICES ASSUME LogsInv, [LogsNext]_logsVars
             PROVE  LogsInv'
  OBVIOUS
<1>1. ASSUME NEW call \in logCalls, fetchedLogs(call)
      PROVE  LogsInv'
  <2>1. call.filter \in Filters /\ call.blockNumber \in Nat
    BY DEF LogsInv, LogsTyped, CallType
  <2>2. logged[call.filter] \in SUBSET Nat
    <3>1. logged[call.filter] \in SUBSET (1 .. headBlock)
      BY <2>1 DEF LogsInv, LogsTyped
    <3> QED
      BY <3>1
  <2>3. PICK logs : logs = LogsUpTo(call.filter, call.blockNumber)
    OBVIOUS
  <2>4. logs = {b \in logged[call.filter] : b <= call.blockNumber} /\ logs \in SUBSET Int
    BY <2>1, <2>2, <2>3, LogsUpToAre
  <2> QED
    BY <1>1, <2>3, <2>4, ResultingKeeps DEF fetchedLogs
<1>2. ASSUME NEW call \in logCalls, fetchedLogsError(call)
      PROVE  LogsInv'
  BY <1>2, ResultingKeeps DEF fetchedLogsError
<1>3. CASE SeeBlock
  <2>1. blockNumber' \in 1 .. headBlock
    BY <1>3 DEF SeeBlock, LogsInv, LogsTyped
  <2> QED
    BY <1>3, <2>1 DEF SeeBlock, LogsInv, LogsTyped, ResultsAre, FetchIsAnswered
<1>4. ASSUME NEW selecting \in SUBSET Filters, MineBlock(selecting)
      PROVE  LogsInv'
  <2>1. PICK head \in Nat \ {0} : head = headBlock
    BY DEF LogsInv, LogsTyped
  <2>2. /\ headBlock' = head + 1 /\ headBlock' \in Nat \ {0}
        /\ UNCHANGED <<blockNumber, logsState, logCalls>>
    BY <1>4, <2>1 DEF MineBlock
  <2>3. /\ \A n \in 1 .. head : n \in 1 .. head + 1
        /\ head + 1 \in 1 .. head + 1
        /\ \A n \in 1 .. head : ~(head + 1 <= n)
        /\ \A n \in Nat : n <= head => n <= head + 1
    OBVIOUS
  <2>4. \A f \in Filters :
          /\ logged'[f] \subseteq logged[f] \cup {head + 1} /\ logged[f] \subseteq logged'[f]
    BY <1>4, <2>1 DEF MineBlock
  <2>5. LogsTyped'
    <3>1. \A f \in Filters : logged[f] \in SUBSET (1 .. head)
      BY <2>1 DEF LogsInv, LogsTyped
    <3>2. \A f \in Filters : logged'[f] \in SUBSET (1 .. head + 1)
      BY <2>3, <2>4, <3>1
    <3>3. logged' = [f \in Filters |-> logged'[f]]
      BY <1>4 DEF MineBlock
    <3>4. logged' \in [Filters -> SUBSET (1 .. headBlock')]
      BY <2>2, <3>2, <3>3
    <3>5. blockNumber' = Never \/ blockNumber' \in 1 .. headBlock'
      BY <2>1, <2>2, <2>3 DEF LogsInv, LogsTyped
    <3>6. \A call \in logCalls : call.blockNumber <= head + 1
      BY <2>1, <2>3 DEF LogsInv, LogsTyped, CallType
    <3> QED
      BY <2>2, <3>4, <3>5, <3>6 DEF LogsInv, LogsTyped
  <2>6. ASSUME NEW f \in DOMAIN logsState
        PROVE  ResultsAre(f)' /\ FetchIsAnswered(f)'
    <3>1. FetchIsAnswered(f)'
      BY <2>2 DEF LogsInv, FetchIsAnswered
    <3>2. CASE logsState[f].results = NoResults
      BY <2>2, <3>1, <3>2 DEF ResultsAre
    <3>3. CASE logsState[f].results # NoResults
      <4>1. PICK n \in 1 .. head : n = logsState[f].results.blockNumber
        BY <2>1, <3>3 DEF LogsInv, ResultsAre
      <4>2. f \in Filters
        BY ListenedAre DEF LogsInv
      <4>3. {b \in logged'[f] : b <= n} = {b \in logged[f] : b <= n}
        BY <2>3, <2>4, <4>1, <4>2
      <4>4. ResultsAre(f)'
        BY <2>2, <2>3, <3>3, <4>1, <4>3 DEF LogsInv, ResultsAre
      <4> QED
        BY <3>1, <4>4
    <3> QED
      BY <3>2, <3>3
  <2> QED
    BY <2>2, <2>5, <2>6 DEF LogsInv
<1>5. CASE UNCHANGED logsVars
  BY <1>5 DEF logsVars, LogsInv, LogsTyped, ResultsAre, FetchIsAnswered
<1> QED
  BY <1>1, <1>2, <1>3, <1>4, <1>5, addListenerKeeps, removeListenerKeeps, FetchLogsKeeps
  DEF LogsNext

(***************************************************************************)
(* LogsComplete: the logs shown are exactly the chain's up to their block, *)
(* and nobody is left waiting for a fetch that is not made, for any number *)
(* of filters, blocks and components (wrappers and hooks of useLogs,       *)
(* logs updater and slice).                                                *)
(***************************************************************************)
THEOREM LogsAreComplete == LogsSpec => []LogsComplete
<1>1. LogsInit => LogsInv
  BY DEF LogsInit, LogsInv, LogsTyped, ListenedType, CallType
<1>2. LogsInv => LogsComplete
  <2> SUFFICES ASSUME LogsInv, NEW f \in DOMAIN logsState
               PROVE  /\ LogsShown(f) \in {"SYNCED", "SYNCING"} =>
                           logsState[f].results.logs
                             = {b \in logged[f] : b <= logsState[f].results.blockNumber}
                      /\ (/\ blockNumber # Never
                          /\ logsState[f].listeners > 0 /\ f \notin filtersNeedFetch
                          /\ \A call \in logCalls : call.filter # f)
                         => LogsShown(f) \in {"SYNCED", "ERROR"}
    BY DEF LogsComplete
  <2>1. ResultsAre(f) /\ FetchIsAnswered(f)
    BY DEF LogsInv
  <2>2. LogsShown(f) \in {"SYNCED", "SYNCING"}
          => logsState[f].results # NoResults /\ ~logsState[f].results.error
    BY DEF LogsShown
  <2>3. ASSUME blockNumber # Never, logsState[f].listeners > 0, f \notin filtersNeedFetch,
               \A call \in logCalls : call.filter # f
        PROVE  LogsShown(f) \in {"SYNCED", "ERROR"}
    <3>1. PICK upto \in Nat \ {0} : upto = blockNumber
      BY <2>3 DEF LogsInv, LogsTyped
    <3>2. PICK listeners \in Int, fetching \in Int, fetched \in Int :
            /\ listeners = logsState[f].listeners /\ fetching = logsState[f].fetching
            /\ fetched = logsState[f].results.blockNumber
      BY ListenedAre DEF LogsInv
    <3>3. fetching <= fetched
      BY <2>1, <2>3, <3>2 DEF FetchIsAnswered
    <3>4. ~(listeners # 0 /\ fetching < upto /\ fetched < upto)
      BY <2>3, <3>1, <3>2 DEF filtersNeedFetch
    <3>5. fetched >= upto
      BY <2>3, <3>2, <3>3, <3>4
    <3>6. logsState[f].results # NoResults
      <4>1. fetched # -1
        BY <3>5
      <4> QED
        BY <3>2, <4>1 DEF NoResults, Never
    <3> QED
      BY <2>3, <3>1, <3>2, <3>5, <3>6 DEF LogsShown
  <2> QED
    BY <2>1, <2>2, <2>3 DEF ResultsAre
<1> QED
  BY <1>1, <1>2, LogsStepKeeps, PTL DEF LogsSpec


-------------------------------------------------------------------------------
(* The playground                                                          *)

Names == STRING \cup Pictures \cup {""}

(***************************************************************************)
(* AskedIsWorn with what it rests on: the images of a kind are a list, and *)
(* whoever uploads one has chosen a kind for it.                           *)
(***************************************************************************)
TraitsInv ==
  /\ images \in [Kinds -> Seq(Names)]
  /\ DOMAIN modSeed = Kinds /\ DOMAIN selectIndexes = Kinds /\ DOMAIN chosen = Kinds
  /\ \A k \in Kinds : /\ ImageAt(k, modSeed[k]) = chosen[k]
                      /\ ImageAt(k, selectIndexes[k]) = chosen[k]

FilesInv ==
  /\ pendingTrait \in [name : Names, kind : Kinds]
  /\ pendingTrait # NoTrait /\ ~rereads => pendingTrait.kind = typeShown
  /\ errorTimers \in Nat
  /\ mark = "invalid" => errorTimers > 0

WornInv == \A k \in Kinds : asked[k] # "any" => newest[k] = asked[k]

PlaygroundInv == TraitsInv /\ FilesInv /\ WornInv

\* a picture that was uploaded is the first of its kind, and the others are where they were
LEMMA UploadKeepsTraits ==
  ASSUME TraitsInv, FilesInv, uploadCustomTrait
  PROVE  TraitsInv'
<1>1. PICK kind \in Kinds, name \in Names : kind = pendingTrait.kind /\ name = pendingTrait.name
  BY DEF FilesInv
<1>2. PICK list \in Seq(Names) : list = images[kind]
  BY DEF TraitsInv
<1>3. PICK longer : longer = <<name>> \o list
  OBVIOUS
<1>4. longer \in Seq(Names) /\ longer[1] = name
  BY <1>3
<1>5. /\ images' = [images EXCEPT ![kind] = longer]
      /\ modSeed' = [modSeed EXCEPT ![kind] = 0]
      /\ selectIndexes' = [selectIndexes EXCEPT ![kind] = 0]
      /\ chosen' = [chosen EXCEPT ![kind] = name]
  BY <1>1, <1>2, <1>3 DEF uploadCustomTrait
<1>6. images' \in [Kinds -> Seq(Names)]
  BY <1>4, <1>5 DEF TraitsInv
<1>7. /\ DOMAIN modSeed' = Kinds /\ DOMAIN selectIndexes' = Kinds /\ DOMAIN chosen' = Kinds
      /\ images'[kind] = longer /\ modSeed'[kind] = 0 /\ selectIndexes'[kind] = 0
      /\ chosen'[kind] = name
      /\ \A k \in Kinds \ {kind} :
           /\ images'[k] = images[k] /\ modSeed'[k] = modSeed[k]
           /\ selectIndexes'[k] = selectIndexes[k] /\ chosen'[k] = chosen[k]
  BY <1>5 DEF TraitsInv
<1>8. ASSUME NEW k \in Kinds
      PROVE  ImageAt(k, modSeed[k])' = chosen'[k] /\ ImageAt(k, selectIndexes[k])' = chosen'[k]
  <2>1. CASE k = kind
    BY <1>4, <1>7, <2>1 DEF ImageAt
  <2>2. CASE k # kind
    BY <1>7, <2>2 DEF ImageAt, TraitsInv
  <2> QED
    BY <2>1, <2>2
<1> QED
  BY <1>6, <1>7, <1>8 DEF TraitsInv

\* one lemma per part of the invariant
LEMMA TraitsStay == TraitsInv /\ UNCHANGED traitVars => TraitsInv'
  BY DEF TraitsInv, traitVars, ImageAt

\* what leaves the upload alone keeps its part
LEMMA FilesStay == FilesInv /\ UNCHANGED fileVars => FilesInv'
  BY DEF FilesInv, fileVars

\* a list with members in a set has them in any larger set
LEMMA WiderSeq ==
  ASSUME NEW S, NEW T, S \subseteq T, NEW list \in Seq(S)
  PROVE  list \in Seq(T)
<1>1. \A i \in 1..Len(list) : list[i] \in T
  BY ElementOfSeq
<1> QED
  BY <1>1

\* nothing pending is a name and a kind, too
LEMMA NoTraitTyped == NoTrait \in [name : Names, kind : Kinds]
<1>1. "" \in Names /\ DefaultKind \in Kinds
  BY PlaygroundConstants DEF Names, Kinds
<1> QED
  BY <1>1 DEF NoTrait

\* what leaves the newest noun alone keeps its part
LEMMA WornStays == WornInv /\ UNCHANGED <<newest, asked>> => WornInv'
  BY DEF WornInv

\* nothing that is done in the playground takes it away
LEMMA PlaygroundStepKeeps == PlaygroundInv /\ [PlaygroundNext]_playgroundVars => PlaygroundInv'
<1> SUFFICES ASSUME PlaygroundInv, [PlaygroundNext]_playgroundVars
             PROVE  PlaygroundInv'
  OBVIOUS
<1> USE DEF PlaygroundInv
<1>1. CASE generateNounSvg
  <2>1. \A k \in Kinds : chosen[k] # "any" => newest'[k] = chosen[k]
    BY <1>1 DEF generateNounSvg, TraitsInv, ImageAt
  <2>2. WornInv'
    BY <1>1, <2>1 DEF generateNounSvg, WornInv
  <2> QED
    BY <1>1, <2>2, TraitsStay, FilesStay DEF generateNounSvg
<1>2. ASSUME NEW k \in Kinds, NEW i \in -1..Len(images[k]) - 1, traitButtonHandler(k, i)
      PROVE  PlaygroundInv'
  <2>1. TraitsInv'
    BY <1>2 DEF traitButtonHandler, TraitsInv, ImageAt
  <2> QED
    BY <1>2, <2>1, FilesStay, WornStays DEF traitButtonHandler
<1>3. ASSUME NEW k \in Kinds, ChooseKind(k)
      PROVE  PlaygroundInv'
  <2>1. PICK old \in [name : Names, kind : Kinds] : old = pendingTrait
    BY DEF FilesInv
  <2>2. pendingTrait' = [old EXCEPT !.kind = k]
    BY <1>3, <2>1 DEF ChooseKind
  <2>3. pendingTrait' \in [name : Names, kind : Kinds] /\ pendingTrait'.kind = k
    BY <2>2
  <2>4. FilesInv'
    BY <1>3, <2>3 DEF ChooseKind, FilesInv
  <2> QED
    BY <1>3, <2>4, TraitsStay, WornStays DEF ChooseKind
<1>4. ASSUME NEW f \in Pictures \union Garbage, validateCustomTrait(f)
      PROVE  PlaygroundInv'
  <2>1. PICK timers \in Nat : timers = errorTimers
    BY DEF FilesInv
  <2>2. errorTimers' = timers \/ (timers > 1 /\ errorTimers' = timers - 1)
    BY <1>4, <2>1 DEF validateCustomTrait
  <2>3. errorTimers' \in Nat /\ (timers > 0 => errorTimers' > 0)
    BY <2>2
  <2>4. FilesInv'
    BY <1>4, <2>1, <2>3 DEF validateCustomTrait, FilesInv, NoTrait
  <2> QED
    BY <1>4, <2>4, TraitsStay, WornStays DEF validateCustomTrait
<1>5. ASSUME NEW f \in Pictures \union Garbage, setCustomTrait(f)
      PROVE  PlaygroundInv'
  <2>1. pendingTrait' = [name |-> f, kind |-> DefaultKind] /\ f \in Names /\ DefaultKind \in Kinds
    BY <1>5, PlaygroundConstants DEF setCustomTrait, Names, Kinds
  <2>2. pendingTrait' \in [name : Names, kind : Kinds] /\ pendingTrait'.kind = DefaultKind
    BY <2>1
  <2>3. rereads' <=> pendingTrait # NoTrait
    BY <1>5 DEF setCustomTrait
  <2>4. FilesInv'
    BY <1>5, <2>2, <2>3 DEF setCustomTrait, FilesInv
  <2> QED
    BY <1>5, <2>4, TraitsStay, WornStays DEF setCustomTrait
<1>6. ASSUME NEW f \in Pictures \union Garbage, setPendingTraitInvalid(f)
      PROVE  PlaygroundInv'
  <2>1. PICK timers \in Nat : timers = errorTimers
    BY DEF FilesInv
  <2>2. errorTimers' \in Nat /\ errorTimers' > 0
    BY <1>6, <2>1 DEF setPendingTraitInvalid
  <2>3. FilesInv'
    BY <1>6, <2>2 DEF setPendingTraitInvalid, FilesInv, NoTrait
  <2> QED
    BY <1>6, <2>3, TraitsStay, WornStays DEF setPendingTraitInvalid
<1>7. CASE ErrorTimeout
  <2>1. PICK timers \in Nat : timers = errorTimers
    BY DEF FilesInv
  <2>2. errorTimers' \in Nat
    BY <1>7, <2>1 DEF ErrorTimeout
  <2>3. FilesInv'
    BY <1>7, <2>2 DEF ErrorTimeout, FilesInv, NoTrait
  <2> QED
    BY <1>7, <2>3, TraitsStay, WornStays DEF ErrorTimeout
<1>8. CASE uploadCustomTrait
  <2>1. pendingTrait' = NoTrait /\ errorTimers' = errorTimers /\ mark' = "none"
    BY <1>8 DEF uploadCustomTrait
  <2>2. FilesInv'
    BY <2>1, NoTraitTyped DEF FilesInv
  <2> QED
    BY <1>8, <2>2, UploadKeepsTraits, WornStays DEF uploadCustomTrait
<1>9. CASE UNCHANGED playgroundVars
  BY <1>9, TraitsStay, FilesStay, WornStays DEF playgroundVars
<1> QED
  BY <1>1, <1>2, <1>3, <1>4, <1>5, <1>6, <1>7, <1>8, <1>9 DEF PlaygroundNext

(***************************************************************************)
(* AskedIsWorn: whatever is uploaded while which traits are chosen, a noun *)
(* wears what was asked for, a pending trait goes where its selector says, *)
(* and no file stays marked, for any art and any files (uploadCustomTrait, *)
(* traitButtonHandler and the file's handlers of pages/Playground).        *)
(***************************************************************************)
THEOREM WearsWhatIsAsked == PlaygroundSpec => []AskedIsWorn
<1>1. PlaygroundInit => PlaygroundInv
  <2> SUFFICES ASSUME PlaygroundInit
               PROVE  PlaygroundInv
    OBVIOUS
  <2>1. images \in [Kinds -> Seq(Names)]
    <3>1. Art \in [Kinds -> Seq(STRING)]
      BY PlaygroundConstants DEF Kinds
    <3>2. STRING \subseteq Names
      BY Zenon DEF Names
    <3>3. \A k \in Kinds : Art[k] \in Seq(Names)
      BY <3>1, <3>2, WiderSeq
    <3> QED
      BY <3>1, <3>3 DEF PlaygroundInit
  <2>2. TraitsInv
    BY <2>1 DEF PlaygroundInit, TraitsInv, ImageAt
  <2>3. FilesInv
    BY NoTraitTyped DEF PlaygroundInit, FilesInv
  <2>4. WornInv
    BY DEF PlaygroundInit, WornInv
  <2> QED
    BY <2>2, <2>3, <2>4 DEF PlaygroundInv
<1>2. PlaygroundInv => AskedIsWorn
  BY DEF PlaygroundInv, TraitsInv, FilesInv, WornInv, AskedIsWorn
<1> QED
  BY <1>1, <1>2, PlaygroundStepKeeps, PTL DEF PlaygroundSpec


-------------------------------------------------------------------------------
(* The quorum's curve                                                      *)

\* multiplying keeps the order
LEMMA TimesKeepsOrder ==
  ASSUME NEW d \in Nat, NEW m \in Int, NEW n \in Int, m <= n
  PROVE  d * m <= d * n
<1>1. PICK k \in Nat : n = m + k
  OBVIOUS
<1>2. d * n = d * m + d * k /\ d * k >= 0 /\ d * m \in Int /\ d * k \in Int
  BY <1>1
<1> QED
  BY <1>2

\* a quotient rounded down
LEMMA QuotientIs ==
  ASSUME NEW a \in Nat, NEW d \in Nat \ {0}
  PROVE  a \div d \in Nat /\ d * (a \div d) <= a /\ a < d * ((a \div d) + 1)
<1>1. PICK q \in Nat, rest \in 0 .. d - 1 : q = a \div d /\ a = d * q + rest
  OBVIOUS
<1>2. d * (q + 1) = d * q + d
  OBVIOUS
<1> QED
  BY <1>1, <1>2

\* and how to compare two of them
LEMMA QuotientAtMost ==
  ASSUME NEW a \in Nat, NEW d \in Nat \ {0}, NEW m \in Int, NEW n \in Int,
         d * m <= a, a < d * (n + 1)
  PROVE  m <= n
<1> SUFFICES ASSUME m >= n + 1
             PROVE  FALSE
  OBVIOUS
<1>1. d * (n + 1) <= d * m
  BY TimesKeepsOrder
<1>2. d * (n + 1) \in Int /\ d * m \in Int
  OBVIOUS
<1> QED
  BY <1>1, <1>2

\* the quotients computed, as operators of their own
InBasisPoints(A, S) == (A * 10000) \div S
VotesAt(S, O, b, r) == ((b * O + r) * S) \div (10000 * O)
SlopeOf(D, S, c) == (D * S) \div (c * 10000)

(***************************************************************************)
(* b basis points and the fraction r of one more, of S nouns: the fraction *)
(* is worth less than one noun and what was rounded off another.           *)
(***************************************************************************)
LEMMA FractionTips ==
  ASSUME NEW S \in Nat \ {0}, S <= 10000, NEW O \in Nat \ {0}, NEW b \in Nat, NEW r \in 0 .. O - 1
  PROVE  /\ VotesAt(S, 1, b, 0) \in Nat
         /\ VotesAt(S, O, b, r) \in {VotesAt(S, 1, b, 0), VotesAt(S, 1, b, 0) + 1}
         /\ r = 0 => VotesAt(S, O, b, r) = VotesAt(S, 1, b, 0)
<1>0. PICK T, Q : T = VotesAt(S, O, b, r) /\ Q = VotesAt(S, 1, b, 0)
  OBVIOUS
<1>1. PICK a \in Nat : a = S * b
  OBVIOUS
<1>2. PICK rest \in Nat : rest = r * S
  OBVIOUS
<1>3. PICK whole \in Nat : whole = O * a
  OBVIOUS
<1>4. (b * O + r) * S = whole + rest
  <2>1. (b * O + r) * S = (b * O) * S + r * S
    OBVIOUS
  <2>2. (b * O) * S = O * (S * b)
    OBVIOUS
  <2> QED
    BY <1>1, <1>2, <1>3, <2>1, <2>2
<1>5. PICK d \in Nat \ {0} : d = 10000 * O
  <2>1. 10000 * O \in Nat /\ 10000 * O >= 1
    OBVIOUS
  <2> QED
    BY <2>1
<1>6. T = (whole + rest) \div d
  BY <1>0, <1>4, <1>5 DEF VotesAt
<1>7. Q \in Nat /\ 10000 * Q <= a /\ a < 10000 * (Q + 1)
  <2>1. Q = a \div 10000 /\ 10000 \in Nat \ {0}
    <3>1. (b * 1 + 0) * S = a /\ 10000 * 1 = 10000
      BY <1>1
    <3> QED
      BY <1>0, <3>1 DEF VotesAt
  <2> QED
    BY <2>1, QuotientIs
<1>8. T \in Nat /\ d * T <= whole + rest /\ whole + rest < d * (T + 1)
  BY <1>6, QuotientIs
<1>9. d * Q <= whole
  <2>1. O * (10000 * Q) <= O * a
    <3>1. 10000 * Q \in Int
      BY <1>7
    <3> QED
      BY <1>7, <3>1, TimesKeepsOrder
  <2>2. d * Q = O * (10000 * Q)
    BY <1>5, <1>7
  <2> QED
    BY <1>1, <1>3, <1>5, <1>7, <2>1, <2>2
<1>10. Q <= T
  <2>1. d * Q <= whole + rest
    <3>1. d * Q \in Int
      BY <1>7
    <3> QED
      BY <1>9, <3>1
  <2> QED
    BY <1>7, <1>8, <2>1, QuotientAtMost
<1>11. whole + O <= d * (Q + 1)
  <2>1. O * (a + 1) <= O * (10000 * (Q + 1))
    <3>1. a + 1 \in Int /\ 10000 * (Q + 1) \in Int /\ a + 1 <= 10000 * (Q + 1)
      BY <1>7
    <3> QED
      BY <3>1, TimesKeepsOrder
  <2>2. O * (a + 1) = whole + O
    BY <1>3
  <2>3. O * (10000 * (Q + 1)) = d * (Q + 1)
    BY <1>5, <1>7
  <2> QED
    BY <2>1, <2>2, <2>3
<1>12. rest < d
  <2>1. S * r <= S * (O - 1)
    BY TimesKeepsOrder
  <2>2. O * S <= O * 10000
    BY TimesKeepsOrder
  <2>3. S * (O - 1) = O * S - S /\ S * r = rest /\ O * 10000 = d
    BY <1>2, <1>5
  <2>4. PICK n \in Int : n = O * S
    OBVIOUS
  <2>5. rest <= n - S /\ n <= d /\ S >= 1
    BY <1>2, <1>5, <2>1, <2>2, <2>3, <2>4
  <2> QED
    BY <2>5
<1>13. T <= Q + 1
  <2>1. d * (Q + 2) = d * (Q + 1) + d /\ d * (Q + 1) \in Int
    BY <1>7
  <2>2. whole + rest < d * (Q + 2)
    BY <1>11, <1>12, <2>1
  <2>3. d * ((Q + 1) + 1) = d * (Q + 2) /\ Q + 1 \in Int
    BY <1>7
  <2> QED
    BY <1>7, <1>8, <2>2, <2>3, QuotientAtMost
<1>14. ASSUME r = 0
       PROVE  T = Q
  <2>1. rest = 0
    BY <1>2, <1>14
  <2>2. whole + rest < d * (Q + 1)
    <3>1. d * (Q + 1) \in Int
      BY <1>7
    <3> QED
      BY <1>11, <2>1, <3>1
  <2>3. T <= Q
    BY <1>7, <1>8, <2>2, QuotientAtMost
  <2> QED
    BY <1>7, <1>8, <1>10, <2>3
<1>15. Q \in Nat /\ T \in Nat
  BY <1>7, <1>8
<1>16. T \in {Q, Q + 1}
  BY <1>10, <1>13, <1>15
<1> QED
  BY <1>0, <1>14, <1>15, <1>16

\* a number of nouns in basis points, rounded down
LEMMA SharesAre ==
  ASSUME NEW A \in Nat, NEW S \in Nat \ {0}
  PROVE  InBasisPoints(A, S) \in Nat /\ A * 10000 < S * (InBasisPoints(A, S) + 1)
<1>1. PICK n \in Nat, s \in Nat \ {0} : n = A * 10000 /\ s = S
  OBVIOUS
<1>2. InBasisPoints(A, S) = n \div s
  BY <1>1 DEF InBasisPoints
<1>3. n \div s \in Nat /\ n < s * ((n \div s) + 1)
  BY QuotientIs
<1> QED
  BY <1>1, <1>2, <1>3

(***************************************************************************)
(* Where the slope of coefficient c ends, a gap of D above the minimum,    *)
(* rounded down to nouns: as many nouns against as make less than D are at *)
(* most one more.                                                          *)
(***************************************************************************)
LEMMA SlopeReaches ==
  ASSUME NEW S \in Nat \ {0}, S <= 10000, NEW A \in Nat, NEW c \in Nat \ {0}, NEW D \in Nat,
         c * InBasisPoints(A, S) < D
  PROVE  SlopeOf(D, S, c) \in Nat /\ A <= SlopeOf(D, S, c) + 1
<1>0. PICK E : E = SlopeOf(D, S, c)
  OBVIOUS
<1>1. PICK bps \in Nat : A * 10000 < S * (bps + 1) /\ c * bps < D
  <2>1. InBasisPoints(A, S) \in Nat /\ A * 10000 < S * (InBasisPoints(A, S) + 1)
    BY SharesAre
  <2> QED
    BY <2>1
<1>2. PICK d \in Nat \ {0} : d = c * 10000
  <2>1. c * 10000 \in Nat /\ c * 10000 >= 1
    OBVIOUS
  <2> QED
    BY <2>1
<1>3. PICK n \in Nat : n = D * S
  OBVIOUS
<1>4. E \in Nat /\ n < d * (E + 1)
  <2>1. E = n \div d
    BY <1>0, <1>2, <1>3 DEF SlopeOf
  <2> QED
    BY <2>1, QuotientIs
<1>5. d * A <= n + c * S
  <2>1. c * (A * 10000) <= c * (S * (bps + 1))
    <3>1. A * 10000 \in Int /\ S * (bps + 1) \in Int /\ A * 10000 <= S * (bps + 1)
      BY <1>1
    <3> QED
      BY <3>1, TimesKeepsOrder
  <2>2. c * (A * 10000) = d * A
    BY <1>2
  <2>3. c * (S * (bps + 1)) = S * (c * bps) + c * S
    BY <1>1
  <2>4. S * (c * bps) <= S * D
    <3>1. c * bps \in Int /\ c * bps <= D
      BY <1>1
    <3> QED
      BY <3>1, TimesKeepsOrder
  <2>5. PICK x \in Int, y \in Int, z \in Int : x = d * A /\ y = S * (c * bps) /\ z = c * S
    BY <1>1
  <2>6. S * D = n
    BY <1>3
  <2>7. PICK u \in Int : u = c * (A * 10000)
    OBVIOUS
  <2>8. PICK v \in Int : v = c * (S * (bps + 1))
    BY <1>1
  <2>9. u <= v /\ u = x
    BY <2>1, <2>2, <2>5, <2>7, <2>8
  <2>10. v = y + z
    BY <2>3, <2>5, <2>8
  <2>11. y <= n
    BY <2>4, <2>5, <2>6
  <2>12. x <= n + z
    BY <2>9, <2>10, <2>11
  <2> QED
    BY <2>5, <2>12
<1>6. c * S <= d
  <2>1. c * S <= c * 10000
    BY TimesKeepsOrder
  <2> QED
    BY <1>2, <2>1
<1>7. d * A < d * ((E + 1) + 1)
  <2>1. PICK x \in Int, y \in Int, z \in Int : x = d * A /\ y = d * (E + 1) /\ z = c * S
    BY <1>2, <1>4
  <2>2. d * ((E + 1) + 1) = y + d
    BY <1>4, <2>1
  <2>3. x <= n + z /\ n < y /\ z <= d
    BY <1>4, <1>5, <1>6, <2>1
  <2>4. x < y + d
    BY <2>3
  <2> QED
    BY <2>1, <2>2, <2>4
<1>8. A <= E + 1
  <2>1. E + 1 \in Int /\ d * A \in Nat /\ d * A <= d * A
    BY <1>4
  <2> QED
    BY <1>7, <2>1, QuotientAtMost
<1> QED
  BY <1>0, <1>4, <1>8

CurveTyped ==
  /\ supply \in 1 .. 10000 /\ againstVotes \in Nat
  /\ proposedWith \in CurveParams /\ startedWith \in CurveParams

\* the dialog's numbers are the governor's, for any votes and parameters
LEMMA CurvesAgree == CurveTyped => CurveIsGovernors
<1>0. SUFFICES ASSUME CurveTyped, startedWith = proposedWith
             PROVE  CurveIsGovernors
  BY DEF CurveIsGovernors
<1>1. PICK S \in Nat \ {0}, A \in Nat, O \in Nat \ {0} :
        S = supply /\ A = againstVotes /\ O = One /\ S <= 10000
  BY <1>0, CurveConstants DEF CurveTyped
<1>2. PICK min \in Nat, max \in Nat, c \in Nat :
        /\ min = proposedWith.min /\ max = proposedWith.max /\ c = proposedWith.coefficient
        /\ min <= max
  <2>1. proposedWith \in [min : Shares, max : Shares, coefficient : Coefficients]
    BY <1>0 DEF CurveTyped, CurveParams
  <2>4. Shares \subseteq Nat
    BY CurveConstants
  <2>5. Coefficients \subseteq Nat
    BY CurveConstants
  <2>2. proposedWith.min \in Nat /\ proposedWith.max \in Nat /\ proposedWith.coefficient \in Nat
    BY <2>1, <2>4, <2>5
  <2>3. proposedWith.min <= proposedWith.max
    BY <1>0 DEF CurveTyped, CurveParams
  <2> QED
    BY <2>2, <2>3
<1>3. PICK bps \in Nat : bps = InBasisPoints(A, S) /\ A * 10000 < S * (bps + 1)
  <2>1. InBasisPoints(A, S) \in Nat /\ A * 10000 < S * (InBasisPoints(A, S) + 1)
    BY SharesAre
  <2> QED
    BY <2>1
<1>4. againstVotesBps = bps
  BY <1>1, <1>3 DEF againstVotesBps, InBasisPoints
<1>5. PICK x \in Nat : x = c * bps
  OBVIOUS
<1>6. PICK q \in Nat, r \in 0 .. O - 1 : q = x \div O /\ r = x % O /\ x = O * q + r
  OBVIOUS
<1>7. PICK D \in Nat : D = (max - min) * O
  <2>1. PICK gap \in Nat : gap = max - min
    BY <1>2
  <2>2. gap * O \in Nat
    OBVIOUS
  <2> QED
    BY <2>1, <2>2
<1>8. x >= D <=> min + q >= max
  <2>1. CASE min + q >= max
    <3>1. max - min \in Int /\ q \in Int /\ max - min <= q
      BY <2>1
    <3>2. O * (max - min) <= O * q
      BY <3>1, TimesKeepsOrder
    <3>3. PICK y \in Int, z \in Int : y = O * (max - min) /\ z = O * q
      OBVIOUS
    <3>4. y = D
      BY <1>7, <3>3
    <3>5. y <= z /\ x = z + r
      BY <1>6, <3>2, <3>3
    <3> QED
      BY <2>1, <3>4, <3>5
  <2>2. CASE ~(min + q >= max)
    <3>1. max - min \in Int /\ q + 1 \in Int /\ q + 1 <= max - min
      BY <2>2
    <3>2. O * (q + 1) <= O * (max - min)
      BY <3>1, TimesKeepsOrder
    <3>3. PICK y \in Int, z \in Int : y = O * (max - min) /\ z = O * q
      OBVIOUS
    <3>4. y = D
      BY <1>7, <3>3
    <3>5. O * (q + 1) = z + O
      BY <3>3
    <3>6. z + O <= y /\ x = z + r
      BY <1>6, <3>2, <3>3, <3>5
    <3> QED
      BY <2>2, <3>4, <3>6
  <2> QED
    BY <2>1, <2>2
<1>9. OnPlateau <=> x >= D
  BY <1>0, <1>1, <1>2, <1>4, <1>5, <1>7 DEF OnPlateau
<1>10. PICK top \in Nat, bottom \in Nat :
         top = max * One /\ bottom = min * One /\ top = max * O /\ bottom = min * O
  BY <1>1
<1>11. top = bottom + D
  BY <1>7, <1>10
<1>12. dqmFunction(againstVotesBps) = IF x >= D THEN top ELSE bottom + x
  <2>1. dqmFunction(againstVotesBps) = Quorum!AtMost(top, bottom + x)
    BY <1>0, <1>2, <1>4, <1>5, <1>10 DEF dqmFunction
  <2>2. bottom + x < top <=> ~(x >= D)
    BY <1>11
  <2> QED
    BY <2>1, <2>2 DEF Quorum!AtMost
<1>13. PICK b \in Nat, rest \in 0 .. O - 1 :
         /\ b = IF min + q >= max THEN max ELSE min + q
         /\ rest = IF min + q >= max THEN 0 ELSE r
  OBVIOUS
<1>14. dqmFunction(againstVotesBps) = b * O + rest
  <2>1. CASE min + q >= max
    BY <1>8, <1>10, <1>12, <1>13, <2>1
  <2>2. CASE ~(min + q >= max)
    <3>1. b = min + q /\ rest = r
      BY <1>13, <2>2
    <3>2. b * O = bottom + O * q
      <4>1. (min + q) * O = min * O + O * q
        OBVIOUS
      <4> QED
        BY <1>10, <3>1, <4>1
    <3>3. bottom + x = b * O + rest
      BY <1>6, <3>1, <3>2
    <3> QED
      BY <1>8, <1>12, <2>2, <3>3
  <2> QED
    BY <2>1, <2>2
<1>15. PICK T : T = VotesAt(S, O, b, rest) /\ T = ThresholdShown
  BY <1>0, <1>1, <1>14 DEF ThresholdShown, VotesAt
<1>16. PICK Q : /\ Q = VotesAt(S, 1, b, 0)
                /\ Q = Quorum!dynamicQuorumVotes(againstVotes, supply, proposedWith)
  <2>1. (10000 * againstVotes) \div supply = bps
    <3>1. 10000 * againstVotes = A * 10000
      BY <1>1
    <3> QED
      BY <1>1, <1>3, <3>1 DEF InBasisPoints
  <2>2. (proposedWith.coefficient * bps) \div One = q
    BY <1>1, <1>2, <1>5, <1>6
  <2>3. Quorum!AtMost(max, min + q) = b
    BY <1>13 DEF Quorum!AtMost
  <2>4. Quorum!dynamicQuorumVotes(againstVotes, supply, proposedWith)
          = Quorum!bps2Uint(Quorum!AtMost(max, min + q), supply)
    BY <1>2, <2>1, <2>2 DEF Quorum!dynamicQuorumVotes
  <2>5. Quorum!bps2Uint(b, supply) = (S * b) \div 10000
    BY <1>1 DEF Quorum!bps2Uint
  <2>6. (b * 1 + 0) * S = S * b /\ 10000 * 1 = 10000
    OBVIOUS
  <2> QED
    BY <2>3, <2>4, <2>5, <2>6 DEF VotesAt
<1>17. Q \in Nat /\ T \in {Q, Q + 1} /\ (rest = 0 => T = Q)
  <2>1. /\ VotesAt(S, 1, b, 0) \in Nat
        /\ VotesAt(S, O, b, rest) \in {VotesAt(S, 1, b, 0), VotesAt(S, 1, b, 0) + 1}
        /\ rest = 0 => VotesAt(S, O, b, rest) = VotesAt(S, 1, b, 0)
    BY <1>1, FractionTips
  <2> QED
    BY <1>15, <1>16, <2>1
<1>18. (proposedWith.coefficient * againstVotesBps) % One = r
  BY <1>1, <1>2, <1>4, <1>5, <1>6
<1>19. (proposedWith.coefficient * againstVotesBps) \div One = q
  BY <1>1, <1>2, <1>4, <1>5, <1>6
<1>20. ASSUME PointShown > 0
       PROVE  PointShown <= 470 * (SlopeEnd + 1)
  <2>1. ~OnPlateau /\ startedWith.coefficient # 0 /\ PointShown = againstVotes * 470
    BY <1>0, <1>20 DEF PointShown
  <2>2. c \in Nat \ {0} /\ x < D
    BY <1>0, <1>2, <1>9, <2>1
  <2>3. PICK E : E = SlopeOf(D, S, c)
    OBVIOUS
  <2>4. (startedWith.max - startedWith.min) * supply * One = D * S
    BY <1>0, <1>1, <1>2, <1>7
  <2>5. SlopeEnd = E
    BY <1>0, <1>2, <2>3, <2>4 DEF SlopeEnd, SlopeOf
  <2>6. E \in Nat /\ A <= E + 1
    <3>1. c * InBasisPoints(A, S) < D
      BY <1>3, <1>5, <2>2
    <3>2. SlopeOf(D, S, c) \in Nat /\ A <= SlopeOf(D, S, c) + 1
      BY <1>1, <2>2, <3>1, SlopeReaches
    <3> QED
      BY <2>3, <3>2
  <2> QED
    BY <1>1, <2>1, <2>5, <2>6
<1> QED
  BY <1>2, <1>8, <1>9, <1>13, <1>15, <1>16, <1>17, <1>18, <1>19, <1>20 DEF CurveIsGovernors

(***************************************************************************)
(* CurveIsGovernors: whatever is voted and changed, the dialog's quorum is *)
(* the governor's or one noun more, and its point is on the slope, or one  *)
(* noun beyond, until the governor's quorum has reached its maximum, for   *)
(* any parameters and up to 10000 nouns (DynamicQuorumInfoModal).          *)
(***************************************************************************)
THEOREM CurveFollowsGovernor == CurveSpec => []CurveIsGovernors
<1>1. CurveInit => CurveTyped
  BY CurveConstants DEF CurveInit, CurveTyped
<1>2. CurveTyped /\ [CurveNext]_curveVars => CurveTyped'
  <2> SUFFICES ASSUME CurveTyped, [CurveNext]_curveVars
               PROVE  CurveTyped'
    OBVIOUS
  <2>1. CASE VoteAgainst
    <3>1. PICK A \in Nat : A = againstVotes
      BY DEF CurveTyped
    <3>2. againstVotes' \in Nat
      BY <2>1, <3>1 DEF VoteAgainst
    <3> QED
      BY <2>1, <3>2 DEF VoteAgainst, CurveTyped
  <2>2. CASE \E p \in CurveParams : SetParams(p)
    BY <2>2 DEF SetParams, CurveTyped
  <2>3. CASE StartVoting
    BY <2>3 DEF StartVoting, CurveTyped
  <2>4. CASE UNCHANGED curveVars
    BY <2>4 DEF curveVars, CurveTyped
  <2> QED
    BY <2>1, <2>2, <2>3, <2>4 DEF CurveNext
<1> QED
  BY <1>1, <1>2, CurvesAgree, PTL DEF CurveSpec


-------------------------------------------------------------------------------
(* The page of all nouns                                                   *)

CountsTyped ==
  /\ minted \in Nat /\ minted >= InitialChunk + 2
  /\ nounCount = -1 \/ nounCount \in 1 .. minted
  /\ nounCount >= 0 => nounCount >= InitialChunk + 2

(***************************************************************************)
(* A range under way was asked for with one of the counts there have been, *)
(* and nothing but nouns there are is in the grid.                         *)
(***************************************************************************)
RangeType == [count : Nat, before : Nat, start : Nat, end : Int]

RangeIsValid(r) ==
  /\ r \in RangeType
  /\ r.end >= -1 /\ r.end < r.count /\ r.count <= nounCount
  /\ r.start = IF r.end + 1 < RangeChunk THEN 0 ELSE r.end + 1 - RangeChunk

GridTyped ==
  /\ nounsList \in Seq({Null} \cup (0 .. nounCount - 1))
  /\ individualNouns \in Nat
  /\ \A r \in ranges : RangeIsValid(r)
  /\ nounCount = -1 => ranges = {} /\ individualNouns = 0

(***************************************************************************)
(* If nothing went wrong, one range is under way, and everything before it *)
(* is where it belongs.                                                    *)
(***************************************************************************)
ListedDownTo(e) ==
  /\ Len(nounsList) >= nounCount - 1 - e
  /\ \A i \in 1 .. nounCount - 1 - e : nounsList[i] = nounCount - i

GridFills ==
  flawless /\ nounCount >= 0 /\ individualNouns > 1 =>
    \/ ranges = {} /\ nounsList = Downwards(nounCount - 1, 0)
    \/ \E r \in RangeType :
         /\ ranges = {r} /\ r.count = nounCount /\ r.before = 0
         /\ r.end <= nounCount - 3 /\ ListedDownTo(r.end)

DetailInv ==
  /\ isMobile \in BOOLEAN /\ isSidebarVisible \in BOOLEAN
  /\ activeNoun \in Int /\ selectedNoun \subseteq Int
  /\ nounCount # -1 => /\ selectedNoun \subseteq 0 .. nounCount - 1
                       /\ activeNoun = -1 \/ activeNoun \in 0 .. nounCount - 1
                       /\ isSidebarVisible => activeNoun \in 0 .. nounCount - 1
  /\ nounCount = -1 /\ isMobile =>
       selectedNoun = {} /\ activeNoun = -1 /\ ~isSidebarVisible

SeedsInv ==
  /\ seedCache \in [loaded : BOOLEAN, ids : SUBSET SeedIds, zero : SUBSET SeedIds]
  /\ seedCache.zero = seedCache.ids \cap ZeroSeeds

ExploreInv == CountsTyped /\ GridTyped /\ GridFills /\ DetailInv /\ SeedsInv

\* how numbers are listed downwards
LEMMA DownwardsAre ==
  ASSUME NEW from \in Int, NEW to \in Int, to <= from + 1
  PROVE  /\ Downwards(from, to) \in Seq(to .. from)
         /\ Len(Downwards(from, to)) = from - to + 1
         /\ \A i \in 1 .. from - to + 1 : Downwards(from, to)[i] = from - i + 1
<1>1. PICK length \in Nat : length = from - to + 1
  OBVIOUS
<1>2. Downwards(from, to) = [i \in 1 .. length |-> from - i + 1]
  BY <1>1 DEF Downwards
<1>3. \A i \in 1 .. length : from - i + 1 \in to .. from
  BY <1>1
<1>4. Downwards(from, to) \in Seq(to .. from) /\ Len(Downwards(from, to)) = length
  BY <1>2, <1>3
<1> QED
  BY <1>1, <1>2, <1>4

\* the beginning of a list
LEMMA AtMostAllIs ==
  ASSUME NEW S, NEW list \in Seq(S), NEW length \in Nat, length <= Len(list)
  PROVE  /\ AtMostAll(list, length) \in Seq(S) /\ Len(AtMostAll(list, length)) = length
         /\ \A i \in 1 .. length : AtMostAll(list, length)[i] = list[i]
<1>1. AtMostAll(list, length) = SubSeq(list, 1, length)
  <2>1. length = Len(list) \/ length < Len(list)
    OBVIOUS
  <2> QED
    BY <2>1 DEF AtMostAll
<1> QED
  BY <1>1

\* and its members are those of the list
LEMMA AtMostAllTyped ==
  ASSUME NEW S, NEW list \in Seq(S), NEW length \in Nat
  PROVE  AtMostAll(list, length) \in Seq(S)
<1>1. CASE length <= Len(list)
  BY <1>1, AtMostAllIs
<1>2. CASE ~(length <= Len(list))
  BY <1>2 DEF AtMostAll
<1> QED
  BY <1>1, <1>2

\* the range that ends before a noun is none, or one like the others
LEMMA RangeBeforeIs ==
  ASSUME NEW i \in Int, NEW count \in Nat, NEW before \in Nat, i <= count, count <= nounCount,
         NEW r \in RangeBefore(i, count, before)
  PROVE  /\ RangeIsValid(r) /\ i >= 0 /\ RangeBefore(i, count, before) = {r}
         /\ r.count = count /\ r.before = before /\ r.end = i - 1
<1>1. i >= 0 /\ r = [count |-> count, before |-> before, end |-> i - 1,
                     start |-> IF i < RangeChunk THEN 0 ELSE i - RangeChunk]
  BY DEF RangeBefore
<1>2. RangeBefore(i, count, before) = {r}
  BY <1>1 DEF RangeBefore
<1>3. PICK start \in Nat : start = IF i < RangeChunk THEN 0 ELSE i - RangeChunk
  BY <1>1, ExploreConstants
<1>4. r = [count |-> count, before |-> before, end |-> i - 1, start |-> start]
  BY <1>1, <1>3
<1>5. r \in RangeType /\ r.count = count /\ r.before = before /\ r.end = i - 1 /\ r.start = start
  <2>1. i - 1 \in Int
    OBVIOUS
  <2> QED
    BY <1>4, <2>1 DEF RangeType
<1>6. i - 1 >= -1 /\ i - 1 < count /\ (i - 1) + 1 = i
  BY <1>1
<1>7. RangeIsValid(r)
  <2>1. PICK chunk \in Nat : chunk = RangeChunk
    BY ExploreConstants
  <2>2. start = IF (i - 1) + 1 < chunk THEN 0 ELSE (i - 1) + 1 - chunk
    BY <1>3, <2>1
  <2>3. /\ r \in RangeType /\ r.end >= -1 /\ r.end < r.count /\ r.count <= nounCount
    BY <1>5, <1>6
  <2>4. r.start = IF r.end + 1 < RangeChunk THEN 0 ELSE r.end + 1 - RangeChunk
    BY <1>5, <2>1, <2>2
  <2> QED
    BY <2>3, <2>4 DEF RangeIsValid
<1> QED
  BY <1>1, <1>2, <1>5, <1>7

\* the first nouns, and the range behind them
LEMMA AuctionKnownKeeps ==
  ASSUME CountsTyped, GridTyped, AuctionKnown
  PROVE  CountsTyped' /\ GridTyped' /\ GridFills'
<1>1. PICK m \in Nat : m = minted /\ m >= InitialChunk + 2
  BY DEF CountsTyped
<1>2. PICK M \in Nat \ {0} : M = InitialChunk
  BY ExploreConstants
<1>3. PICK count \in Nat : count = (m % M) + 1
  BY <1>2
<1>4. count \in 1 .. M /\ m >= M + 2 /\ m - count \in Nat /\ m - count >= 2
  BY <1>1, <1>2, <1>3
<1>5. PICK first : first = Downwards(m - 1, m - count)
  OBVIOUS
<1>6. /\ first \in Seq((m - count) .. (m - 1)) /\ Len(first) = count
      /\ \A i \in 1 .. count : first[i] = m - i
  <2>1. PICK from \in Int, to \in Int : from = m - 1 /\ to = m - count
    BY <1>4
  <2>2. to <= from + 1 /\ from - to + 1 = count /\ \A i \in 1 .. count : from - i + 1 = m - i
    BY <1>4, <2>1
  <2>3. first = Downwards(from, to)
    BY <1>5, <2>1
  <2>4. first \in Seq(to .. from) /\ Len(first) = count
    BY <2>2, <2>3, DownwardsAre
  <2>5. \A i \in 1 .. count : first[i] = from - i + 1
    BY <2>2, <2>3, DownwardsAre
  <2> QED
    BY <2>1, <2>2, <2>4, <2>5
<1>7. Placeholders \in Seq({Null} \cup (0 .. m - 1))
  BY ExploreConstants DEF Placeholders
<1>8. first \in Seq({Null} \cup (0 .. m - 1))
  <2>1. (m - count) .. (m - 1) \subseteq {Null} \cup (0 .. m - 1)
    BY <1>4
  <2>2. PICK S, T : S = (m - count) .. (m - 1) /\ T = {Null} \cup (0 .. m - 1)
    OBVIOUS
  <2>3. S \subseteq T /\ first \in Seq(S)
    BY <1>6, <2>1, <2>2
  <2>4. first \in Seq(T)
    BY <2>3, WiderSeq
  <2> QED
    BY <2>2, <2>4
<1>9. /\ nounsList' = first \o Placeholders /\ nounCount' = m /\ minted' = m
      /\ individualNouns' = count
      /\ ranges' = ranges \cup RangeBefore(m - count, m, individualNouns)
      /\ flawless' => flawless /\ nounCount = -1
  BY <1>1, <1>2, <1>3, <1>5 DEF AuctionKnown
<1>10. /\ nounsList' \in Seq({Null} \cup (0 .. nounCount' - 1))
       /\ \A i \in 1 .. count : nounsList'[i] = m - i
       /\ Len(nounsList') >= count
  <2>1. nounsList' \in Seq({Null} \cup (0 .. m - 1))
    BY <1>7, <1>8, <1>9
  <2>2. Len(first \o Placeholders) = Len(first) + Len(Placeholders) /\ Len(Placeholders) \in Nat
    BY <1>7, <1>8
  <2>3. \A i \in 1 .. count : (first \o Placeholders)[i] = first[i]
    BY <1>6, <1>7, <1>8
  <2> QED
    BY <1>6, <1>9, <2>1, <2>2, <2>3
<1>11. CountsTyped'
  BY <1>1, <1>2, <1>4, <1>9 DEF CountsTyped
<1>12. nounCount <= m
  BY <1>1 DEF CountsTyped
<1>13. ASSUME NEW r \in ranges'
       PROVE  RangeIsValid(r)'
  <2>1. CASE r \in ranges
    <3>1. RangeIsValid(r)
      BY <2>1 DEF GridTyped
    <3>2. nounCount \in Int
      BY <1>1 DEF CountsTyped
    <3> QED
      BY <1>9, <1>12, <3>1, <3>2 DEF RangeIsValid, RangeType
  <2>2. CASE r \notin ranges
    <3>1. r \in RangeBefore(m - count, m, individualNouns)
      BY <1>9, <2>2
    <3>2. individualNouns \in Nat
      BY DEF GridTyped
    <3>3. r = [count |-> m, before |-> individualNouns, end |-> m - count - 1,
               start |-> IF m - count < RangeChunk THEN 0 ELSE m - count - RangeChunk]
      BY <3>1 DEF RangeBefore
    <3>4. PICK start \in Nat : start = IF m - count < RangeChunk THEN 0 ELSE m - count - RangeChunk
      BY <1>4, ExploreConstants
    <3>5. r = [count |-> m, before |-> individualNouns, end |-> m - count - 1, start |-> start]
      BY <3>3, <3>4
    <3>6. r \in RangeType /\ r.count = m /\ r.end = m - count - 1 /\ r.start = start
      <4>1. m - count - 1 \in Int
        BY <1>4
      <4> QED
        BY <3>2, <3>5, <4>1 DEF RangeType
    <3>7. m - count - 1 >= -1 /\ m - count - 1 < m /\ (m - count - 1) + 1 = m - count
      BY <1>4
    <3>8. PICK chunk \in Nat : chunk = RangeChunk
      BY ExploreConstants
    <3>9. start = IF (m - count - 1) + 1 < chunk THEN 0 ELSE (m - count - 1) + 1 - chunk
      BY <3>4, <3>7, <3>8
    <3>10. r.start = IF r.end + 1 < RangeChunk THEN 0 ELSE r.end + 1 - RangeChunk
      BY <3>6, <3>8, <3>9
    <3>11. r \in RangeType /\ r.end >= -1 /\ r.end < r.count /\ r.count <= nounCount'
      BY <1>9, <3>6, <3>7
    <3> QED
      BY <3>10, <3>11 DEF RangeIsValid
  <2> QED
    BY <2>1, <2>2
<1>14. GridTyped'
  BY <1>1, <1>9, <1>10, <1>13 DEF GridTyped
<1>15. GridFills'
  <2> SUFFICES ASSUME flawless', count > 1
               PROVE  \E r \in RangeType : /\ ranges' = {r} /\ r.count = m /\ r.before = 0
                                           /\ r.end <= m - 3 /\ ListedDownTo(r.end)'
    BY <1>9 DEF GridFills
  <2>1. ranges = {} /\ individualNouns = 0
    BY <1>9 DEF GridTyped
  <2>2. PICK r : r = [count |-> m, before |-> 0, end |-> m - count - 1,
                      start |-> IF m - count < RangeChunk THEN 0 ELSE m - count - RangeChunk]
    OBVIOUS
  <2>3. ranges' = {r}
    BY <1>4, <1>9, <2>1, <2>2 DEF RangeBefore
  <2>4. r \in RangeType
    BY <1>13, <2>3 DEF RangeIsValid
  <2>5. r.count = m /\ r.before = 0 /\ r.end = m - count - 1
    BY <2>2
  <2>6. m - count - 1 <= m - 3 /\ m - 1 - (m - count - 1) = count
    BY <1>4
  <2>7. ListedDownTo(m - count - 1)'
    BY <1>9, <1>10, <2>6 DEF ListedDownTo
  <2> QED
    BY <2>3, <2>4, <2>5, <2>6, <2>7
<1> QED
  BY <1>11, <1>14, <1>15

\* the ranges, when one is answered or fails
LEMMA NextRangeKeeps ==
  ASSUME CountsTyped, GridTyped, NEW r \in ranges, NextRange(r), UNCHANGED <<nounCount, minted>>
  PROVE  /\ \A q \in ranges' : RangeIsValid(q)'
         /\ ranges' = (ranges \ {r}) \cup RangeBefore(r.end + 1 - RangeChunk, r.count, r.before)
<1>1. PICK e \in Int, count \in Nat, before \in Nat :
        /\ e = r.end /\ count = r.count /\ before = r.before
        /\ e < count /\ count <= nounCount
  BY DEF GridTyped, RangeIsValid, RangeType
<1>2. PICK chunk \in Nat : chunk = RangeChunk
  BY ExploreConstants
<1>3. PICK i \in Int : i = e + 1 - chunk /\ i <= count
  BY <1>1, <1>2
<1>4. ranges' = (ranges \ {r}) \cup RangeBefore(i, count, before)
  BY <1>1, <1>2, <1>3 DEF NextRange
<1>5. \A q \in RangeBefore(i, count, before) : RangeIsValid(q)
  BY <1>1, <1>3, RangeBeforeIs
<1>6. \A q \in ranges' : RangeIsValid(q)
  BY <1>4, <1>5 DEF GridTyped
<1>7. \A q \in ranges' : RangeIsValid(q)'
  BY <1>6 DEF RangeIsValid
<1> QED
  BY <1>7 DEF NextRange

\* a range put in by its position
LEMMA PutInIs ==
  ASSUME CountsTyped, GridTyped, NEW r \in ranges, NEW kept \in Nat,
         kept = IF nounsList[r.before + 2] = Null THEN r.before ELSE r.count - 1 - r.end
  PROVE  /\ PutIn(nounsList, r) = AtMostAll(nounsList, kept) \o Downwards(r.end, r.start)
         /\ PutIn(nounsList, r) \in Seq({Null} \cup (0 .. nounCount - 1))
         /\ Len(Downwards(r.end, r.start)) = r.end - r.start + 1
         /\ \A i \in 1 .. r.end - r.start + 1 : Downwards(r.end, r.start)[i] = r.end - i + 1
<1>1. PICK e \in Int, count \in Nat, start \in Nat :
        /\ e = r.end /\ count = r.count /\ start = r.start
        /\ e >= -1 /\ e < count /\ count <= nounCount
  BY DEF GridTyped, RangeIsValid, RangeType
<1>2. PICK chunk \in Nat : chunk = RangeChunk
  BY ExploreConstants
<1>3. start = IF e + 1 < chunk THEN 0 ELSE e + 1 - chunk
  BY <1>1, <1>2 DEF GridTyped, RangeIsValid
<1>4. start <= e + 1
  BY <1>1, <1>2, <1>3
<1>5. /\ Downwards(e, start) \in Seq(start .. e) /\ Len(Downwards(e, start)) = e - start + 1
      /\ \A i \in 1 .. e - start + 1 : Downwards(e, start)[i] = e - i + 1
  BY <1>4, DownwardsAre
<1>6. PICK S : S = {Null} \cup (0 .. nounCount - 1)
  OBVIOUS
<1>7. PICK n \in Int : n = nounCount
  BY DEF CountsTyped
<1>8. start .. e \subseteq S
  BY <1>1, <1>6, <1>7
<1>9. Downwards(e, start) \in Seq(S)
  BY <1>5, <1>8, WiderSeq
<1>10. AtMostAll(nounsList, kept) \in Seq(S)
  BY <1>6, AtMostAllTyped DEF GridTyped
<1>11. PutIn(nounsList, r) = AtMostAll(nounsList, kept) \o Downwards(r.end, r.start)
  BY DEF PutIn
<1>12. PutIn(nounsList, r) \in Seq(S)
  BY <1>1, <1>9, <1>10, <1>11
<1> QED
  BY <1>1, <1>5, <1>6, <1>11, <1>12

\* what has been fetched is all there is before it, and the last range ends the list
LEMMA GridGoesOnFilling ==
  ASSUME CountsTyped, GridTyped, GridFills, NEW r \in ranges, RangeAnswered(r),
         flawless, nounCount >= 0, individualNouns > 1
  PROVE  GridFills'
<1>1. PICK n \in Nat : n = nounCount
  BY DEF CountsTyped
<1>2. /\ r \in RangeType /\ ranges = {r} /\ r.count = n /\ r.before = 0
      /\ r.end <= n - 3 /\ ListedDownTo(r.end) /\ RangeIsValid(r)
  <2>1. PICK q \in RangeType : /\ ranges = {q} /\ q.count = n /\ q.before = 0
                               /\ q.end <= n - 3 /\ ListedDownTo(q.end)
    BY <1>1 DEF GridFills
  <2> QED
    BY <2>1 DEF GridTyped
<1>3. PICK e \in Int, start \in Nat, chunk \in Nat \ {0} :
        /\ e = r.end /\ start = r.start /\ chunk = RangeChunk
        /\ e >= -1 /\ e <= n - 3 /\ start = IF e + 1 < chunk THEN 0 ELSE e + 1 - chunk
  BY <1>2, ExploreConstants DEF RangeIsValid, RangeType
<1>4. PICK kept \in Nat : kept = n - 1 - e /\ kept >= 2
  BY <1>3
<1>5. PICK rest \in Nat : rest = e - start + 1 /\ kept + rest = n - start
  BY <1>3, <1>4
<1>6. PICK list \in Seq({Null} \cup (0 .. n - 1)) : list = nounsList
  BY <1>1 DEF GridTyped
<1>7. Len(list) >= kept /\ \A i \in 1 .. kept : list[i] = n - i
  BY <1>1, <1>2, <1>3, <1>4, <1>6 DEF ListedDownTo
<1>8. list[2] # Null
  <2>1. list[2] = n - 2 /\ n >= 2
    BY <1>3, <1>4, <1>7
  <2> QED
    BY <2>1 DEF Null
<1>9. kept = IF nounsList[r.before + 2] = Null THEN r.before ELSE r.count - 1 - r.end
  BY <1>2, <1>3, <1>4, <1>6, <1>8
<1>10. PICK first : first = AtMostAll(list, kept)
  OBVIOUS
<1>11. /\ first \in Seq({Null} \cup (0 .. n - 1)) /\ Len(first) = kept
       /\ \A i \in 1 .. kept : first[i] = n - i
  <2>1. PICK S : S = {Null} \cup (0 .. n - 1)
    OBVIOUS
  <2>2. list \in Seq(S)
    BY <2>1
  <2>3. first \in Seq(S) /\ Len(first) = kept /\ \A i \in 1 .. kept : first[i] = list[i]
    BY <1>7, <1>10, <2>2, AtMostAllIs
  <2> QED
    BY <1>7, <2>1, <2>3
<1>12. PICK more : more = Downwards(e, start)
  OBVIOUS
<1>13. /\ more \in Seq({Null} \cup (0 .. n - 1)) /\ Len(more) = rest
       /\ \A i \in 1 .. rest : more[i] = e - i + 1
  <2>1. start <= e + 1 /\ start \in Int
    BY <1>3
  <2>2. /\ Downwards(e, start) \in Seq(start .. e) /\ Len(Downwards(e, start)) = e - start + 1
        /\ \A i \in 1 .. e - start + 1 : Downwards(e, start)[i] = e - i + 1
    BY <2>1, DownwardsAre
  <2>3. PICK S, T : S = start .. e /\ T = {Null} \cup (0 .. n - 1)
    OBVIOUS
  <2>4. S \subseteq T
    BY <1>3, <2>3
  <2>5. more \in Seq(S)
    BY <1>12, <2>2, <2>3
  <2>6. more \in Seq(T)
    BY <2>4, <2>5, WiderSeq
  <2> QED
    BY <1>5, <1>12, <2>2, <2>3, <2>6
<1>14. nounsList' = first \o more /\ nounsList' \in Seq({Null} \cup (0 .. n - 1))
  BY <1>1, <1>3, <1>6, <1>9, <1>10, <1>12, PutInIs DEF RangeAnswered
<1>15. Len(nounsList') = n - start /\ \A i \in 1 .. n - start : nounsList'[i] = n - i
  <2>1. Len(first \o more) = kept + rest
    BY <1>11, <1>13
  <2>2. ASSUME NEW i \in 1 .. n - start
        PROVE  (first \o more)[i] = n - i
    <3>1. CASE i <= kept
      BY <1>5, <1>11, <1>13, <3>1
    <3>2. CASE ~(i <= kept)
      <4>1. PICK j \in 1 .. rest : j = i - kept
        BY <1>5, <3>2
      <4>2. (first \o more)[i] = more[i - kept]
        <5>1. i \in 1 .. kept + rest /\ i > kept
          BY <1>5, <3>2
        <5> QED
          BY <1>11, <1>13, <5>1
      <4>3. more[j] = e - j + 1
        BY <1>13
      <4> QED
        BY <1>4, <4>1, <4>2, <4>3
    <3> QED
      BY <3>1, <3>2
  <2> QED
    BY <1>5, <1>14, <2>1, <2>2
<1>16. PICK next \in Int : next = e + 1 - chunk
  OBVIOUS
<1>17. ranges' = RangeBefore(next, n, 0)
  BY <1>2, <1>3, <1>16 DEF RangeAnswered, NextRange
<1>18. UNCHANGED <<nounCount, flawless, individualNouns>>
  BY DEF RangeAnswered
<1>19. CASE next < 0
  <2>1. start = 0 /\ ranges' = {}
    BY <1>3, <1>16, <1>17, <1>19 DEF RangeBefore
  <2>2. PICK all : all = Downwards(n - 1, 0)
    OBVIOUS
  <2>3. all = [i \in 1 .. n |-> n - i]
    <3>1. (n - 1) - 0 + 1 = n /\ \A i \in 1 .. n : (n - 1) - i + 1 = n - i
      OBVIOUS
    <3> QED
      BY <2>2, <3>1 DEF Downwards
  <2>4. nounsList' = [i \in 1 .. n |-> nounsList'[i]]
    <3>1. PICK listed \in Seq({Null} \cup (0 .. n - 1)) : listed = nounsList'
      BY <1>14
    <3>2. Len(listed) = n
      BY <1>15, <2>1, <3>1
    <3>3. listed = [i \in 1 .. Len(listed) |-> listed[i]]
      OBVIOUS
    <3> QED
      BY <3>1, <3>2, <3>3
  <2>5. nounsList' = all
    BY <1>15, <2>1, <2>3, <2>4
  <2> QED
    BY <1>1, <1>18, <2>1, <2>2, <2>5 DEF GridFills
<1>20. CASE ~(next < 0)
  <2>1. start = next
    BY <1>3, <1>16, <1>20
  <2>2. PICK q : q \in ranges' /\ ranges' = {q} /\
                 q = [count |-> n, before |-> 0, end |-> next - 1,
                      start |-> IF next < RangeChunk THEN 0 ELSE next - RangeChunk]
    BY <1>17, <1>20 DEF RangeBefore
  <2>3. q.count = n /\ q.before = 0 /\ q.end = next - 1
    BY <2>2
  <2>4. q \in RangeType
    <3>1. NextRange(r) /\ minted' = minted
      BY DEF RangeAnswered
    <3>2. RangeIsValid(q)'
      BY <1>18, <2>2, <3>1, NextRangeKeeps
    <3> QED
      BY <3>2 DEF RangeIsValid
  <2>5. next - 1 <= n - 3 /\ n - 1 - (next - 1) = n - start
    <3>1. \A x, c, m \in Int : c >= 1 /\ x <= m - 3 =>
            x + 1 - c - 1 <= m - 3 /\ m - 1 - (x + 1 - c - 1) = m - (x + 1 - c)
      OBVIOUS
    <3>2. chunk \in Int /\ chunk >= 1 /\ n \in Int
      OBVIOUS
    <3> QED
      BY <1>3, <1>16, <2>1, <3>1, <3>2
  <2>6. ListedDownTo(next - 1)'
    <3>1. Len(nounsList') >= n - start
      BY <1>3, <1>5, <1>15
    <3> QED
      BY <1>1, <1>15, <1>18, <2>5, <3>1 DEF ListedDownTo
  <2>7. /\ ranges' = {q} /\ q.count = nounCount' /\ q.before = 0
        /\ q.end <= nounCount' - 3 /\ ListedDownTo(q.end)'
    BY <1>1, <1>18, <2>2, <2>3, <2>5, <2>6
  <2> QED
    BY <2>4, <2>7 DEF GridFills
<1> QED
  BY <1>19, <1>20

\* one lemma per part, for what leaves it alone
LEMMA GridStays ==
  ASSUME CountsTyped, GridTyped, GridFills, UNCHANGED <<minted, nounCount, gridVars>>
  PROVE  CountsTyped' /\ GridTyped' /\ GridFills'
BY DEF gridVars, CountsTyped, GridTyped, GridFills, ListedDownTo, RangeIsValid

\* what leaves the page of one noun alone keeps its part
LEMMA DetailStays == DetailInv /\ UNCHANGED <<nounCount, isMobile, detailVars>> => DetailInv'
BY DEF DetailInv, detailVars

\* an answer is put where it was asked for, and the next range is asked
LEMMA RangeAnsweredKeeps ==
  ASSUME CountsTyped, GridTyped, GridFills, NEW r \in ranges, RangeAnswered(r)
  PROVE  CountsTyped' /\ GridTyped' /\ GridFills'
<1>1. /\ UNCHANGED <<minted, nounCount, individualNouns, flawless>> /\ NextRange(r)
      /\ nounsList' = PutIn(nounsList, r)
  BY DEF RangeAnswered
<1>2. r.before \in Nat /\ r.count - 1 - r.end \in Nat /\ ranges # {}
  BY DEF GridTyped, RangeIsValid, RangeType
<1>3. PICK kept \in Nat :
        kept = IF nounsList[r.before + 2] = Null THEN r.before ELSE r.count - 1 - r.end
  BY <1>2
<1>4. nounsList' \in Seq({Null} \cup (0 .. nounCount' - 1))
  BY <1>1, <1>3, PutInIs
<1>5. \A q \in ranges' : RangeIsValid(q)'
  BY <1>1, NextRangeKeeps
<1>6. GridTyped'
  BY <1>1, <1>2, <1>4, <1>5 DEF GridTyped
<1>7. CountsTyped'
  BY <1>1 DEF CountsTyped
<1>8. GridFills'
  <2>1. CASE flawless /\ nounCount >= 0 /\ individualNouns > 1
    BY <2>1, GridGoesOnFilling
  <2>2. CASE ~(flawless /\ nounCount >= 0 /\ individualNouns > 1)
    BY <1>1, <2>2 DEF GridFills
  <2> QED
    BY <2>1, <2>2
<1> QED
  BY <1>6, <1>7, <1>8

\* a failure leaves a hole, and the grid is not complete any more
LEMMA RangeFailsKeeps ==
  ASSUME CountsTyped, GridTyped, NEW r \in ranges, RangeFails(r)
  PROVE  CountsTyped' /\ GridTyped' /\ GridFills'
<1>1. /\ UNCHANGED <<minted, nounCount, individualNouns, nounsList>> /\ NextRange(r)
      /\ flawless' = FALSE
  BY DEF RangeFails
<1>2. \A q \in ranges' : RangeIsValid(q)'
  BY <1>1, NextRangeKeeps
<1> QED
  BY <1>1, <1>2 DEF CountsTyped, GridTyped, GridFills

\* the detail, when the page hears of a new noun
LEMMA AuctionKnownShows ==
  ASSUME CountsTyped, DetailInv, AuctionKnown
  PROVE  DetailInv'
<1>1. PICK m \in Nat \ {0} : m = minted
  BY ExploreConstants DEF CountsTyped
<1>2. nounCount' = m /\ UNCHANGED <<isMobile, isSidebarVisible>>
  BY <1>1 DEF AuctionKnown
<1>3. \A id \in 0 .. nounCount - 1 : id \in 0 .. m - 1
  BY <1>1 DEF CountsTyped
<1>4. CASE isMobile
  <2>1. UNCHANGED <<selectedNoun, activeNoun>>
    BY <1>4 DEF AuctionKnown
  <2>2. CASE nounCount = -1
    BY <1>1, <1>2, <1>4, <2>1, <2>2 DEF DetailInv
  <2>3. CASE nounCount # -1
    BY <1>1, <1>2, <1>3, <2>1, <2>3 DEF DetailInv
  <2> QED
    BY <2>2, <2>3
<1>5. CASE ~isMobile
  <2>1. selectedNoun' = {m - 1} /\ activeNoun' = m - 1 /\ m - 1 \in 0 .. m - 1
    BY <1>1, <1>5 DEF AuctionKnown
  <2> QED
    BY <1>2, <2>1, <1>1 DEF DetailInv
<1> QED
  BY <1>4, <1>5

\* whatever is pressed
LEMMA PressedShows ==
  ASSUME CountsTyped, GridTyped, DetailInv,
         \/ FocusNoun \/ HoverNoun \/ LeaveNoun \/ handleCloseDetail
         \/ \E direction \in {"prev", "next"} :
              handleNounNavigation(direction) \/ KeyPressed(direction, 1)
                                              \/ KeyPressed(direction, RowLength)
         \/ \E order \in SortOrders : handleSortOrderChange(order)
  PROVE  DetailInv' /\ UNCHANGED <<minted, nounCount, gridVars, isMobile, seedCache>>
<1>1. UNCHANGED <<minted, nounCount, gridVars, isMobile, seedCache>>
  BY DEF FocusNoun, HoverNoun, LeaveNoun, handleCloseDetail, handleNounNavigation, KeyPressed,
         handleSortOrderChange, Unchanged
<1>2. PICK n \in Int : n = nounCount /\ (n = -1 \/ n > 0)
  BY DEF CountsTyped
<1>3. \A id \in Listed : id \in 0 .. n - 1
  <2>1. nounsList \in Seq({Null} \cup (0 .. n - 1))
    BY <1>2 DEF GridTyped
  <2>2. \A i \in DOMAIN nounsList : nounsList[i] \in {Null} \cup (0 .. n - 1)
    BY <2>1, ElementOfSeq
  <2> QED
    BY <2>2 DEF Listed
<1>4. ASSUME NEW id \in 0 .. n - 1, Focus(id)
      PROVE  DetailInv'
  <2>1. n >= 0 /\ n # -1
    BY <1>2
  <2> QED
    BY <1>1, <1>2, <1>4, <2>1 DEF Focus, DetailInv
<1>5. CASE FocusNoun
  BY <1>1, <1>3, <1>4, <1>5 DEF FocusNoun
<1>6. CASE HoverNoun
  BY <1>1, <1>2, <1>3, <1>6 DEF HoverNoun, DetailInv
<1>7. CASE LeaveNoun
  BY <1>1, <1>2, <1>7 DEF LeaveNoun, DetailInv
<1>8. CASE handleCloseDetail
  <2>1. selectedNoun' = {} /\ activeNoun' = -1 /\ isSidebarVisible' = FALSE
    BY <1>8 DEF handleCloseDetail
  <2>2. isMobile' \in BOOLEAN /\ isSidebarVisible' \in BOOLEAN /\ ~isSidebarVisible'
    BY <1>1, <2>1 DEF DetailInv
  <2> QED
    BY <1>1, <2>1, <2>2 DEF DetailInv
<1>9. ASSUME NEW direction \in {"prev", "next"}, handleNounNavigation(direction)
      PROVE  DetailInv'
  <2>1. isSidebarVisible /\ ~Disabled(direction) /\ UNCHANGED isSidebarVisible
    BY <1>9 DEF handleNounNavigation
  <2>2. PICK at \in Int : at = activeNoun
    BY DEF DetailInv
  <2>3. PICK to \in Int : to = at + Onwards(direction)
    BY <2>2 DEF Onwards
  <2>4. activeNoun' = to /\ selectedNoun' = {to}
    BY <1>9, <2>2, <2>3 DEF handleNounNavigation
  <2>5. CASE n = -1
    BY <1>1, <1>2, <2>1, <2>4, <2>5 DEF DetailInv
  <2>6. CASE n # -1
    <3>1. at \in 0 .. n - 1 /\ n \in Nat
      BY <1>2, <2>1, <2>2, <2>6 DEF DetailInv
    <3>2. to \in 0 .. n - 1
      <4>1. CASE Onwards(direction) = 1
        BY <1>2, <2>1, <2>2, <2>3, <3>1, <4>1 DEF Disabled
      <4>2. CASE Onwards(direction) # 1
        <5>1. Onwards(direction) = -1 /\ at # 0
          BY <2>1, <2>2, <4>2 DEF Onwards, Disabled
        <5> QED
          BY <2>3, <3>1, <5>1
      <4> QED
        BY <4>1, <4>2
    <3> QED
      BY <1>1, <1>2, <2>1, <2>4, <2>6, <3>2 DEF DetailInv
  <2> QED
    BY <2>5, <2>6
<1>10. ASSUME NEW direction \in {"prev", "next"}, NEW steps \in Nat, KeyPressed(direction, steps)
       PROVE  DetailInv'
  <2>1. PICK id \in Int, to \in Int :
          /\ id \in selectedNoun /\ id >= 0 /\ to = id + steps * Onwards(direction)
          /\ IF Onwards(direction) = 1 THEN to < nounCount ELSE to >= 0
          /\ Focus(to)
    BY <1>10 DEF KeyPressed, Onwards, DetailInv
  <2>2. selectedNoun' = {to} /\ activeNoun' = to /\ isSidebarVisible' = TRUE
    BY <2>1 DEF Focus
  <2>3. CASE n = -1
    BY <1>1, <1>2, <2>1, <2>2, <2>3 DEF DetailInv
  <2>4. CASE n # -1
    <3>1. id \in 0 .. n - 1 /\ n \in Nat
      BY <1>2, <2>1, <2>4 DEF DetailInv
    <3>2. to \in 0 .. n - 1
      BY <1>2, <2>1, <3>1 DEF Onwards
    <3> QED
      BY <1>4, <2>1, <3>2
  <2> QED
    BY <2>3, <2>4
<1>11. ASSUME NEW order \in SortOrders, handleSortOrderChange(order)
       PROVE  DetailInv'
  <2>1. CASE isMobile \/ ~isSidebarVisible
    BY <1>1, <1>2, <1>11, <2>1 DEF handleSortOrderChange, DetailInv
  <2>2. CASE ~(isMobile \/ ~isSidebarVisible)
    <3>1. PICK at \in {0, n - 1} : activeNoun' = at /\ selectedNoun' = {at}
      BY <1>2, <1>11, <2>2 DEF handleSortOrderChange
    <3>2. n # -1 => at \in 0 .. n - 1
      BY <1>2
    <3> QED
      BY <1>1, <1>2, <1>11, <2>2, <3>1, <3>2 DEF handleSortOrderChange, DetailInv
  <2> QED
    BY <2>1, <2>2
<1> QED
  BY <1>1, <1>5, <1>6, <1>7, <1>8, <1>9, <1>10, <1>11, ExploreConstants

\* the seeds that are read, at once or one at a time
LEMMA SeedsKeep ==
  ASSUME SeedsInv, SeedsQueried \/ \E id \in SeedIds : SeedAnswered(id)
  PROVE  SeedsInv' /\ KeepsDetail
<1>1. CASE SeedsQueried
  <2>1. PICK ids : ids = {id \in SeedIds : id < minted}
    OBVIOUS
  <2>2. PICK loaded \in BOOLEAN : loaded <=> ids # {}
    OBVIOUS
  <2>3. seedCache' = [loaded |-> ids # {}, ids |-> ids, zero |-> ids \cap ZeroSeeds] /\ KeepsDetail
    BY <1>1, <2>1 DEF SeedsQueried
  <2>4. seedCache' \in [loaded : BOOLEAN, ids : SUBSET SeedIds, zero : SUBSET SeedIds]
    BY <2>1, <2>3
  <2>5. seedCache'.zero = seedCache'.ids \cap ZeroSeeds
    BY <2>3
  <2> QED
    BY <2>3, <2>4, <2>5 DEF SeedsInv
<1>2. ASSUME NEW id \in SeedIds, SeedAnswered(id)
      PROVE  SeedsInv' /\ KeepsDetail
  <2>1. PICK old \in [loaded : BOOLEAN, ids : SUBSET SeedIds, zero : SUBSET SeedIds] :
          old = seedCache /\ old.zero = old.ids \cap ZeroSeeds
    BY DEF SeedsInv
  <2>2. id < minted /\ id \notin ZeroSeeds /\ KeepsDetail
    BY <1>2 DEF SeedAnswered, KeepsSeed
  <2>3. seedCache' = [old EXCEPT !.ids = old.ids \cup {id}, !.zero = old.zero]
    BY <1>2, <2>1, <2>2 DEF SeedAnswered
  <2>4. /\ seedCache' \in [loaded : BOOLEAN, ids : SUBSET SeedIds, zero : SUBSET SeedIds]
        /\ seedCache'.ids = old.ids \cup {id} /\ seedCache'.zero = old.zero
    BY <2>3
  <2> QED
    BY <2>1, <2>2, <2>4 DEF SeedsInv
<1> QED
  BY <1>1, <1>2

\* nothing that happens to the page takes the invariant away
LEMMA ExploreStepKeeps == ExploreInv /\ [ExploreNext]_exploreVars => ExploreInv'
<1> SUFFICES ASSUME ExploreInv, [ExploreNext]_exploreVars
             PROVE  ExploreInv'
  OBVIOUS
<1> USE DEF ExploreInv
<1>1. CASE AuctionKnown
  <2>1. SeedsInv'
    BY <1>1 DEF AuctionKnown, SeedsInv
  <2> QED
    BY <1>1, <2>1, AuctionKnownKeeps, AuctionKnownShows
<1>2. CASE AuctionStarts
  <2>1. PICK m \in Nat : m = minted
    BY DEF CountsTyped
  <2>2. minted' = m + 1 /\ UNCHANGED <<nounCount, gridVars, isMobile, detailVars, seedCache>>
    BY <1>2, <2>1 DEF AuctionStarts
  <2>3. CountsTyped'
    <3>1. PICK chunk \in Nat : chunk = InitialChunk
      BY ExploreConstants
    <3>2. m >= chunk + 2 => m + 1 >= chunk + 2
      OBVIOUS
    <3>3. \A n \in 1 .. m : n \in 1 .. m + 1
      OBVIOUS
    <3> QED
      BY <2>1, <2>2, <3>1, <3>2, <3>3 DEF CountsTyped
  <2>4. GridTyped' /\ GridFills'
    BY <2>2 DEF gridVars, GridTyped, GridFills, ListedDownTo, RangeIsValid
  <2>5. SeedsInv'
    BY <2>2 DEF SeedsInv
  <2> QED
    BY <2>2, <2>3, <2>4, <2>5, DetailStays
<1>3. ASSUME NEW r \in ranges, RangeAnswered(r) \/ RangeFails(r)
      PROVE  ExploreInv'
  <2>1. CountsTyped' /\ GridTyped' /\ GridFills'
    BY <1>3, RangeAnsweredKeeps, RangeFailsKeeps
  <2>2. UNCHANGED <<nounCount, isMobile, detailVars, seedCache>>
    BY <1>3 DEF RangeAnswered, RangeFails
  <2>3. SeedsInv'
    BY <2>2 DEF SeedsInv
  <2> QED
    BY <2>1, <2>2, <2>3, DetailStays
<1>4. CASE \/ FocusNoun \/ HoverNoun \/ LeaveNoun \/ handleCloseDetail
           \/ \E direction \in {"prev", "next"} :
                handleNounNavigation(direction) \/ KeyPressed(direction, 1)
                                                \/ KeyPressed(direction, RowLength)
           \/ \E order \in SortOrders : handleSortOrderChange(order)
  <2>1. DetailInv' /\ UNCHANGED <<minted, nounCount, gridVars, isMobile, seedCache>>
    BY <1>4, PressedShows
  <2>2. SeedsInv'
    BY <2>1 DEF SeedsInv
  <2> QED
    BY <2>1, <2>2, GridStays
<1>5. CASE SeedsQueried \/ \E id \in SeedIds : SeedAnswered(id)
  <2>1. SeedsInv' /\ UNCHANGED <<minted, nounCount, gridVars, isMobile, detailVars>>
    BY <1>5, SeedsKeep DEF KeepsDetail
  <2> QED
    BY <2>1, GridStays, DetailStays
<1>6. CASE UNCHANGED exploreVars
  <2>1. UNCHANGED <<minted, nounCount, gridVars, isMobile, detailVars, seedCache>>
    BY <1>6 DEF exploreVars
  <2>2. SeedsInv'
    BY <2>1 DEF SeedsInv
  <2> QED
    BY <2>1, <2>2, GridStays, DetailStays
<1> QED
  BY <1>1, <1>2, <1>3, <1>4, <1>5, <1>6 DEF ExploreNext

(***************************************************************************)
(* ExploreShowsNouns, for any sizes of the ranges, any seeds and any       *)
(* number of nouns that is at least two more than those fetched singly can *)
(* be (ExploreConstants).  The grid ends as all nouns, newest first, and   *)
(* the detail as the noun pointed at, provided that no fetch failed, that  *)
(* no auction started while the page was open and that more than one noun  *)
(* was fetched singly.  With no such proviso, a noun that is selected or   *)
(* shown is one there is once the page has a count (ExploreGrid, the       *)
(* handlers of pages/Explore, isSeedValid).                                *)
(***************************************************************************)
THEOREM ShowsTheNouns == ExploreSpec => []ExploreShowsNouns
<1>1. ExploreInit => ExploreInv
  <2> SUFFICES ASSUME ExploreInit
               PROVE  ExploreInv
    OBVIOUS
  <2>1. CountsTyped
    BY ExploreConstants DEF ExploreInit, CountsTyped
  <2>2. GridTyped
    <3>1. Placeholders \in Seq({Null} \cup (0 .. nounCount - 1))
      BY ExploreConstants DEF Placeholders
    <3> QED
      BY <3>1 DEF ExploreInit, GridTyped
  <2>3. GridFills
    BY DEF ExploreInit, GridFills
  <2>4. DetailInv
    <3>1. /\ isMobile \in BOOLEAN /\ (isSidebarVisible <=> ~isMobile)
          /\ isSidebarVisible \in BOOLEAN
      BY DEF ExploreInit
    <3>2. nounCount = -1 /\ selectedNoun = {} /\ activeNoun = -1
      BY DEF ExploreInit
    <3> QED
      BY <3>1, <3>2 DEF DetailInv
  <2>5. SeedsInv
    BY DEF ExploreInit, SeedsInv, NoSeeds
  <2> QED
    BY <2>1, <2>2, <2>3, <2>4, <2>5 DEF ExploreInv
<1>2. ExploreInv => ExploreShowsNouns
  <2> SUFFICES ASSUME ExploreInv
               PROVE  ExploreShowsNouns
    OBVIOUS
  <2>1. seedCache.zero \cap 0..minted - 1 \subseteq ZeroSeeds
    BY DEF ExploreInv, SeedsInv
  <2>2. ASSUME flawless, nounCount >= 0, ranges = {}, individualNouns > 1
        PROVE  /\ nounsList = Downwards(nounCount - 1, 0)
               /\ activeNoun >= 0 =>
                    DetailShown = [noun        |-> activeNoun,
                                   firstTraits |-> activeNoun \in seedCache.ids \cap ZeroSeeds]
    <3>1. nounsList = Downwards(nounCount - 1, 0)
      BY <2>2 DEF ExploreInv, GridFills
    <3>2. ASSUME activeNoun >= 0
          PROVE  DetailNoun = activeNoun
      <4>1. PICK n \in Nat : n = nounCount
        BY <2>2 DEF ExploreInv, CountsTyped
      <4>2. PICK at \in 0 .. n - 1 : at = activeNoun
        BY <3>2, <4>1 DEF ExploreInv, DetailInv
      <4>3. nounsList = [i \in 1 .. n |-> n - i]
        <5>1. (n - 1) - 0 + 1 = n /\ \A i \in 1 .. n : (n - 1) - i + 1 = n - i
          OBVIOUS
        <5> QED
          BY <3>1, <4>1, <5>1 DEF Downwards
      <4>4. Len(nounsList) = n /\ DOMAIN nounsList = 1 .. n /\ n - at \in 1 .. n
        BY <4>1, <4>2, <4>3
      <4>5. nounsList[n - at] = n - (n - at)
        BY <4>3, <4>4
      <4>6. DetailNoun = nounsList[n - at]
        BY <4>2, <4>4 DEF DetailNoun
      <4> QED
        BY <4>2, <4>5, <4>6
    <3>3. ASSUME activeNoun >= 0
          PROVE  DetailShown = [noun        |-> activeNoun,
                                firstTraits |-> activeNoun \in seedCache.ids \cap ZeroSeeds]
      <4>1. activeNoun # Null
        BY <3>3 DEF Null, ExploreInv, DetailInv
      <4>2. DetailNoun = activeNoun /\ DetailSeed = activeNoun
        BY <3>2, <3>3, <4>1 DEF DetailSeed
      <4>3. seedCache.zero = seedCache.ids \cap ZeroSeeds
        BY DEF ExploreInv, SeedsInv
      <4>4. PICK zeros \in BOOLEAN : zeros <=> activeNoun \in seedCache.ids \cap ZeroSeeds
        OBVIOUS
      <4>5. FirstTraits <=> activeNoun \in seedCache.ids \cap ZeroSeeds
        BY <4>2, <4>3 DEF FirstTraits
      <4>6. DetailShown = [noun |-> activeNoun, firstTraits |-> zeros]
        BY <4>1, <4>2, <4>4, <4>5 DEF DetailShown
      <4> QED
        BY <4>4, <4>6
    <3> QED
      BY <3>1, <3>3
  <2> QED
    BY <2>1, <2>2 DEF ExploreShowsNouns, ExploreInv, DetailInv
<1> QED
  BY <1>1, <1>2, ExploreStepKeeps, PTL DEF ExploreSpec

-------------------------------------------------------------------------------
(* The auction page is the chain's once everything on its way has arrived, *)
(* for any nouns, bidders, bids and time.  The invariant says of whatever  *)
(* is on its way what the page will look like after it.                    *)

Bidders == Rivals \cup {Me, "nobody", "halloffame"}

BidType == [noun : Nat, by : Bidders, value : BidValues]

LotType == [noun : Nat, bids : SUBSET BidType, end : Int, settled : BOOLEAN]

EventType ==
  [kind : {"bid"}, noun : Nat, bid : BidType]
    \cup [kind : {"extended", "created"}, noun : Nat, end : Int]
    \cup [kind : {"settled"}, noun : Nat, winner : Bidders, amount : Nat]

ActiveType == [noun : Nat, bidder : Bidders, amount : Nat, end : Int, settled : BOOLEAN]

PageType ==
  [stage : {"loading", "fetched", "queried", "on"}, active : ActiveType \cup {NoAuction},
   bids : SUBSET BidType, last : Int, onDisplay : Int, past : SUBSET Int, route : Int]

\* the chain
ChainTyped ==
  /\ auctions \in Seq(LotType) /\ Len(auctions) \in 1 .. Len(Lots) /\ now \in Int
  /\ \A i \in 1 .. Len(auctions) :
       auctions[i].noun = Lots[i] /\ \A b \in auctions[i].bids : b.noun = Lots[i]

ChainBids == UNION {auctions[i].bids : i \in 1 .. Len(auctions)}

\* what is on its way comes from the chain
EventIsChains(e) ==
  /\ \E i \in 1 .. Len(auctions) : e.noun = Lots[i]
  /\ e.kind = "bid" => e.bid \in ChainBids /\ e.bid.noun = e.noun
  /\ e.kind = "settled" /\ e.winner = Me => OnChain(e.noun, e.amount)

WireTyped ==
  /\ wire \in Seq(SUBSET EventType)
  /\ page.stage # "on" => wire = <<>>
  /\ \A k \in DOMAIN wire : \A e \in wire[k] : EventIsChains(e)
  /\ reading \subseteq ChainBids

\* the page claims no bid that is not there
LeadIsChains(p) ==
  p.active # NoAuction /\ p.active.bidder = Me => OnChain(p.active.noun, p.active.amount)

PageTyped ==
  /\ page \in PageType
  /\ page.active = NoAuction <=> page.stage = "loading"
  /\ page.bids \subseteq ChainBids /\ \A b \in page.bids : b.noun = page.active.noun
  /\ LeadIsChains(page) /\ truthful

\* the lot on sale is followed
LotFollowed == page.stage # "loading" /\ Lot.noun \notin missed

Creates(e) == e.kind = "created" /\ e.noun = Lot.noun
Extends(e) == e.kind = "extended" /\ e.noun = Lot.noun
Settles(e) == e.kind = "settled" /\ e.noun = Lot.noun

\* the page does not know of the lot yet
Awaited == \E k \in DOMAIN wire : \E e \in wire[k] : Creates(e)

CreatedFirst ==
  \A k \in DOMAIN wire : \A e \in wire[k] : Creates(e) =>
    /\ \A j \in DOMAIN wire : \A f \in wire[j] :
         /\ f.kind = "created" => j < k \/ (j = k /\ f = e)
         /\ f.noun = Lot.noun => (j = k /\ f = e) \/ k < j
    /\ \A b \in reading : b.noun # Lot.noun

NothingAwaited ==
  ~Awaited =>
    /\ page.active.noun = Lot.noun /\ page.last = Lot.noun
    /\ \A k \in DOMAIN wire : \A e \in wire[k] : e.kind # "created"
    /\ page.active.settled => Lot.settled
    /\ page.bids = Lot.bids =>
         page.active.bidder \in Leaders(Lot)
           /\ page.active.amount = ChainAuction(Lot).amount

BidsArrive ==
  page.stage \in {"queried", "on"} =>
    \A b \in Lot.bids :
      \/ \E k \in DOMAIN wire : \E e \in wire[k] : e.kind = "bid" /\ e.bid = b
      \/ ~Awaited /\ (b \in reading \/ b \in page.bids)

\* the last extension is the one that counts, or the creation if there is none
EndArrives ==
  /\ \A k \in DOMAIN wire : \A e \in wire[k] :
       Extends(e) /\ e.end # Lot.end =>
         \E j \in DOMAIN wire : k < j /\ \E f \in wire[j] : Extends(f) /\ f.end = Lot.end
  /\ (\A k \in DOMAIN wire : \A e \in wire[k] : ~Extends(e)) =>
       /\ ~Awaited => page.active.end = Lot.end
       /\ \A k \in DOMAIN wire : \A e \in wire[k] : Creates(e) => e.end = Lot.end

SettlementArrives ==
  /\ Lot.settled =>
       \/ \E k \in DOMAIN wire : \E e \in wire[k] : Settles(e)
       \/ ~Awaited /\ page.active.settled
  /\ \A k \in DOMAIN wire : \A e \in wire[k] : Settles(e) =>
       Lot.settled /\ e.winner = Winner(Lot) /\ e.amount = ChainAuction(Lot).amount

\* what is typed, asked for and sent are bids that may be placed
FormTyped ==
  /\ input \in BidValues \cup {0}
  /\ \A b \in asking : b.value \in BidValues
  /\ \A s \in sent : s.bid.value \in BidValues

ChainArrives ==
  LotFollowed => CreatedFirst /\ NothingAwaited /\ BidsArrive /\ EndArrives /\ SettlementArrives

PageInv == ChainTyped /\ WireTyped /\ PageTyped /\ FormTyped /\ ChainArrives

-------------------------------------------------------------------------------
(* The chain and the wire                                                  *)

\* the lot on sale is the last, and its noun was not auctioned before
LEMMA LotIs ==
  ASSUME ChainTyped
  PROVE  /\ Len(auctions) \in Nat \ {0} /\ Len(auctions) <= Len(Lots) /\ Len(Lots) \in Nat
         /\ Lot \in LotType /\ Lot.noun = Lots[Len(auctions)]
         /\ \A b \in Lot.bids : b.noun = Lot.noun
         /\ Lot.bids \subseteq ChainBids /\ ChainBids \subseteq BidType
         /\ \A b \in ChainBids : b.noun = Lot.noun => b \in Lot.bids
         /\ \A i \in 1 .. Len(Lots) : Lots[i] = Lot.noun => i = Len(auctions)
<1>1. /\ Len(auctions) \in Nat \ {0} /\ Len(auctions) <= Len(Lots) /\ Len(Lots) \in Nat
      /\ \A i \in 1 .. Len(auctions) : auctions[i] \in LotType
      /\ DOMAIN Lots = 1 .. Len(Lots)
  BY LotsAssumption DEF ChainTyped
<1>2. Lot \in LotType /\ Lot.noun = Lots[Len(auctions)]
  BY <1>1 DEF Lot, ChainTyped
<1>3. \A b \in Lot.bids : b.noun = Lot.noun
  BY <1>1, <1>2 DEF Lot, ChainTyped
<1>4. Lot.bids \subseteq ChainBids /\ ChainBids \subseteq BidType
  BY <1>1 DEF Lot, ChainBids, LotType
<1>5. \A i \in 1 .. Len(Lots) : Lots[i] = Lot.noun => i = Len(auctions)
  BY <1>1, <1>2, LotsAssumption
<1>6. ASSUME NEW b \in ChainBids, b.noun = Lot.noun
      PROVE  b \in Lot.bids
  <2>1. PICK i \in 1 .. Len(auctions) : b \in auctions[i].bids
    BY DEF ChainBids
  <2>2. b.noun = Lots[i] /\ i \in 1 .. Len(Lots)
    BY <1>1, <2>1 DEF ChainTyped
  <2>3. i = Len(auctions)
    BY <1>5, <1>6, <2>2
  <2> QED
    BY <2>1, <2>3 DEF Lot
<1> QED
  BY <1>1, <1>2, <1>3, <1>4, <1>5, <1>6

\* there is a highest of some bids
LEMMA HighestIsThere ==
  ASSUME NEW bids \in SUBSET BidType, bids # {}
  PROVE  HighestBid(bids) \in bids
<1>1. DEFINE Offers == {b.value : b \in bids}
<1>2. Offers \in SUBSET (1 .. MaxBids) /\ Offers # {} /\ MaxBids \in Int
  BY LotsAssumption DEF BidType, BidValues
<1>3. PICK n \in Offers : \A m \in Offers : m <= n
  <2> HIDE DEF Offers
  <2>1. PICK low \in Int, high \in Int : low = 1 /\ high = MaxBids
    BY <1>2
  <2>2. Offers \in SUBSET (low .. high)
    BY <1>2, <2>1
  <2> QED
    BY <1>2, <2>2, GreatestNumber
<1>4. PICK b \in bids : b.value = n
  OBVIOUS
<1>5. \A c \in bids : c.value <= b.value
  BY <1>3, <1>4
<1> QED
  BY <1>5 DEF HighestBid

\* whoever leads on the chain has a bid there
LEMMA ChainLeadIsThere ==
  ASSUME ChainTyped
  PROVE  /\ ChainAuction(Lot) \in ActiveType
         /\ ChainAuction(Lot).noun = Lot.noun /\ ChainAuction(Lot).end = Lot.end
         /\ ChainAuction(Lot).settled = Lot.settled
         /\ ChainAuction(Lot).bidder = Me => OnChain(Lot.noun, ChainAuction(Lot).amount)
<1>1. /\ Len(auctions) \in 1 .. Len(auctions) /\ Lot \in LotType
      /\ \A b \in Lot.bids : b.noun = Lot.noun
  BY LotIs
<1>2. CASE Lot.bids = {}
  <2>1. ChainAuction(Lot) = [noun |-> Lot.noun, end |-> Lot.end, settled |-> Lot.settled,
                             bidder |-> "nobody", amount |-> 0]
    BY <1>2 DEF ChainAuction
  <2> QED
    BY <1>1, <2>1 DEF ActiveType, LotType, Bidders, Me
<1>3. CASE Lot.bids # {}
  <2>1. PICK b \in Lot.bids : b = HighestBid(Lot.bids)
    BY <1>1, <1>3, HighestIsThere DEF LotType
  <2>2. ChainAuction(Lot) = [noun |-> Lot.noun, end |-> Lot.end, settled |-> Lot.settled,
                             bidder |-> b.by, amount |-> b.value]
    BY <1>3, <2>1 DEF ChainAuction
  <2>3. b \in BidType /\ b.noun = Lot.noun
    BY <1>1 DEF LotType
  <2>4. ChainAuction(Lot) \in ActiveType
    BY <1>1, <2>2, <2>3 DEF ActiveType, LotType, BidType, BidValues
  <2>5. b.by = Me => [noun |-> Lot.noun, by |-> Me, value |-> b.value] \in Lot.bids
    <3>1. b = [noun |-> b.noun, by |-> b.by, value |-> b.value]
      BY <2>3 DEF BidType
    <3> QED
      BY <2>3, <3>1
  <2>6. Len(auctions) \in DOMAIN auctions
    BY <1>1 DEF ChainTyped
  <2> QED
    BY <2>2, <2>4, <2>5, <2>6 DEF OnChain, Lot
<1> QED
  BY <1>2, <1>3

\* a block more on the wire
Grown(n, events) ==
  /\ n \in DOMAIN wire' /\ wire'[n] = events
  /\ \A k \in DOMAIN wire : k \in DOMAIN wire' /\ wire'[k] = wire[k] /\ k < n
  /\ \A k \in DOMAIN wire' : k = n \/ k \in DOMAIN wire

\* a block sent is the last one on the wire
LEMMA WireGrows ==
  ASSUME wire \in Seq(SUBSET EventType), NEW events \in SUBSET EventType,
         wire' = Append(wire, events)
  PROVE  wire' \in Seq(SUBSET EventType) /\ \E n \in Nat : Grown(n, events)
<1>1. /\ wire' \in Seq(SUBSET EventType) /\ DOMAIN wire' = 1 .. Len(wire) + 1
      /\ wire'[Len(wire) + 1] = events /\ \A k \in DOMAIN wire : wire'[k] = wire[k]
      /\ DOMAIN wire = 1 .. Len(wire) /\ Len(wire) \in Nat
  OBVIOUS
<1>2. Grown(Len(wire) + 1, events)
  BY <1>1 DEF Grown
<1> QED
  BY <1>1, <1>2

\* an event of the first block is taken off, and the blocks move up if it was the last
Taken(e, s) ==
  /\ \A k \in DOMAIN wire' : /\ k + s \in DOMAIN wire /\ wire'[k] \subseteq wire[k + s]
                             /\ k + s = 1 => e \notin wire'[k]
  /\ \A k \in DOMAIN wire : \A f \in wire[k] :
       (k = 1 /\ f = e) \/ (k - s \in DOMAIN wire' /\ f \in wire'[k - s])

\* a list of one member
LEMMA OneMember ==
  ASSUME NEW S, NEW x \in S
  PROVE  <<x>> \in Seq(S) /\ Len(<<x>>) = 1 /\ <<x>>[1] = x
  OBVIOUS

\* a list whose first member is another
LEMMA FirstReplaced ==
  ASSUME NEW S, NEW list \in Seq(S), list # <<>>, NEW x \in S
  PROVE  /\ <<x>> \o Tail(list) \in Seq(S)
         /\ DOMAIN (<<x>> \o Tail(list)) = 1 .. Len(list)
         /\ (<<x>> \o Tail(list))[1] = x
         /\ \A k \in 1 .. Len(list) : k # 1 => (<<x>> \o Tail(list))[k] = list[k]
<1>1. PICK first \in Seq(S) : first = <<x>>
  BY OneMember
<1>2. Len(first) = 1 /\ first[1] = x
  BY <1>1, OneMember
<1>3. PICK rest \in Seq(S) : rest = Tail(list)
  BY HeadTailProperties
<1>4. /\ Len(list) \in Nat \ {0} /\ Len(rest) = Len(list) - 1
      /\ \A i \in 1 .. Len(rest) : rest[i] = list[i + 1]
  BY <1>3, EmptySeq, HeadTailProperties
<1>5. PICK joined : joined = first \o rest
  OBVIOUS
<1>6. /\ joined \in Seq(S) /\ Len(joined) = Len(first) + Len(rest)
      /\ \A i \in 1 .. Len(first) + Len(rest) :
           joined[i] = IF i <= Len(first) THEN first[i] ELSE rest[i - Len(first)]
  BY <1>5, ConcatProperties
<1>7. DOMAIN joined = 1 .. Len(list) /\ joined[1] = x
  BY <1>2, <1>4, <1>6
<1>8. ASSUME NEW k \in 1 .. Len(list), k # 1
      PROVE  joined[k] = list[k]
  <2>1. /\ k - 1 \in 1 .. Len(rest) /\ ~(k <= Len(first)) /\ k - Len(first) = k - 1
        /\ k \in 1 .. Len(first) + Len(rest)
    BY <1>2, <1>4, <1>8
  <2>2. joined[k] = rest[k - 1]
    BY <1>6, <2>1
  <2>3. rest[k - 1] = list[k - 1 + 1] /\ k - 1 + 1 = k
    BY <1>4, <2>1
  <2> QED
    BY <2>2, <2>3
<1> QED
  BY <1>1, <1>3, <1>5, <1>6, <1>7, <1>8

\* an event that is delivered is taken off the first block, and nothing else is
LEMMA EventIsTaken ==
  ASSUME wire \in Seq(SUBSET EventType), wire # <<>>, NEW e, e \in Head(wire),
         wire' = IF Head(wire) = {e} THEN Tail(wire) ELSE <<Head(wire) \ {e}>> \o Tail(wire)
  PROVE  /\ wire' \in Seq(SUBSET EventType)
         /\ 1 \in DOMAIN wire /\ e \in wire[1] /\ DOMAIN wire \subseteq Nat \ {0}
         /\ \E s \in {0, 1} : Taken(e, s)
<1>1. /\ 1 \in DOMAIN wire /\ Head(wire) = wire[1] /\ DOMAIN wire = 1 .. Len(wire)
      /\ Len(wire) \in Nat \ {0} /\ DOMAIN wire \subseteq Nat \ {0}
  OBVIOUS
<1>2. /\ Tail(wire) \in Seq(SUBSET EventType) /\ Len(Tail(wire)) = Len(wire) - 1
      /\ \A i \in 1 .. Len(Tail(wire)) : Tail(wire)[i] = wire[i + 1]
      /\ DOMAIN Tail(wire) = 1 .. Len(wire) - 1 /\ Head(wire) \in SUBSET EventType
  BY HeadTailProperties
<1>3. CASE Head(wire) = {e}
  <2>1. Taken(e, 1)
    BY <1>1, <1>2, <1>3 DEF Taken
  <2> QED
    BY <1>1, <1>2, <1>3, <2>1
<1>4. CASE Head(wire) # {e}
  <2>1. PICK block \in SUBSET EventType : block = Head(wire) \ {e}
    BY <1>2
  <2>2. wire' = <<block>> \o Tail(wire)
    BY <1>4, <2>1
  <2>3. /\ wire' \in Seq(SUBSET EventType) /\ DOMAIN wire' = 1 .. Len(wire)
        /\ wire'[1] = block /\ \A k \in 1 .. Len(wire) : k # 1 => wire'[k] = wire[k]
    <3>1. PICK w \in Seq(SUBSET EventType) : w = wire /\ w # <<>>
      OBVIOUS
    <3>2. PICK v : v = <<block>> \o Tail(w)
      OBVIOUS
    <3>3. /\ v \in Seq(SUBSET EventType) /\ DOMAIN v = 1 .. Len(w) /\ v[1] = block
          /\ \A k \in 1 .. Len(w) : k # 1 => v[k] = w[k]
      BY <3>1, <3>2, FirstReplaced
    <3>4. wire' = v
      BY <2>2, <3>1, <3>2
    <3> QED
      BY <3>1, <3>3, <3>4
  <2>4. \A k \in 1 .. Len(wire) : k + 0 = k /\ k - 0 = k
    BY <1>1
  <2>5. wire'[1] = wire[1] \ {e}
    BY <1>1, <2>1, <2>3
  <2>6. Taken(e, 0)
    BY <1>1, <2>3, <2>4, <2>5 DEF Taken
  <2> QED
    BY <1>1, <2>3, <2>6
<1> QED
  BY <1>3, <1>4

-------------------------------------------------------------------------------
(* The page                                                                *)

\* the page's effect changes only what is on display
LEMMA RoutedIs ==
  ASSUME NEW p \in PageType
  PROVE  /\ Routed(p) \in PageType
         /\ Routed(p).stage = p.stage /\ Routed(p).active = p.active
         /\ Routed(p).bids = p.bids /\ Routed(p).last = p.last
<1>1. \/ Routed(p) = p
      \/ Routed(p) = [p EXCEPT !.onDisplay = p.last]
      \/ Routed(p) = [p EXCEPT !.onDisplay = p.last, !.route = p.last]
      \/ Routed(p) = [p EXCEPT !.onDisplay = p.route]
  BY DEF Routed
<1> QED
  BY <1>1 DEF PageType

\* what the form tells of is on the chain if the page's lead is
LEMMA TellsTheTruth ==
  ASSUME truthful, NEW p \in PageType, LeadIsChains(p), FormTyped,
         NEW transaction, Rendered(p, transaction)
  PROVE  truthful' /\ page' = Routed(p) /\ input' \in BidValues \cup {0}
<1>1. page' = Routed(p) /\ input' \in {input, 0}
  BY DEF Rendered
<1>2. PICK q \in PageType : q = Routed(p) /\ q.active = p.active
  BY RoutedIs
<1>3. FormShown(q) => q.active # NoAuction
  BY DEF FormShown, AuctionShown, Shown
<1>4. FormShown(q) /\ q.active.bidder = Me /\ q.active.amount = TypedBid
        => OnChain(q.active.noun, TypedBid)
  BY <1>2, <1>3 DEF LeadIsChains
<1>5. truthful' =
        (truthful /\ ((/\ FormShown(q) /\ transaction = "Mining"
                       /\ q.active.bidder = Me /\ q.active.amount = TypedBid)
                        => OnChain(q.active.noun, TypedBid)))
  BY <1>2 DEF Rendered
<1>6. truthful'
  BY <1>4, <1>5
<1> QED
  BY <1>1, <1>6 DEF FormTyped

\* a bid that is read: the highest of those read leads
LEMMA AppendedIs ==
  ASSUME NEW p \in PageType, NEW b \in BidType, p.active = NoAuction => p.bids = {}
  PROVE  /\ appendBid(p, b) \in PageType
         /\ appendBid(p, b).stage = p.stage /\ appendBid(p, b).last = p.last
         /\ ~Concerns(p, b) => appendBid(p, b) = p
         /\ Concerns(p, b) =>
              /\ appendBid(p, b).bids = p.bids \cup {b}
              /\ appendBid(p, b).active =
                   [noun |-> p.active.noun, bidder |-> HighestBid(p.bids \cup {b}).by,
                    amount |-> HighestBid(p.bids \cup {b}).value, end |-> p.active.end,
                    settled |-> p.active.settled]
<1>1. CASE ~Concerns(p, b)
  BY <1>1 DEF appendBid
<1>2. CASE Concerns(p, b)
  <2>0. p.bids \in SUBSET BidType
    BY DEF PageType
  <2>1. PICK bids \in SUBSET BidType : bids = p.bids \cup {b} /\ bids # {}
    BY <2>0
  <2>2. PICK high \in BidType : high = HighestBid(bids)
    BY <2>1, HighestIsThere
  <2>3. high.value \in Nat /\ high.by \in Bidders
    BY DEF BidType, BidValues
  <2>4. PICK lead \in ActiveType : lead = p.active /\ lead # NoAuction
    BY <1>2 DEF Concerns, PageType
  <2>5. appendBid(p, b) = [p EXCEPT !.bids = bids, !.active.amount = high.value,
                                    !.active.bidder = high.by]
    BY <1>2, <2>1, <2>2 DEF appendBid, WithBid
  <2>6. [p EXCEPT !.bids = bids, !.active.amount = high.value, !.active.bidder = high.by].active
          = [noun |-> lead.noun, bidder |-> high.by, amount |-> high.value,
             end |-> lead.end, settled |-> lead.settled]
    BY <2>4 DEF PageType, ActiveType
  <2>7. [noun |-> lead.noun, bidder |-> high.by, amount |-> high.value,
         end |-> lead.end, settled |-> lead.settled] \in ActiveType
    BY <2>3 DEF ActiveType
  <2>8. /\ appendBid(p, b) \in PageType
        /\ appendBid(p, b).stage = p.stage /\ appendBid(p, b).last = p.last
        /\ appendBid(p, b).bids = bids
    BY <2>5, <2>6, <2>7 DEF PageType
  <2> QED
    BY <1>2, <2>1, <2>2, <2>4, <2>5, <2>6, <2>8
<1> QED
  BY <1>1, <1>2

\* a settlement gives the noun to the leader, or to the hall of fame
LEMMA WinnerIs ==
  ASSUME ChainTyped
  PROVE  /\ Winner(Lot) \in Bidders
         /\ Winner(Lot) = Me => OnChain(Lot.noun, ChainAuction(Lot).amount)
         /\ Lot.bids # {} => Winner(Lot) = ChainAuction(Lot).bidder
<1>1. ChainAuction(Lot).bidder \in Bidders
  BY ChainLeadIsThere DEF ActiveType
<1>2. CASE Lot.bids = {}
  BY <1>2 DEF Winner, Bidders, Me
<1>3. CASE Lot.bids # {}
  <2>1. Winner(Lot) = ChainAuction(Lot).bidder
    BY <1>3 DEF Winner, ChainAuction
  <2> QED
    BY <1>1, <2>1, ChainLeadIsThere
<1> QED
  BY <1>2, <1>3

\* a settlement: the winner and the amount are the event's
LEMMA SettledIs ==
  ASSUME NEW p \in PageType, NEW e \in EventType, e.kind = "settled"
  PROVE  /\ setAuctionSettled(p, e) \in PageType
         /\ setAuctionSettled(p, e).stage = p.stage /\ setAuctionSettled(p, e).last = p.last
         /\ setAuctionSettled(p, e).bids = p.bids
         /\ ~Concerns(p, e) => setAuctionSettled(p, e) = p
         /\ Concerns(p, e) => setAuctionSettled(p, e).active =
              [noun |-> p.active.noun, bidder |-> e.winner, amount |-> e.amount,
               end |-> p.active.end, settled |-> TRUE]
<1>1. CASE ~Concerns(p, e)
  BY <1>1 DEF setAuctionSettled
<1>2. CASE Concerns(p, e)
  <2>1. PICK lead \in ActiveType : lead = p.active
    BY <1>2 DEF Concerns, PageType
  <2>2. e.winner \in Bidders /\ e.amount \in Nat
    BY DEF EventType
  <2>3. setAuctionSettled(p, e) = [p EXCEPT !.active.settled = TRUE,
                                            !.active.bidder = e.winner,
                                            !.active.amount = e.amount]
    BY <1>2 DEF setAuctionSettled
  <2>4. PICK winner \in Bidders, amount \in Nat : winner = e.winner /\ amount = e.amount
    BY <2>2
  <2>5. [p EXCEPT !.active.settled = TRUE, !.active.bidder = winner,
                  !.active.amount = amount].active
          = [noun |-> lead.noun, bidder |-> winner, amount |-> amount,
             end |-> lead.end, settled |-> TRUE]
    BY <2>1 DEF PageType, ActiveType
  <2>6. [noun |-> lead.noun, bidder |-> winner, amount |-> amount,
         end |-> lead.end, settled |-> TRUE] \in ActiveType
    BY DEF ActiveType
  <2>7. /\ setAuctionSettled(p, e) \in PageType
        /\ setAuctionSettled(p, e).stage = p.stage /\ setAuctionSettled(p, e).last = p.last
        /\ setAuctionSettled(p, e).bids = p.bids
    BY <2>3, <2>4, <2>5, <2>6 DEF PageType
  <2> QED
    BY <1>2, <2>1, <2>3, <2>4, <2>5, <2>7
<1> QED
  BY <1>1, <1>2

\* an extension: the end is the event's
LEMMA ExtendedIs ==
  ASSUME NEW p \in PageType, NEW e \in EventType, e.kind = "extended"
  PROVE  /\ setAuctionExtended(p, e) \in PageType
         /\ setAuctionExtended(p, e).stage = p.stage /\ setAuctionExtended(p, e).last = p.last
         /\ setAuctionExtended(p, e).bids = p.bids
         /\ ~Concerns(p, e) => setAuctionExtended(p, e) = p
         /\ Concerns(p, e) => setAuctionExtended(p, e).active =
              [noun |-> p.active.noun, bidder |-> p.active.bidder, amount |-> p.active.amount,
               end |-> e.end, settled |-> p.active.settled]
<1>1. CASE ~Concerns(p, e)
  BY <1>1 DEF setAuctionExtended
<1>2. CASE Concerns(p, e)
  <2>1. PICK lead \in ActiveType : lead = p.active
    BY <1>2 DEF Concerns, PageType
  <2>2. PICK end \in Int : end = e.end
    BY DEF EventType
  <2>3. setAuctionExtended(p, e) = [p EXCEPT !.active.end = end]
    BY <1>2, <2>2 DEF setAuctionExtended
  <2>4. [p EXCEPT !.active.end = end].active
          = [noun |-> lead.noun, bidder |-> lead.bidder, amount |-> lead.amount,
             end |-> end, settled |-> lead.settled]
    BY <2>1 DEF PageType, ActiveType
  <2>5. [noun |-> lead.noun, bidder |-> lead.bidder, amount |-> lead.amount,
         end |-> end, settled |-> lead.settled] \in ActiveType
    BY DEF ActiveType
  <2>6. /\ setAuctionExtended(p, e) \in PageType
        /\ setAuctionExtended(p, e).stage = p.stage
        /\ setAuctionExtended(p, e).last = p.last
        /\ setAuctionExtended(p, e).bids = p.bids
    BY <2>3, <2>4, <2>5 DEF PageType
  <2> QED
    BY <1>2, <2>1, <2>2, <2>3, <2>4, <2>6
<1> QED
  BY <1>1, <1>2

\* the two halves of an auction's creation
LEMMA ActiveSet ==
  ASSUME NEW p \in PageType, NEW lead \in ActiveType
  PROVE  LET q == [p EXCEPT !.active = lead, !.bids = {}]
         IN  q \in PageType /\ q.stage = p.stage /\ q.active = lead /\ q.bids = {}
<1>1. PICK none \in SUBSET BidType : none = {}
  OBVIOUS
<1>2. lead \in ActiveType \cup {NoAuction}
  OBVIOUS
<1> QED
  BY <1>1, <1>2 DEF PageType

\* another noun that is the last one and on display
LEMMA LastSet ==
  ASSUME NEW p \in PageType, NEW noun \in Nat
  PROVE  LET q == [p EXCEPT !.route = noun, !.onDisplay = noun, !.last = noun]
         IN  /\ q \in PageType /\ q.stage = p.stage /\ q.active = p.active /\ q.bids = p.bids
             /\ q.last = noun
<1>1. noun \in Int
  OBVIOUS
<1> QED
  BY <1>1 DEF PageType

\* a creation: a new auction without bids, the last one
LEMMA CreatedIs ==
  ASSUME NEW p \in PageType, NEW e \in EventType, e.kind = "created"
  PROVE  /\ processAuctionCreated(p, e) \in PageType
         /\ processAuctionCreated(p, e).stage = p.stage
         /\ processAuctionCreated(p, e).active = NewAuction(e.noun, e.end)
         /\ processAuctionCreated(p, e).bids = {}
         /\ processAuctionCreated(p, e).last = e.noun
<1>1. PICK noun \in Nat, end \in Int : noun = e.noun /\ end = e.end
  BY DEF EventType
<1>2. PICK lead \in ActiveType : lead = NewAuction(noun, end)
  BY DEF NewAuction, ActiveType, Bidders
<1>3. PICK q \in PageType :
        q = [p EXCEPT !.active = lead, !.bids = {}] /\ q.stage = p.stage
          /\ q.active = lead /\ q.bids = {}
  BY ActiveSet
<1>4. PICK r : r = [q EXCEPT !.route = noun, !.onDisplay = noun, !.last = noun]
  OBVIOUS
<1>5. processAuctionCreated(p, e) = r
  BY <1>1, <1>2, <1>3, <1>4 DEF processAuctionCreated, setActiveAuction
<1>6. /\ r \in PageType /\ r.stage = q.stage /\ r.active = q.active /\ r.bids = q.bids
      /\ r.last = noun
  BY <1>4, LastSet
<1> QED
  BY <1>1, <1>2, <1>3, <1>5, <1>6

-------------------------------------------------------------------------------
(* The chain goes on                                                       *)

\* nothing that was on the chain leaves it
ChainIsKept ==
  /\ \A e : EventIsChains(e) => EventIsChains(e)'
  /\ ChainBids \subseteq ChainBids'
  /\ \A p : LeadIsChains(p) => LeadIsChains(p)'

\* a chain to which lots and bids are added keeps what was there
LEMMA KeptIf ==
  ASSUME ChainTyped, auctions' \in Seq(LotType), Len(auctions) <= Len(auctions'),
         \A i \in 1 .. Len(auctions) : auctions[i].bids \subseteq auctions'[i].bids
  PROVE  ChainIsKept
<1>1. /\ 1 .. Len(auctions) \subseteq 1 .. Len(auctions')
      /\ DOMAIN auctions = 1 .. Len(auctions) /\ DOMAIN auctions' = 1 .. Len(auctions')
  BY DEF ChainTyped
<1>2. ChainBids \subseteq ChainBids'
  BY <1>1 DEF ChainBids
<1>3. \A noun, value : OnChain(noun, value) => OnChain(noun, value)'
  BY <1>1 DEF OnChain
<1>4. \A e : EventIsChains(e) => EventIsChains(e)'
  BY <1>1, <1>2, <1>3 DEF EventIsChains
<1>5. \A p : LeadIsChains(p) => LeadIsChains(p)'
  BY <1>3 DEF LeadIsChains
<1> QED
  BY <1>2, <1>4, <1>5 DEF ChainIsKept

\* the lot on sale becomes another lot of the same noun that has all its bids
LEMMA LotChanges ==
  ASSUME ChainTyped, NEW lot \in LotType, lot.noun = Lot.noun, Lot.bids \subseteq lot.bids,
         \A b \in lot.bids : b.noun = lot.noun, now' \in Int,
         auctions' = [auctions EXCEPT ![Len(auctions)] = lot]
  PROVE  ChainTyped' /\ Lot' = lot /\ ChainIsKept
<1>1. PICK n \in Nat \ {0} : n = Len(auctions) /\ n \in 1 .. Len(auctions)
  BY LotIs
<1>2. /\ auctions' \in Seq(LotType) /\ Len(auctions') = Len(auctions)
      /\ \A i \in 1 .. Len(auctions) : auctions'[i] = IF i = n THEN lot ELSE auctions[i]
  BY <1>1, ExceptSeq DEF ChainTyped
<1>3. Lot' = lot /\ Lot = auctions[n] /\ Lot.noun = Lots[n]
  BY <1>1, <1>2, LotIs DEF Lot
<1>4. ChainTyped'
  <2>1. \A i \in 1 .. Len(auctions') :
          auctions'[i].noun = Lots[i] /\ \A b \in auctions'[i].bids : b.noun = Lots[i]
    BY <1>2, <1>3 DEF ChainTyped
  <2>2. Len(auctions') \in 1 .. Len(Lots)
    BY <1>2 DEF ChainTyped
  <2> QED
    BY <1>2, <2>1, <2>2 DEF ChainTyped
<1>5. \A i \in 1 .. Len(auctions) : auctions[i].bids \subseteq auctions'[i].bids
  BY <1>2, <1>3
<1>6. Len(auctions) <= Len(auctions')
  BY <1>1, <1>2
<1> QED
  BY <1>2, <1>3, <1>4, <1>5, <1>6, KeptIf

\* another lot is put up: its noun was not on sale before
LEMMA LotFollows ==
  ASSUME ChainTyped, Len(auctions) < Len(Lots), NEW a \in Seq(LotType),
         Len(a) = Len(auctions),
         \A i \in 1 .. Len(auctions) :
           a[i].noun = auctions[i].noun /\ a[i].bids = auctions[i].bids,
         NEW lot \in LotType, lot.noun = Lots[Len(auctions) + 1], lot.bids = {},
         auctions' = Append(a, lot), now' \in Int
  PROVE  /\ ChainTyped' /\ Lot' = lot /\ ChainIsKept
         /\ \A i \in 1 .. Len(auctions) : Lots[i] # lot.noun
         /\ \A b \in ChainBids : b.noun # lot.noun
         /\ \E i \in 1 .. Len(auctions') : lot.noun = Lots[i]
<1>1. PICK n \in Nat \ {0} : n = Len(auctions) /\ n < Len(Lots)
  BY LotIs
<1>2. /\ auctions' \in Seq(LotType) /\ Len(auctions') = n + 1 /\ auctions'[n + 1] = lot
      /\ \A i \in 1 .. n : auctions'[i] = a[i]
  BY <1>1, AppendProperties
<1>3. Lot' = lot
  BY <1>2 DEF Lot
<1>4. \A i \in 1 .. n + 1 :
        auctions'[i].noun = Lots[i] /\ \A b \in auctions'[i].bids : b.noun = Lots[i]
  <2> SUFFICES ASSUME NEW i \in 1 .. n + 1
               PROVE  auctions'[i].noun = Lots[i]
                        /\ \A b \in auctions'[i].bids : b.noun = Lots[i]
    OBVIOUS
  <2>1. CASE i = n + 1
    BY <1>1, <1>2, <2>1
  <2>2. CASE i # n + 1
    <3>1. i \in 1 .. n
      BY <2>2
    <3> QED
      BY <1>1, <1>2, <3>1 DEF ChainTyped
  <2> QED
    BY <2>1, <2>2
<1>5. ChainTyped'
  <2>1. Len(auctions') \in 1 .. Len(Lots)
    BY <1>1, <1>2, LotIs
  <2> QED
    BY <1>2, <1>4, <2>1 DEF ChainTyped
<1>6. ChainIsKept
  <2>1. \A i \in 1 .. Len(auctions) : auctions[i].bids \subseteq auctions'[i].bids
    BY <1>1, <1>2
  <2>2. Len(auctions) <= Len(auctions')
    BY <1>1, <1>2
  <2> QED
    BY <1>2, <2>1, <2>2, KeptIf
<1>7. \A i \in 1 .. Len(auctions) : Lots[i] # lot.noun
  <2>1. DOMAIN Lots = 1 .. Len(Lots) /\ Len(Lots) \in Nat
    BY LotsAssumption
  <2>2. \A i \in 1 .. n : i \in DOMAIN Lots /\ n + 1 \in DOMAIN Lots /\ i # n + 1
    BY <1>1, <2>1
  <2> QED
    BY <1>1, <2>2, LotsAssumption
<1>8. \A b \in ChainBids : b.noun # lot.noun
  BY <1>7 DEF ChainBids, ChainTyped
<1>9. n + 1 \in 1 .. Len(auctions') /\ lot.noun = Lots[n + 1]
  BY <1>1, <1>2
<1> QED
  BY <1>3, <1>5, <1>6, <1>7, <1>8, <1>9

\* events are sent, or missed by a page that does not listen yet
LEMMA WireCarries ==
  ASSUME WireTyped, ChainIsKept, NEW events \in SUBSET EventType,
         \A e \in events : EventIsChains(e)', Emitted(events), UNCHANGED <<reading, page>>
  PROVE  /\ WireTyped'
         /\ page.stage = "on" => missed' = missed /\ \E n \in Nat : Grown(n, events)
<1>1. CASE page.stage = "on"
  <2>1. wire' = Append(wire, events) /\ missed' = missed
    BY <1>1 DEF Emitted
  <2>2. wire' \in Seq(SUBSET EventType) /\ \E n \in Nat : Grown(n, events)
    BY <2>1, WireGrows DEF WireTyped
  <2>3. PICK n \in Nat : Grown(n, events)
    BY <2>2
  <2>4. \A k \in DOMAIN wire' : \A e \in wire'[k] : EventIsChains(e)'
    BY <2>3 DEF Grown, WireTyped, ChainIsKept
  <2>5. reading' \subseteq ChainBids' /\ page'.stage = "on"
    BY <1>1 DEF WireTyped, ChainIsKept
  <2> QED
    BY <2>1, <2>2, <2>4, <2>5 DEF WireTyped
<1>2. CASE page.stage # "on"
  <2>1. wire' = wire /\ page' = page /\ reading' = reading
    BY <1>2 DEF Emitted
  <2> QED
    BY <1>2, <2>1 DEF WireTyped, ChainIsKept
<1> QED
  BY <1>1, <1>2

\* what the page claims stays true as the chain goes on
LEMMA PageStays ==
  ASSUME PageTyped, ChainIsKept, UNCHANGED <<page, truthful>>
  PROVE  PageTyped'
  BY DEF PageTyped, ChainIsKept

\* a bid, perhaps in the last moment: what it changes is on its way, or missed
LEMMA BidIsFollowed ==
  ASSUME ChainTyped, WireTyped, PageTyped, ChainArrives, NEW bid \in BidType,
         bid \notin Lot.bids, bid.noun = Lot.noun, ~Lot.settled, NEW end \in Int,
         Lot' = [noun |-> Lot.noun, bids |-> Lot.bids \cup {bid}, end |-> end,
                 settled |-> Lot.settled],
         NEW events, events = {[kind |-> "bid", noun |-> Lot.noun, bid |-> bid]}
           \cup (IF end # Lot.end THEN {[kind |-> "extended", noun |-> Lot.noun, end |-> end]}
                 ELSE {}),
         Emitted(events), UNCHANGED <<reading, page>>,
         page.stage = "on" => missed' = missed /\ \E n \in Nat : Grown(n, events)
  PROVE  ChainArrives'
<1>0. SUFFICES ASSUME LotFollowed'
               PROVE  (CreatedFirst /\ NothingAwaited /\ BidsArrive /\ EndArrives
                         /\ SettlementArrives)'
  BY DEF ChainArrives
<1>1. PICK lot \in LotType : lot = Lot
  BY LotIs
<1>2. /\ Lot'.noun = lot.noun /\ Lot'.bids = lot.bids \cup {bid} /\ Lot'.end = end
      /\ Lot'.settled = lot.settled /\ ~lot.settled /\ bid.noun = lot.noun
      /\ bid \notin lot.bids
  BY <1>1
<1>3. /\ LotFollowed /\ CreatedFirst /\ NothingAwaited /\ BidsArrive /\ EndArrives
      /\ SettlementArrives
  <2>1. missed \subseteq missed'
    BY DEF Emitted
  <2> QED
    BY <1>0, <1>1, <1>2, <2>1 DEF LotFollowed, ChainArrives
<1>4. \A e \in events : /\ e.noun = lot.noun /\ e.kind \in {"bid", "extended"}
                        /\ e.kind = "extended" => e.end = end
  BY <1>1
<1>5. PICK bidding, extending :
        /\ bidding = [kind |-> "bid", noun |-> lot.noun, bid |-> bid] /\ bidding \in events
        /\ extending = [kind |-> "extended", noun |-> lot.noun, end |-> end]
        /\ end # lot.end => extending \in events
  BY <1>1
<1>6. /\ bidding.kind = "bid" /\ bidding.bid = bid /\ extending.kind = "extended"
      /\ extending.noun = lot.noun /\ extending.end = end
  BY <1>5
<1>7. /\ page.active.noun = lot.noun => page.bids \subseteq lot.bids
      /\ page' = page /\ reading' = reading
  BY <1>1, LotIs DEF PageTyped
<1>8. CASE page.stage = "on"
  <2>1. PICK n \in Nat : Grown(n, events)
    BY <1>8
  <2>2. /\ n \in DOMAIN wire' /\ wire'[n] = events
        /\ \A k \in DOMAIN wire : k \in DOMAIN wire' /\ wire'[k] = wire[k] /\ k < n
        /\ \A k \in DOMAIN wire' : k = n \/ k \in DOMAIN wire
    BY <2>1 DEF Grown
  <2>3. \A k \in DOMAIN wire' : \A e \in wire'[k] :
          e.kind \notin {"bid", "extended"} => k \in DOMAIN wire /\ e \in wire[k]
    BY <1>4, <2>2
  <2>4. Awaited' <=> Awaited
    BY <1>1, <1>2, <2>2, <2>3 DEF Awaited, Creates
  <2>5. CreatedFirst'
    <3> SUFFICES ASSUME NEW k \in DOMAIN wire', NEW e \in wire'[k], Creates(e)'
                 PROVE  /\ \A j \in DOMAIN wire' : \A f \in wire'[j] :
                             /\ f.kind = "created" => j < k \/ (j = k /\ f = e)
                             /\ f.noun = Lot'.noun => (j = k /\ f = e) \/ k < j
                        /\ \A b \in reading' : b.noun # Lot'.noun
      BY DEF CreatedFirst
    <3>1. k \in DOMAIN wire /\ e \in wire[k] /\ Creates(e) /\ k < n
      BY <1>1, <1>2, <2>2, <2>3 DEF Creates
    <3>2. /\ \A j \in DOMAIN wire : \A f \in wire[j] :
               /\ f.kind = "created" => j < k \/ (j = k /\ f = e)
               /\ f.noun = Lot.noun => (j = k /\ f = e) \/ k < j
          /\ \A b \in reading : b.noun # Lot.noun
      BY <1>3, <3>1 DEF CreatedFirst
    <3> QED
      BY <1>1, <1>2, <1>4, <1>7, <2>2, <3>1, <3>2
  <2>6. NothingAwaited'
    BY <1>1, <1>2, <1>3, <1>7, <2>3, <2>4 DEF NothingAwaited
  <2>7. BidsArrive'
    <3>1. \A b \in lot.bids :
            \/ \E k \in DOMAIN wire : \E e \in wire[k] : e.kind = "bid" /\ e.bid = b
            \/ ~Awaited /\ (b \in reading \/ b \in page.bids)
      BY <1>1, <1>3, <1>8 DEF BidsArrive
    <3>2. \A b \in lot.bids :
            \/ \E k \in DOMAIN wire' : \E e \in wire'[k] : e.kind = "bid" /\ e.bid = b
            \/ ~Awaited' /\ (b \in reading' \/ b \in page'.bids)
      BY <1>7, <2>2, <2>4, <3>1
    <3>3. \E e \in wire'[n] : e.kind = "bid" /\ e.bid = bid
      BY <1>5, <1>6, <2>2
    <3> QED
      BY <1>2, <2>2, <3>2, <3>3 DEF BidsArrive
  <2>8. EndArrives'
    <3>1. CASE end = lot.end
      <4>1. \A k \in DOMAIN wire' : \A e \in wire'[k] :
              Extends(e)' => k \in DOMAIN wire /\ e \in wire[k] /\ Extends(e)
        BY <1>1, <1>2, <2>2, <3>1 DEF Extends
      <4>2. \A e : Extends(e) <=> Extends(e)'
        BY <1>1, <1>2 DEF Extends
      <4>3. \A e : Creates(e) <=> Creates(e)'
        BY <1>1, <1>2 DEF Creates
      <4>4. \A k \in DOMAIN wire' : \A e \in wire'[k] : Creates(e)' =>
              k \in DOMAIN wire /\ e \in wire[k]
        BY <2>3 DEF Creates
      <4> QED
        BY <1>1, <1>2, <1>3, <1>7, <2>2, <2>4, <3>1, <4>1, <4>2, <4>3, <4>4 DEF EndArrives
    <3>2. CASE end # lot.end
      <4>1. \E f \in wire'[n] : Extends(f)' /\ f.end = Lot'.end
        BY <1>2, <1>5, <1>6, <2>2, <3>2 DEF Extends
      <4>2. \A k \in DOMAIN wire' : \A e \in wire'[k] :
              Extends(e)' /\ e.end # Lot'.end => k < n
        BY <1>2, <1>4, <2>2 DEF Extends
      <4> QED
        BY <2>2, <4>1, <4>2 DEF EndArrives
    <3> QED
      BY <3>1, <3>2
  <2>9. SettlementArrives'
    <3>1. \A k \in DOMAIN wire' : \A e \in wire'[k] :
            Settles(e)' => k \in DOMAIN wire /\ e \in wire[k] /\ Settles(e)
      BY <1>1, <1>2, <2>3 DEF Settles
    <3> QED
      BY <1>1, <1>2, <1>3, <3>1 DEF SettlementArrives
  <2> QED
    BY <2>5, <2>6, <2>7, <2>8, <2>9
<1>9. CASE page.stage # "on"
  <2>1. page.stage = "fetched" /\ end = lot.end /\ wire = <<>> /\ wire' = <<>>
    <3>1. missed' = missed \cup
            {e.noun : e \in {x \in events : \/ page.stage = "queried"
                                            \/ page.stage = "fetched" /\ x.kind # "bid"}}
          /\ wire' = wire
      BY <1>9 DEF Emitted
    <3>2. lot.noun \notin missed' /\ page.stage # "loading"
      BY <1>0, <1>2, <1>7 DEF LotFollowed
    <3>3. page.stage \in {"fetched", "queried"}
      BY <1>9, <3>2 DEF PageTyped, PageType
    <3>5. page.stage # "queried"
      BY <1>4, <1>5, <3>1, <3>2
    <3>6. \A e \in events : e.kind = "bid"
      BY <1>4, <3>1, <3>2, <3>3, <3>5
    <3>7. end = lot.end
      BY <1>5, <1>6, <3>6
    <3> QED
      BY <1>9, <3>1, <3>3, <3>5, <3>7 DEF WireTyped
  <2>2. ~Awaited /\ ~Awaited'
    BY <2>1 DEF Awaited
  <2>3. NothingAwaited'
    BY <1>1, <1>2, <1>3, <1>7, <2>1, <2>2 DEF NothingAwaited
  <2>4. EndArrives'
    BY <1>1, <1>2, <1>3, <1>7, <2>1, <2>2 DEF EndArrives
  <2>5. CreatedFirst' /\ BidsArrive' /\ SettlementArrives'
    BY <1>2, <1>7, <2>1 DEF CreatedFirst, BidsArrive, SettlementArrives
  <2> QED
    BY <2>3, <2>4, <2>5
<1> QED
  BY <1>8, <1>9

\* the lot is settled
LEMMA SettlementIsFollowed ==
  ASSUME ChainTyped, WireTyped, PageTyped, ChainArrives,
         Lot' = [Lot EXCEPT !.settled = TRUE],
         Emitted({Settlement}), UNCHANGED <<reading, page>>,
         page.stage = "on" => missed' = missed /\ \E n \in Nat : Grown(n, {Settlement})
  PROVE  ChainArrives'
<1>0. SUFFICES ASSUME LotFollowed'
               PROVE  (CreatedFirst /\ NothingAwaited /\ BidsArrive /\ EndArrives
                         /\ SettlementArrives)'
  BY DEF ChainArrives
<1>1. PICK lot \in LotType : lot = Lot
  BY LotIs
<1>2. /\ Lot'.noun = lot.noun /\ Lot'.bids = lot.bids /\ Lot'.end = lot.end
      /\ Lot'.settled = TRUE
  BY <1>1 DEF LotType
<1>3. PICK e : e = Settlement
  OBVIOUS
<1>4. /\ e.kind = "settled" /\ e.noun = lot.noun /\ e.winner = Winner(lot)
      /\ e.amount = ChainAuction(lot).amount
  BY <1>1, <1>3 DEF Settlement
<1>5. page' = page /\ reading' = reading
  OBVIOUS
<1>6. /\ Leaders(lot) \subseteq Leaders(Lot)' /\ Winner(Lot)' = Winner(lot)
      /\ ChainAuction(Lot)'.amount = ChainAuction(lot).amount
  BY <1>2 DEF ChainAuction, Leaders, Winner
<1>7. page.stage = "on"
  <2>1. ASSUME page.stage # "on"
        PROVE  FALSE
    <3>1. missed' = missed \cup
            {x.noun : x \in {y \in {e} : \/ page.stage = "queried"
                                         \/ page.stage = "fetched" /\ y.kind # "bid"}}
      BY <1>3, <2>1 DEF Emitted
    <3>2. lot.noun \notin missed' /\ page.stage # "loading"
      BY <1>0, <1>2, <1>5 DEF LotFollowed
    <3>3. page.stage \in {"fetched", "queried"}
      BY <2>1, <3>2 DEF PageTyped, PageType
    <3> QED
      BY <1>4, <3>1, <3>2, <3>3
  <2> QED
    BY <2>1
<1>8. /\ LotFollowed /\ CreatedFirst /\ NothingAwaited /\ BidsArrive /\ EndArrives
      /\ SettlementArrives
  BY <1>0, <1>1, <1>2, <1>5, <1>7 DEF LotFollowed, ChainArrives
<1>9. PICK n \in Nat : Grown(n, {e})
  BY <1>3, <1>7
<1>10. /\ n \in DOMAIN wire' /\ wire'[n] = {e}
       /\ \A k \in DOMAIN wire : k \in DOMAIN wire' /\ wire'[k] = wire[k] /\ k < n
       /\ \A k \in DOMAIN wire' : k = n \/ k \in DOMAIN wire
  BY <1>9 DEF Grown
<1>11. \A k \in DOMAIN wire' : \A x \in wire'[k] :
         x = e \/ (k \in DOMAIN wire /\ x \in wire[k])
  BY <1>10
<1>12. /\ \A x : Creates(x)' <=> Creates(x) /\ x # e
       /\ \A x : Extends(x)' <=> Extends(x) /\ x # e
       /\ \A x : Settles(x)' <=> Settles(x)
  BY <1>1, <1>2, <1>4 DEF Creates, Extends, Settles
<1>13. Awaited' <=> Awaited
  BY <1>4, <1>10, <1>11, <1>12 DEF Awaited, Creates
<1>14. CreatedFirst'
  <2> SUFFICES ASSUME NEW k \in DOMAIN wire', NEW x \in wire'[k], Creates(x)'
               PROVE  /\ \A j \in DOMAIN wire' : \A f \in wire'[j] :
                           /\ f.kind = "created" => j < k \/ (j = k /\ f = x)
                           /\ f.noun = Lot'.noun => (j = k /\ f = x) \/ k < j
                      /\ \A b \in reading' : b.noun # Lot'.noun
    BY DEF CreatedFirst
  <2>1. k \in DOMAIN wire /\ x \in wire[k] /\ Creates(x) /\ k < n
    BY <1>10, <1>11, <1>12
  <2>2. /\ \A j \in DOMAIN wire : \A f \in wire[j] :
             /\ f.kind = "created" => j < k \/ (j = k /\ f = x)
             /\ f.noun = Lot.noun => (j = k /\ f = x) \/ k < j
        /\ \A b \in reading : b.noun # Lot.noun
    BY <1>8, <2>1 DEF CreatedFirst
  <2>3. \A f \in wire'[n] : f.kind # "created" /\ k < n
    BY <1>4, <1>10, <2>1
  <2> QED
    BY <1>1, <1>2, <1>5, <1>10, <2>2, <2>3
<1>15. NothingAwaited'
  <2>1. \A x \in wire'[n] : x.kind # "created"
    BY <1>4, <1>10
  <2> QED
    BY <1>1, <1>2, <1>5, <1>6, <1>8, <1>10, <1>13, <2>1 DEF NothingAwaited
<1>16. BidsArrive'
  <2>1. \A b \in lot.bids :
          \/ \E k \in DOMAIN wire : \E x \in wire[k] : x.kind = "bid" /\ x.bid = b
          \/ ~Awaited /\ (b \in reading \/ b \in page.bids)
    BY <1>1, <1>7, <1>8 DEF BidsArrive
  <2>2. \A b \in lot.bids :
          \/ \E k \in DOMAIN wire' : \E x \in wire'[k] : x.kind = "bid" /\ x.bid = b
          \/ ~Awaited' /\ (b \in reading' \/ b \in page'.bids)
    BY <1>5, <1>10, <1>13, <2>1
  <2> QED
    BY <1>2, <2>2 DEF BidsArrive
<1>17. EndArrives'
  <2>1. \A k \in DOMAIN wire' : \A x \in wire'[k] :
          /\ Extends(x)' => k \in DOMAIN wire /\ x \in wire[k] /\ Extends(x)
          /\ Creates(x)' => k \in DOMAIN wire /\ x \in wire[k] /\ Creates(x)
    BY <1>11, <1>12
  <2>2. \A k \in DOMAIN wire : \A x \in wire[k] :
          k \in DOMAIN wire' /\ x \in wire'[k] /\ (Extends(x) => Extends(x)')
    BY <1>1, <1>2, <1>10 DEF Extends
  <2> QED
    BY <1>1, <1>2, <1>5, <1>8, <1>13, <2>1, <2>2 DEF EndArrives
<1>18. SettlementArrives'
  <2>1. \E x \in wire'[n] : Settles(x)'
    BY <1>2, <1>4, <1>10 DEF Settles
  <2>2. \A k \in DOMAIN wire' : \A x \in wire'[k] : Settles(x)' =>
          x.winner = Winner(lot) /\ x.amount = ChainAuction(lot).amount
    BY <1>1, <1>4, <1>8, <1>11, <1>12 DEF SettlementArrives
  <2> QED
    BY <1>2, <1>6, <1>10, <2>1, <2>2 DEF SettlementArrives
<1> QED
  BY <1>14, <1>15, <1>16, <1>17, <1>18

\* the next lot is put on sale, perhaps as the last one is settled
LEMMA CreationIsFollowed ==
  ASSUME ChainTyped, WireTyped, PageTyped, NEW noun \in Nat, NEW end \in Int,
         Lot' = [noun |-> noun, bids |-> {}, end |-> end, settled |-> FALSE],
         \A i \in 1 .. Len(auctions) : Lots[i] # noun, \A b \in ChainBids : b.noun # noun,
         NEW creation, creation = [kind |-> "created", noun |-> noun, end |-> end],
         NEW events, creation \in events,
         \A e \in events : e = creation \/ (e.kind = "settled" /\ e.noun # noun),
         Emitted(events), UNCHANGED <<reading, page>>,
         page.stage = "on" => missed' = missed /\ \E n \in Nat : Grown(n, events)
  PROVE  ChainArrives'
<1>0. SUFFICES ASSUME LotFollowed'
               PROVE  (CreatedFirst /\ NothingAwaited /\ BidsArrive /\ EndArrives
                         /\ SettlementArrives)'
  BY DEF ChainArrives
<1>1. /\ Lot'.noun = noun /\ Lot'.bids = {} /\ Lot'.end = end /\ Lot'.settled = FALSE
      /\ page' = page /\ reading' = reading
  OBVIOUS
<1>2. creation.kind = "created" /\ creation.noun = noun /\ creation.end = end
  OBVIOUS
<1>3. page.stage = "on"
  <2>1. ASSUME page.stage # "on"
        PROVE  FALSE
    <3>1. missed' = missed \cup
            {x.noun : x \in {y \in events : \/ page.stage = "queried"
                                            \/ page.stage = "fetched" /\ y.kind # "bid"}}
      BY <2>1 DEF Emitted
    <3>2. noun \notin missed' /\ page.stage # "loading"
      BY <1>0, <1>1 DEF LotFollowed
    <3>3. page.stage \in {"fetched", "queried"}
      BY <2>1, <3>2 DEF PageTyped, PageType
    <3> QED
      BY <1>2, <3>1, <3>2, <3>3
  <2> QED
    BY <2>1
<1>4. PICK n \in Nat : Grown(n, events)
  BY <1>3
<1>5. /\ n \in DOMAIN wire' /\ wire'[n] = events
      /\ \A k \in DOMAIN wire : k \in DOMAIN wire' /\ wire'[k] = wire[k] /\ k < n
      /\ \A k \in DOMAIN wire' : k = n \/ k \in DOMAIN wire
  BY <1>4 DEF Grown
<1>6. \A k \in DOMAIN wire : \A x \in wire[k] : x.noun # noun
  BY DEF WireTyped, EventIsChains
<1>7. \A k \in DOMAIN wire' : \A x \in wire'[k] : x.noun = noun => k = n /\ x = creation
  BY <1>5, <1>6
<1>8. Awaited'
  BY <1>1, <1>2, <1>5 DEF Awaited, Creates
<1>9. \A b \in reading' : b.noun # noun
  BY <1>1 DEF WireTyped
<1>10. CreatedFirst'
  <2> SUFFICES ASSUME NEW k \in DOMAIN wire', NEW x \in wire'[k], Creates(x)'
               PROVE  /\ \A j \in DOMAIN wire' : \A f \in wire'[j] :
                           /\ f.kind = "created" => j < k \/ (j = k /\ f = x)
                           /\ f.noun = Lot'.noun => (j = k /\ f = x) \/ k < j
                      /\ \A b \in reading' : b.noun # Lot'.noun
    BY DEF CreatedFirst
  <2>1. k = n /\ x = creation
    BY <1>1, <1>7 DEF Creates
  <2>2. \A f \in wire'[n] : f.kind = "created" => f = creation
    BY <1>5
  <2> QED
    BY <1>1, <1>5, <1>7, <1>9, <2>1, <2>2
<1>11. \A k \in DOMAIN wire' : \A x \in wire'[k] : ~Extends(x)' /\ ~Settles(x)'
  BY <1>1, <1>2, <1>7 DEF Extends, Settles
<1>12. \A k \in DOMAIN wire' : \A x \in wire'[k] : Creates(x)' => x.end = end
  BY <1>1, <1>2, <1>7 DEF Creates
<1> QED
  BY <1>1, <1>8, <1>10, <1>11, <1>12
     DEF NothingAwaited, BidsArrive, EndArrives, SettlementArrives

-------------------------------------------------------------------------------
(* The actions of the auction house                                        *)

\* a bid, a rival's or the user's
LEMMA BidIsPlaced ==
  ASSUME PageInv, NEW by \in Bidders, NEW value \in BidValues, Accepts(value),
         BidPlaced(by, value), UNCHANGED <<now, reading, page, truthful>>
  PROVE  ChainTyped' /\ WireTyped' /\ PageTyped' /\ ChainArrives'
<1>1. ChainTyped /\ WireTyped /\ PageTyped /\ ChainArrives
  BY DEF PageInv
<1>2. PICK lot \in LotType : lot = Lot
  BY <1>1, LotIs
<1>3. /\ lot.noun \in Nat /\ lot.bids \subseteq BidType /\ lot.end \in Int
      /\ \A b \in lot.bids : b.noun = lot.noun
  BY <1>1, <1>2, LotIs DEF LotType
<1>4. PICK bid \in BidType : bid = [noun |-> lot.noun, by |-> by, value |-> value]
  BY <1>3 DEF BidType
<1>5. bid \notin lot.bids /\ ~lot.settled /\ bid.noun = lot.noun
  <2>1. \A b \in lot.bids : b.value < value
    BY <1>2 DEF Accepts
  <2>2. value \in Int /\ bid.value = value /\ bid.noun = lot.noun
    BY <1>4, LotsAssumption DEF BidValues
  <2>3. bid \notin lot.bids
    BY <2>1, <2>2
  <2> QED
    BY <1>2, <2>2, <2>3 DEF Accepts, LotOpen
<1>6. PICK end \in Int :
        /\ end = IF now = lot.end - 1 /\ lot.end < MaxNow THEN lot.end + 1 ELSE lot.end
        /\ end # lot.end <=> (now = lot.end - 1 /\ lot.end < MaxNow)
  BY <1>3
<1>7. PICK next \in LotType :
        next = [noun |-> lot.noun, bids |-> lot.bids \cup {bid}, end |-> end,
                settled |-> lot.settled]
  <2>1. lot.bids \cup {bid} \subseteq BidType /\ lot.settled \in BOOLEAN
    BY <1>2, <1>3 DEF LotType
  <2> QED
    BY <1>3, <2>1 DEF LotType
<1>8. PICK events : events =
        {[kind |-> "bid", noun |-> lot.noun, bid |-> bid]}
          \cup (IF end # lot.end THEN {[kind |-> "extended", noun |-> lot.noun, end |-> end]}
                ELSE {})
  OBVIOUS
<1>9. /\ auctions' = [auctions EXCEPT ![Len(auctions)].bids = @ \cup {bid},
                                      ![Len(auctions)].end = end]
      /\ Emitted(events)
  <2>1. BidPlaced(by, value)
    OBVIOUS
  <2> QED
    BY <1>2, <1>4, <1>6, <1>8, <2>1 DEF BidPlaced
<1>10. auctions' = [auctions EXCEPT ![Len(auctions)] = next]
  <2>1. /\ auctions \in Seq(LotType) /\ Len(auctions) \in DOMAIN auctions
        /\ lot = auctions[Len(auctions)]
    BY <1>1, <1>2 DEF ChainTyped, Lot
  <2>2. [[lot EXCEPT !.bids = @ \cup {bid}] EXCEPT !.end = end] = next
    <3>1. lot = [noun |-> lot.noun, bids |-> lot.bids, end |-> lot.end, settled |-> lot.settled]
      BY DEF LotType
    <3>2. PICK bids : bids = lot.bids \cup {bid}
      OBVIOUS
    <3>3. PICK taken : taken = [lot EXCEPT !.bids = bids]
      OBVIOUS
    <3>4. taken = [noun |-> lot.noun, bids |-> bids, end |-> lot.end, settled |-> lot.settled]
      BY <3>1, <3>3
    <3>5. [taken EXCEPT !.end = end] = next
      BY <1>7, <3>2, <3>4
    <3> QED
      BY <3>2, <3>3, <3>5
  <2> QED
    BY <1>9, <2>1, <2>2
<1>11. /\ next.noun = Lot.noun /\ Lot.bids \subseteq next.bids
       /\ \A b \in next.bids : b.noun = next.noun
  BY <1>2, <1>3, <1>5, <1>7
<1>12. now' \in Int
  BY <1>1 DEF ChainTyped
<1>13. ChainTyped' /\ Lot' = next /\ ChainIsKept
  BY <1>1, <1>10, <1>11, <1>12, LotChanges
<1>14. \A e \in events : e \in EventType /\ EventIsChains(e)'
  <2>1. \E i \in 1 .. Len(auctions') : Lot'.noun = Lots[i]
    <3>1. Len(auctions') \in 1 .. Len(auctions') /\ Lot' = auctions'[Len(auctions')]
      BY <1>13 DEF ChainTyped, Lot
    <3> QED
      BY <1>13, <3>1 DEF ChainTyped
  <2>2. bid \in ChainBids'
    <3>1. Len(auctions') \in 1 .. Len(auctions') /\ Lot' = auctions'[Len(auctions')]
      BY <1>13 DEF ChainTyped, Lot
    <3> QED
      BY <1>7, <1>13, <3>1 DEF ChainBids
  <2>3. Lot'.noun = lot.noun
    BY <1>7, <1>13
  <2>4. PICK bidding : bidding = [kind |-> "bid", noun |-> lot.noun, bid |-> bid]
    OBVIOUS
  <2>5. bidding \in EventType /\ EventIsChains(bidding)'
    <3>1. bidding.kind = "bid" /\ bidding.noun = lot.noun /\ bidding.bid = bid
      BY <2>4
    <3>2. bidding \in EventType
      BY <1>3, <2>4 DEF EventType
    <3> QED
      BY <1>5, <2>1, <2>2, <2>3, <3>1, <3>2 DEF EventIsChains
  <2>6. PICK extending : extending = [kind |-> "extended", noun |-> lot.noun, end |-> end]
    OBVIOUS
  <2>7. extending \in EventType /\ EventIsChains(extending)'
    <3>1. extending.kind = "extended" /\ extending.noun = lot.noun
      BY <2>6
    <3>2. extending \in EventType
      BY <1>3, <2>6 DEF EventType
    <3> QED
      BY <2>1, <2>3, <3>1, <3>2 DEF EventIsChains
  <2>8. \A e \in events : e = bidding \/ e = extending
    BY <1>8, <2>4, <2>6
  <2> QED
    BY <2>5, <2>7, <2>8
<1>15. events \in SUBSET EventType
  BY <1>14
<1>16. /\ WireTyped'
       /\ page.stage = "on" => missed' = missed /\ \E n \in Nat : Grown(n, events)
  BY <1>1, <1>9, <1>13, <1>14, <1>15, WireCarries
<1>17. PageTyped'
  BY <1>1, <1>13, PageStays
<1>18. Lot' = [noun |-> Lot.noun, bids |-> Lot.bids \cup {bid}, end |-> end,
               settled |-> Lot.settled]
  BY <1>2, <1>7, <1>13
<1>19. events = {[kind |-> "bid", noun |-> Lot.noun, bid |-> bid]}
          \cup (IF end # Lot.end THEN {[kind |-> "extended", noun |-> Lot.noun, end |-> end]}
                ELSE {})
  BY <1>2, <1>8
<1>20. bid \notin Lot.bids /\ bid.noun = Lot.noun /\ ~Lot.settled
  BY <1>2, <1>5
<1>21. ChainArrives'
  BY <1>1, <1>9, <1>16, <1>18, <1>19, <1>20, BidIsFollowed
<1> QED
  BY <1>13, <1>16, <1>17, <1>21

\* the settlement the auction house announces
LEMMA SettlementIs ==
  ASSUME ChainTyped, ChainTyped', ChainIsKept, \E i \in 1 .. Len(auctions') : Lot.noun = Lots[i]
  PROVE  \E e \in EventType : /\ e = Settlement /\ EventIsChains(e)'
                              /\ e.kind = "settled" /\ e.noun = Lot.noun
<1>1. PICK lot \in LotType : lot = Lot
  BY LotIs
<1>2. PICK chain \in ActiveType : chain = ChainAuction(Lot)
  BY ChainLeadIsThere
<1>3. lot.noun \in Nat /\ chain.amount \in Nat
  BY <1>1, <1>2 DEF LotType, ActiveType
<1>4. PICK winner \in Bidders :
        winner = Winner(Lot) /\ (winner = Me => OnChain(lot.noun, chain.amount))
  BY <1>1, <1>2, WinnerIs
<1>5. PICK e : e = [kind |-> "settled", noun |-> lot.noun, winner |-> winner,
                    amount |-> chain.amount]
  OBVIOUS
<1>6. Settlement = e
  BY <1>1, <1>2, <1>4, <1>5 DEF Settlement
<1>7. /\ e.kind = "settled" /\ e.noun = lot.noun /\ e.winner = winner
      /\ e.amount = chain.amount
  BY <1>5
<1>8. e \in EventType
  BY <1>3, <1>5, <1>4 DEF EventType
<1>9. EventIsChains(e)
  <2>1. \E i \in 1 .. Len(auctions) : lot.noun = Lots[i]
    BY <1>1, LotIs
  <2> QED
    BY <1>4, <1>7, <2>1 DEF EventIsChains
<1>10. EventIsChains(e)'
  BY <1>9 DEF ChainIsKept
<1> QED
  BY <1>1, <1>6, <1>7, <1>8, <1>10

\* the lot is settled, and no other is put up
LEMMA SettledIsFollowed ==
  ASSUME PageInv, auctions' = SettledAuctions, Emitted({Settlement}),
         UNCHANGED <<now, reading, page, truthful>>
  PROVE  ChainTyped' /\ WireTyped' /\ PageTyped' /\ ChainArrives'
<1>1. ChainTyped /\ WireTyped /\ PageTyped /\ ChainArrives
  BY DEF PageInv
<1>2. PICK lot \in LotType : lot = Lot
  BY <1>1, LotIs
<1>3. PICK next \in LotType : next = [lot EXCEPT !.settled = TRUE]
  BY <1>2 DEF LotType
<1>4. auctions' = [auctions EXCEPT ![Len(auctions)] = next]
  BY <1>2, <1>3 DEF SettledAuctions, Lot
<1>5. /\ next.noun = Lot.noun /\ Lot.bids \subseteq next.bids
      /\ \A b \in next.bids : b.noun = next.noun
  BY <1>1, <1>2, <1>3, LotIs DEF LotType
<1>6. now' \in Int
  BY <1>1 DEF ChainTyped
<1>7. ChainTyped' /\ Lot' = next /\ ChainIsKept
  BY <1>1, <1>4, <1>5, <1>6, LotChanges
<1>8. \E i \in 1 .. Len(auctions') : Lot.noun = Lots[i]
  <2>1. Len(auctions') \in 1 .. Len(auctions') /\ Lot' = auctions'[Len(auctions')]
    BY <1>7 DEF ChainTyped, Lot
  <2> QED
    BY <1>5, <1>7, <2>1 DEF ChainTyped
<1>9. PICK settlement \in EventType : settlement = Settlement /\ EventIsChains(settlement)'
  BY <1>1, <1>7, <1>8, SettlementIs
<1>10. /\ WireTyped'
       /\ page.stage = "on" => missed' = missed /\ \E n \in Nat : Grown(n, {settlement})
  <2>1. /\ {settlement} \in SUBSET EventType /\ \A e \in {settlement} : EventIsChains(e)'
        /\ Emitted({settlement})
    BY <1>9
  <2> QED
    BY <1>1, <1>7, <2>1, WireCarries
<1>11. PageTyped'
  BY <1>1, <1>7, PageStays
<1>12. ChainArrives'
  <2>1. Lot' = [Lot EXCEPT !.settled = TRUE]
    BY <1>2, <1>3, <1>7
  <2> QED
    BY <1>1, <1>9, <1>10, <2>1, SettlementIsFollowed
<1> QED
  BY <1>7, <1>10, <1>11, <1>12

\* the next lot is put up, alone or with the settlement of the one before
LEMMA LotIsPutUp ==
  ASSUME PageInv, Len(auctions) < Len(Lots), NEW a \in Seq(LotType), Len(a) = Len(auctions),
         \A i \in 1 .. Len(auctions) :
           a[i].noun = auctions[i].noun /\ a[i].bids = auctions[i].bids,
         auctions' = Append(a, NextLot),
         NEW events, Creation \in events, events \subseteq {Settlement, Creation},
         Emitted(events), UNCHANGED <<now, reading, page, truthful>>
  PROVE  ChainTyped' /\ WireTyped' /\ PageTyped' /\ ChainArrives'
<1>1. ChainTyped /\ WireTyped /\ PageTyped /\ ChainArrives /\ now \in Int /\ now' \in Int
  BY DEF PageInv, ChainTyped
<1>2. PICK noun \in Nat : noun = Lots[Len(auctions) + 1]
  BY <1>1, LotIs, LotsAssumption
<1>3. PICK end \in Int : end = now + 1
  BY <1>1
<1>4. PICK lot \in LotType :
        /\ lot = [noun |-> noun, bids |-> {}, end |-> end, settled |-> FALSE]
        /\ lot.noun = noun /\ lot.bids = {}
  <2>1. PICK none \in SUBSET BidType : none = {}
    OBVIOUS
  <2>2. [noun |-> noun, bids |-> none, end |-> end, settled |-> FALSE] \in LotType
    BY <2>1 DEF LotType
  <2> QED
    BY <2>1, <2>2
<1>5. NextLot = lot
  BY <1>2, <1>3, <1>4 DEF NextLot
<1>6. /\ ChainTyped' /\ Lot' = lot /\ ChainIsKept
      /\ \A i \in 1 .. Len(auctions) : Lots[i] # lot.noun
      /\ \A b \in ChainBids : b.noun # lot.noun
      /\ \E i \in 1 .. Len(auctions') : lot.noun = Lots[i]
  BY <1>1, <1>2, <1>4, <1>5, LotFollows
<1>7. PICK creation : creation = [kind |-> "created", noun |-> noun, end |-> end]
  OBVIOUS
<1>8. /\ Creation = creation /\ creation.kind = "created" /\ creation.noun = noun
  BY <1>4, <1>5, <1>7 DEF Creation
<1>9. creation \in EventType
  BY <1>7 DEF EventType
<1>10. EventIsChains(creation)'
  BY <1>4, <1>6, <1>8 DEF EventIsChains
<1>11. PICK settlement \in EventType :
         /\ settlement = Settlement /\ EventIsChains(settlement)'
         /\ settlement.kind = "settled" /\ settlement.noun # noun
  <2>1. Len(auctions) \in 1 .. Len(auctions) /\ Lot.noun = Lots[Len(auctions)]
    BY <1>1, LotIs
  <2>2. Len(auctions') \in Nat /\ Len(auctions') = Len(auctions) + 1
    BY <1>1, <1>4, <1>5, LotIs
  <2>3. \E i \in 1 .. Len(auctions') : Lot.noun = Lots[i]
    BY <2>1, <2>2
  <2>4. \E e \in EventType : /\ e = Settlement /\ EventIsChains(e)'
                             /\ e.kind = "settled" /\ e.noun = Lot.noun
    BY <1>1, <1>6, <2>3, SettlementIs
  <2> QED
    BY <1>4, <1>6, <2>1, <2>4
<1>12. \A e \in events : e = settlement \/ e = creation
  BY <1>8, <1>11
<1>13. events \in SUBSET EventType /\ \A e \in events : EventIsChains(e)'
  BY <1>9, <1>10, <1>11, <1>12
<1>14. /\ WireTyped'
       /\ page.stage = "on" => missed' = missed /\ \E n \in Nat : Grown(n, events)
  BY <1>1, <1>6, <1>13, WireCarries
<1>15. PageTyped'
  BY <1>1, <1>6, PageStays
<1>16. /\ Lot' = [noun |-> noun, bids |-> {}, end |-> end, settled |-> FALSE]
       /\ \A i \in 1 .. Len(auctions) : Lots[i] # noun
       /\ \A b \in ChainBids : b.noun # noun
  BY <1>4, <1>6
<1>17. /\ creation \in events
       /\ \A e \in events : e = creation \/ (e.kind = "settled" /\ e.noun # noun)
  BY <1>8, <1>11, <1>12
<1>18. ChainArrives'
  BY <1>1, <1>7, <1>14, <1>16, <1>17, CreationIsFollowed
<1> QED
  BY <1>6, <1>14, <1>15, <1>18

\* the auction house keeps the invariant
LEMMA AuctionHouseIsFollowed ==
  ASSUME PageInv,
         \/ \E by \in Rivals, value \in BidValues : RivalBids(by, value)
         \/ SettleAuction \/ CreateAuction
  PROVE  PageInv'
<1>1. UNCHANGED <<now, reading, page, input, asking, sent, truthful>>
  BY DEF RivalBids, SettleAuction, CreateAuction, formVars
<1>2. FormTyped'
  BY <1>1 DEF PageInv, FormTyped, BidValues
<1>3. ASSUME NEW by \in Rivals, NEW value \in BidValues, RivalBids(by, value)
      PROVE  ChainTyped' /\ WireTyped' /\ PageTyped' /\ ChainArrives'
  <2>1. by \in Bidders /\ Accepts(value) /\ BidPlaced(by, value)
    BY <1>3 DEF RivalBids, Bidders
  <2> QED
    BY <1>1, <2>1, BidIsPlaced
<1>4. PICK n \in Nat \ {0} : n = Len(auctions) /\ auctions \in Seq(LotType)
  BY DEF PageInv, ChainTyped
<1>5. ASSUME SettleAuction
      PROVE  ChainTyped' /\ WireTyped' /\ PageTyped' /\ ChainArrives'
  <2>1. CASE auctions' = SettledAuctions /\ Emitted({Settlement})
    BY <1>1, <2>1, SettledIsFollowed
  <2>2. CASE /\ Len(auctions) < Len(Lots) /\ auctions' = Append(SettledAuctions, NextLot)
             /\ Emitted({Settlement, Creation})
    <3>1. PICK a : a = SettledAuctions
      OBVIOUS
    <3>2. /\ a \in Seq(LotType) /\ Len(a) = Len(auctions)
          /\ \A i \in 1 .. Len(auctions) :
               a[i].noun = auctions[i].noun /\ a[i].bids = auctions[i].bids
      <4>1. PICK lot \in LotType : lot = auctions[n]
        BY <1>4
      <4>2. PICK next \in LotType : next = [lot EXCEPT !.settled = TRUE]
        BY DEF LotType
      <4>3. next.noun = lot.noun /\ next.bids = lot.bids
        BY <4>2 DEF LotType
      <4>4. a = [auctions EXCEPT ![n] = next]
        BY <1>4, <3>1, <4>1, <4>2 DEF SettledAuctions
      <4>5. a \in Seq(LotType) /\ Len(a) = n
        BY <1>4, <4>4
      <4>6. \A i \in 1 .. n : a[i] = IF i = n THEN next ELSE auctions[i]
        BY <1>4, <4>4
      <4> QED
        BY <1>4, <4>1, <4>3, <4>5, <4>6
    <3>3. Creation \in {Settlement, Creation}
      OBVIOUS
    <3> QED
      BY <1>1, <2>2, <3>1, <3>2, <3>3, LotIsPutUp
  <2> QED
    BY <1>5, <2>1, <2>2 DEF SettleAuction
<1>6. ASSUME CreateAuction
      PROVE  ChainTyped' /\ WireTyped' /\ PageTyped' /\ ChainArrives'
  <2>1. /\ Len(auctions) < Len(Lots) /\ auctions' = Append(auctions, NextLot)
        /\ Emitted({Creation}) /\ Creation \in {Creation}
        /\ {Creation} \subseteq {Settlement, Creation}
    BY <1>6 DEF CreateAuction
  <2> QED
    BY <1>1, <1>4, <2>1, LotIsPutUp
<1> QED
  BY <1>2, <1>3, <1>5, <1>6 DEF PageInv

-------------------------------------------------------------------------------
(* The page's steps that change no more than what is shown                 *)

\* an auction that was fetched is an auction
LEMMA AuctionIsThere ==
  ASSUME PageTyped, page.stage # "loading"
  PROVE  /\ page.active \in ActiveType /\ page.active # NoAuction /\ page.active.noun \in Nat
         /\ page.active.bidder \in Bidders /\ page.active.amount \in Nat
         /\ page.active.end \in Int /\ page.active.settled \in BOOLEAN
         /\ page.bids \in SUBSET BidType
         /\ page.active = [noun |-> page.active.noun, bidder |-> page.active.bidder,
                           amount |-> page.active.amount, end |-> page.active.end,
                           settled |-> page.active.settled]
<1>1. page.active \in ActiveType /\ page.active # NoAuction
  BY DEF PageTyped, PageType
<1>2. PICK a \in ActiveType : a = page.active
  BY <1>1
<1>3. /\ a.noun \in Nat /\ a.bidder \in Bidders /\ a.amount \in Nat /\ a.end \in Int
      /\ a.settled \in BOOLEAN
      /\ a = [noun |-> a.noun, bidder |-> a.bidder, amount |-> a.amount, end |-> a.end,
              settled |-> a.settled]
  BY DEF ActiveType
<1>4. page.bids \in SUBSET BidType
  BY DEF PageTyped, PageType
<1> QED
  BY <1>1, <1>2, <1>3, <1>4

\* nothing but what is shown changes
LEMMA PageOnlyShows ==
  ASSUME PageInv, UNCHANGED <<auctions, wire, missed, reading>>, now' \in Int,
         page' \in PageType, page'.stage = page.stage, page'.active = page.active,
         page'.bids = page.bids, page'.last = page.last, truthful', FormTyped'
  PROVE  PageInv'
<1>1. ChainTyped'
  BY DEF PageInv, ChainTyped
<1>2. /\ Lot' = Lot /\ ChainBids' = ChainBids
      /\ \A e : EventIsChains(e)' <=> EventIsChains(e)
      /\ ChainAuction(Lot)' = ChainAuction(Lot) /\ Leaders(Lot)' = Leaders(Lot)
      /\ Winner(Lot)' = Winner(Lot)
  BY DEF Lot, ChainBids, EventIsChains, OnChain, ChainAuction, Leaders, Winner
<1>3. WireTyped'
  BY <1>2 DEF PageInv, WireTyped
<1>4. PageTyped'
  <2>1. LeadIsChains(page)'
    BY DEF PageInv, PageTyped, LeadIsChains, OnChain
  <2> QED
    BY <1>2, <2>1 DEF PageInv, PageTyped
<1>5. ChainArrives'
  <2>1. /\ Awaited' <=> Awaited
        /\ \A e : (Creates(e)' <=> Creates(e)) /\ (Extends(e)' <=> Extends(e))
                    /\ (Settles(e)' <=> Settles(e))
    BY <1>2 DEF Awaited, Creates, Extends, Settles
  <2>2. ASSUME LotFollowed'
        PROVE  (CreatedFirst /\ NothingAwaited /\ BidsArrive /\ EndArrives
                  /\ SettlementArrives)'
    <3>1. CreatedFirst /\ NothingAwaited /\ BidsArrive /\ EndArrives /\ SettlementArrives
      BY <1>2, <2>2 DEF LotFollowed, PageInv, ChainArrives
    <3>2. CreatedFirst'
      BY <1>2, <2>1, <3>1 DEF CreatedFirst
    <3>3. NothingAwaited'
      BY <1>2, <2>1, <3>1 DEF NothingAwaited
    <3>4. BidsArrive'
      BY <1>2, <2>1, <3>1 DEF BidsArrive
    <3>5. EndArrives'
      BY <1>2, <2>1, <3>1 DEF EndArrives
    <3>6. SettlementArrives'
      BY <1>2, <2>1, <3>1 DEF SettlementArrives
    <3> QED
      BY <3>2, <3>3, <3>4, <3>5, <3>6
  <2> QED
    BY <2>2 DEF ChainArrives
<1> QED
  BY <1>1, <1>3, <1>4, <1>5 DEF PageInv

\* a rendering of the same auction
LEMMA OnlyRendered ==
  ASSUME PageInv, NEW p \in PageType, p.stage = page.stage, p.active = page.active,
         p.bids = page.bids, p.last = page.last, NEW transaction, Rendered(p, transaction),
         UNCHANGED <<auctions, now, wire, missed, reading>>,
         \A b \in asking' : b.value \in BidValues, \A s \in sent' : s.bid.value \in BidValues
  PROVE  PageInv'
<1>1. truthful /\ LeadIsChains(p) /\ FormTyped /\ now \in Int
  BY DEF PageInv, PageTyped, LeadIsChains, ChainTyped
<1>2. truthful' /\ page' = Routed(p) /\ input' \in BidValues \cup {0}
  BY <1>1, TellsTheTruth
<1>3. PICK q \in PageType : /\ q = Routed(p) /\ q.stage = p.stage /\ q.active = p.active
                            /\ q.bids = p.bids /\ q.last = p.last
  BY RoutedIs
<1>4. FormTyped'
  BY <1>2 DEF FormTyped, BidValues
<1>5. /\ page' \in PageType /\ page'.stage = page.stage /\ page'.active = page.active
      /\ page'.bids = page.bids /\ page'.last = page.last
  BY <1>2, <1>3
<1> QED
  BY <1>1, <1>2, <1>4, <1>5, PageOnlyShows

\* an arrow, a route or the past auctions change what is shown
LEMMA ShownIs ==
  ASSUME NEW p \in PageType, NEW q,
         \/ q = setPrevOnDisplay(p) \/ q = setNextOnDisplay(p)
         \/ \E nouns \in SUBSET Int : q = [p EXCEPT !.past = nouns]
         \/ \E route \in Int : q = [p EXCEPT !.route = route]
  PROVE  /\ q \in PageType /\ q.stage = p.stage /\ q.active = p.active /\ q.bids = p.bids
         /\ q.last = p.last
<1>1. p.onDisplay \in Int
  BY DEF PageType
<1>2. \/ \E shown \in Int : q = [p EXCEPT !.onDisplay = shown]
      \/ \E nouns \in SUBSET Int : q = [p EXCEPT !.past = nouns]
      \/ \E route \in Int : q = [p EXCEPT !.route = route]
  <2>1. CASE q = setPrevOnDisplay(p)
    <3>1. q = p \/ q = [p EXCEPT !.onDisplay = p.onDisplay - 1]
      BY <2>1 DEF setPrevOnDisplay
    <3>2. p = [p EXCEPT !.onDisplay = p.onDisplay]
      BY DEF PageType
    <3> QED
      BY <1>1, <3>1, <3>2
  <2>2. CASE q = setNextOnDisplay(p)
    <3>1. q = p \/ q = [p EXCEPT !.onDisplay = p.onDisplay + 1]
      BY <2>2 DEF setNextOnDisplay
    <3>2. p = [p EXCEPT !.onDisplay = p.onDisplay]
      BY DEF PageType
    <3> QED
      BY <1>1, <3>1, <3>2
  <2> QED
    BY <2>1, <2>2
<1> QED
  BY <1>2 DEF PageType

\* what the user and the subgraph do
LEMMA UserKeepsPage ==
  ASSUME PageInv,
         \/ TimePasses \/ LoadPastAuctions \/ PrevAuction \/ NextAuction
         \/ \E route \in Routes \cup {-1} : VisitAuction(route)
         \/ \E value \in BidValues \cup {0} : TypeBid(value)
         \/ PlaceBid
         \/ \E b \in asking : SendBid(b) \/ DeclineBid(b)
         \/ \E s \in sent : BidReceipt(s)
  PROVE  PageInv'
<1>1. /\ page \in PageType /\ FormTyped /\ now \in Int /\ truthful
      /\ UNCHANGED <<auctions, wire, missed, reading>>
  BY DEF PageInv, PageTyped, ChainTyped, TimePasses, LoadPastAuctions, PrevAuction, NextAuction,
         VisitAuction, TypeBid, PlaceBid, SendBid, DeclineBid, BidReceipt
<1>2. page.onDisplay \in Int /\ page.stage \in {"loading", "fetched", "queried", "on"}
  BY <1>1 DEF PageType
<1>3. CASE TimePasses
  BY <1>1, <1>3, PageOnlyShows DEF TimePasses, formVars, FormTyped, BidValues
<1>4. CASE LoadPastAuctions
  <2>1. PICK p : /\ p = [page EXCEPT !.past = {auctions[i].noun : i \in DOMAIN auctions}]
                 /\ Rendered(p, status)
    BY <1>4 DEF LoadPastAuctions
  <2>2. {auctions[i].noun : i \in DOMAIN auctions} \in SUBSET Int
    <3>1. \A i \in DOMAIN auctions : auctions[i] \in LotType
      BY DEF PageInv, ChainTyped
    <3>2. \A i \in DOMAIN auctions : auctions[i].noun \in Int
      BY <3>1 DEF LotType
    <3> QED
      BY <3>2
  <2>3. /\ p \in PageType /\ p.stage = page.stage /\ p.active = page.active
        /\ p.bids = page.bids /\ p.last = page.last
    BY <1>1, <2>1, <2>2, ShownIs
  <2>4. asking' = asking /\ sent' = sent /\ now' = now
    BY <1>4 DEF LoadPastAuctions
  <2> QED
    BY <1>1, <2>1, <2>3, <2>4, OnlyRendered DEF FormTyped
<1>5. Shown(page) \in Int
  BY <1>2 DEF Shown
<1>6. CASE PrevAuction
  <2>1. PICK q : q = setPrevOnDisplay(page)
    OBVIOUS
  <2>2. PICK p : p = [q EXCEPT !.route = Shown(page) - 1] /\ Rendered(p, status)
    BY <1>6, <2>1 DEF PrevAuction
  <2>3. /\ q \in PageType /\ q.stage = page.stage /\ q.active = page.active
        /\ q.bids = page.bids /\ q.last = page.last
    BY <1>1, <2>1, ShownIs
  <2>4. /\ p \in PageType /\ p.stage = q.stage /\ p.active = q.active
        /\ p.bids = q.bids /\ p.last = q.last
    <3>1. Shown(page) - 1 \in Int
      BY <1>5
    <3> QED
      BY <2>2, <2>3, <3>1, ShownIs
  <2>5. asking' = asking /\ sent' = sent /\ now' = now
    BY <1>6 DEF PrevAuction
  <2> QED
    BY <1>1, <2>2, <2>3, <2>4, <2>5, OnlyRendered DEF FormTyped
<1>7. CASE NextAuction
  <2>1. PICK q : q = setNextOnDisplay(page)
    OBVIOUS
  <2>2. PICK p : p = [q EXCEPT !.route = Shown(page) + 1] /\ Rendered(p, status)
    BY <1>7, <2>1 DEF NextAuction
  <2>3. /\ q \in PageType /\ q.stage = page.stage /\ q.active = page.active
        /\ q.bids = page.bids /\ q.last = page.last
    BY <1>1, <2>1, ShownIs
  <2>4. /\ p \in PageType /\ p.stage = q.stage /\ p.active = q.active
        /\ p.bids = q.bids /\ p.last = q.last
    <3>1. Shown(page) + 1 \in Int
      BY <1>5
    <3> QED
      BY <2>2, <2>3, <3>1, ShownIs
  <2>5. asking' = asking /\ sent' = sent /\ now' = now
    BY <1>7 DEF NextAuction
  <2> QED
    BY <1>1, <2>2, <2>3, <2>4, <2>5, OnlyRendered DEF FormTyped
<1>8. ASSUME NEW route \in Routes \cup {-1}, VisitAuction(route)
      PROVE  PageInv'
  <2>1. PICK p : p = [page EXCEPT !.route = route] /\ Rendered(p, status)
    BY <1>8 DEF VisitAuction
  <2>2. route \in Int
    BY LotsAssumption
  <2>3. /\ p \in PageType /\ p.stage = page.stage /\ p.active = page.active
        /\ p.bids = page.bids /\ p.last = page.last
    BY <1>1, <2>1, <2>2, ShownIs
  <2>4. asking' = asking /\ sent' = sent /\ now' = now
    BY <1>8 DEF VisitAuction
  <2> QED
    BY <1>1, <2>1, <2>3, <2>4, OnlyRendered DEF FormTyped
<1>9. ASSUME NEW value \in BidValues \cup {0}, TypeBid(value)
      PROVE  PageInv'
  BY <1>1, <1>9, PageOnlyShows DEF TypeBid, FormTyped, BidValues
<1>10. CASE PlaceBid
  <2>1. input \in BidValues \cup {0} /\ input > page.active.amount /\ Shown(page) # -1
    BY <1>1, <1>10 DEF FormTyped, PlaceBid, FormShown, AuctionShown
  <2>2. page.active # NoAuction
    BY <2>1 DEF Shown
  <2>3. page.active.amount \in Nat
    BY <2>2, AuctionIsThere DEF PageInv, PageTyped
  <2>4. input \in BidValues
    BY <2>1, <2>3
  <2>5. FormTyped'
    <3>1. PICK b : b = [noun |-> page.active.noun, value |-> input] /\ asking' = asking \cup {b}
      BY <1>10 DEF PlaceBid
    <3>2. b.value \in BidValues /\ input' = input /\ sent' = sent
      BY <1>10, <2>4, <3>1 DEF PlaceBid
    <3> QED
      BY <1>1, <3>1, <3>2 DEF FormTyped, BidValues
  <2>6. page' = page /\ now' = now /\ truthful' = truthful
    BY <1>10 DEF PlaceBid
  <2> QED
    BY <1>1, <2>5, <2>6, PageOnlyShows
<1>11. ASSUME NEW b \in asking, SendBid(b)
       PROVE  PageInv'
  <2>1. /\ Rendered(page, "Mining") /\ asking' = asking \ {b} /\ now' = now
        /\ \A s \in sent' : s \in sent \/ s = [bid |-> b, state |-> "pending"]
    BY <1>11 DEF SendBid
  <2>2. \A s \in sent' : s \in sent \/ s.bid = b
    BY <2>1
  <2> QED
    BY <1>1, <2>1, <2>2, OnlyRendered DEF FormTyped
<1>12. ASSUME NEW b \in asking, DeclineBid(b)
       PROVE  PageInv'
  BY <1>1, <1>12, PageOnlyShows DEF DeclineBid, FormTyped, BidValues
<1>13. ASSUME NEW s \in sent, BidReceipt(s)
       PROVE  PageInv'
  <2>1. Rendered(page, s.state) /\ asking' = asking /\ sent' \subseteq sent /\ now' = now
    BY <1>13 DEF BidReceipt
  <2> QED
    BY <1>1, <2>1, OnlyRendered DEF FormTyped
<1> QED
  BY <1>3, <1>4, <1>6, <1>7, <1>8, <1>9, <1>10, <1>11, <1>12, <1>13

\* a bid of the user's is mined
LEMMA MinedIsFollowed ==
  ASSUME PageInv, NEW s \in sent, MineBid(s)
  PROVE  PageInv'
<1>1. s.bid.value \in BidValues /\ FormTyped /\ page \in PageType /\ now \in Int /\ truthful
  BY DEF PageInv, FormTyped, PageTyped, ChainTyped
<1>2. UNCHANGED <<now, reading, page, input, asking, truthful>>
  BY DEF MineBid
<1>3. FormTyped'
  <2>1. PICK t : /\ sent' = (sent \ {s}) \cup {t}
                 /\ \E state : t = [s EXCEPT !.state = state]
    BY DEF MineBid
  <2>2. t.bid = s.bid
    BY <2>1
  <2>3. \A x \in sent' : x.bid.value \in BidValues
    BY <1>1, <2>1, <2>2 DEF FormTyped
  <2> QED
    BY <1>1, <1>2, <2>3 DEF FormTyped, BidValues
<1>4. CASE s.bid.noun = Lot.noun /\ Accepts(s.bid.value)
  <2>1. BidPlaced(Me, s.bid.value) /\ Me \in Bidders
    BY <1>4 DEF MineBid, Bidders
  <2>2. ChainTyped' /\ WireTyped' /\ PageTyped' /\ ChainArrives'
    BY <1>1, <1>2, <1>4, <2>1, BidIsPlaced
  <2> QED
    BY <1>3, <2>2 DEF PageInv
<1>5. CASE ~(s.bid.noun = Lot.noun /\ Accepts(s.bid.value))
  <2>1. UNCHANGED <<auctions, wire, missed>>
    BY <1>5 DEF MineBid
  <2> QED
    BY <1>1, <1>2, <1>3, <2>1, PageOnlyShows
<1> QED
  BY <1>4, <1>5

-------------------------------------------------------------------------------
(* The page fetches the auction and the bids, and subscribes               *)

\* on an unchanged chain, a page with another auction or stage
LEMMA ChainStays ==
  ASSUME PageInv, UNCHANGED <<auctions, now>>
  PROVE  /\ ChainTyped' /\ Lot' = Lot /\ ChainBids' = ChainBids
         /\ \A e : EventIsChains(e)' <=> EventIsChains(e)
         /\ ChainAuction(Lot)' = ChainAuction(Lot)
         /\ Leaders(Lot)' = Leaders(Lot) /\ Winner(Lot)' = Winner(Lot)
         /\ \A noun, value : OnChain(noun, value)' <=> OnChain(noun, value)
         /\ \A e : (Creates(e)' <=> Creates(e)) /\ (Extends(e)' <=> Extends(e))
                     /\ (Settles(e)' <=> Settles(e))
<1>1. Lot' = Lot /\ ChainBids' = ChainBids
  BY DEF Lot, ChainBids
<1>2. /\ \A noun, value : OnChain(noun, value)' <=> OnChain(noun, value)
      /\ ChainAuction(Lot)' = ChainAuction(Lot)
      /\ Leaders(Lot)' = Leaders(Lot) /\ Winner(Lot)' = Winner(Lot)
  BY <1>1 DEF OnChain, ChainAuction, Leaders, Winner
<1>3. \A e : EventIsChains(e)' <=> EventIsChains(e)
  BY <1>1, <1>2 DEF EventIsChains
<1>4. ChainTyped'
  BY DEF PageInv, ChainTyped
<1> QED
  BY <1>1, <1>2, <1>3, <1>4 DEF Creates, Extends, Settles

\* the auction is fetched: what came before it need not arrive
LEMMA FetchIsFollowed ==
  ASSUME PageInv, FetchAuction
  PROVE  PageInv'
<1>1. /\ ChainTyped /\ WireTyped /\ PageTyped /\ FormTyped
      /\ UNCHANGED <<auctions, now, wire, missed, reading, asking, sent>>
      /\ page.stage = "loading"
  BY DEF PageInv, FetchAuction
<1>2. PICK chain \in ActiveType :
        /\ chain = ChainAuction(Lot) /\ chain.noun = Lot.noun /\ chain.end = Lot.end
        /\ chain.settled = Lot.settled
        /\ chain.bidder = Me => OnChain(Lot.noun, chain.amount)
  BY <1>1, ChainLeadIsThere
<1>3. PICK noun \in Nat : noun = Lot.noun
  BY <1>1, LotIs DEF LotType
<1>4. PICK fetched, p :
        /\ fetched = [page EXCEPT !.active = chain]
        /\ p = [fetched EXCEPT !.stage = "fetched", !.last = noun]
  OBVIOUS
<1>5. /\ p \in PageType /\ p.stage = "fetched" /\ p.active = chain /\ p.bids = page.bids
      /\ p.last = noun
  <2>1. PICK old \in PageType : old = page
    BY <1>1 DEF PageTyped
  <2>2. fetched = [old EXCEPT !.active = chain]
    BY <1>4, <2>1
  <2>3. chain \in ActiveType \cup {NoAuction} /\ noun \in Int
    OBVIOUS
  <2>4. fetched \in PageType /\ fetched.active = chain /\ fetched.bids = old.bids
    BY <2>2, <2>3 DEF PageType
  <2>5. /\ p \in PageType /\ p.stage = "fetched" /\ p.active = fetched.active
        /\ p.bids = fetched.bids /\ p.last = noun
    BY <1>4, <2>3, <2>4 DEF PageType
  <2> QED
    BY <2>1, <2>4, <2>5
<1>6. page.bids = {}
  <2>1. page.active = NoAuction /\ \A b \in page.bids : b \in BidType /\ b.noun = page.active.noun
    BY <1>1 DEF PageTyped, PageType
  <2>2. \A b \in page.bids : b.noun \in Nat /\ b.noun = -1
    BY <2>1 DEF BidType, NoAuction
  <2> QED
    BY <2>2
<1>7. LeadIsChains(p) /\ Rendered(p, status)
  BY <1>2, <1>3, <1>4, <1>5 DEF LeadIsChains, FetchAuction, setFullAuction
<1>8. truthful' /\ page' = Routed(p) /\ input' \in BidValues \cup {0}
  BY <1>1, <1>5, <1>7, TellsTheTruth DEF PageTyped
<1>9. /\ page' \in PageType /\ page'.stage = "fetched" /\ page'.active = chain
      /\ page'.bids = {} /\ page'.last = noun
  BY <1>5, <1>6, <1>8, RoutedIs
<1>10. /\ ChainTyped' /\ Lot' = Lot /\ ChainBids' = ChainBids
       /\ \A e : EventIsChains(e)' <=> EventIsChains(e)
       /\ ChainAuction(Lot)' = chain
       /\ Leaders(Lot)' = Leaders(Lot) /\ Winner(Lot)' = Winner(Lot)
       /\ \A x, value : OnChain(x, value)' <=> OnChain(x, value)
  BY <1>1, <1>2, ChainStays
<1>11. wire = <<>> /\ wire' = <<>>
  BY <1>1 DEF WireTyped
<1>12. WireTyped'
  BY <1>1, <1>10, <1>11 DEF WireTyped
<1>13. PageTyped'
  <2>1. chain # NoAuction
    <3>1. chain.noun \in Nat /\ NoAuction.noun = -1
      BY DEF ActiveType, NoAuction
    <3> QED
      BY <3>1
  <2>2. LeadIsChains(page)'
    BY <1>2, <1>9, <1>10 DEF LeadIsChains
  <2> QED
    BY <1>8, <1>9, <2>1, <2>2 DEF PageTyped
<1>14. FormTyped'
  BY <1>1, <1>8 DEF FormTyped, BidValues
<1>15. ChainArrives'
  <2>1. CreatedFirst' /\ BidsArrive'
    BY <1>9, <1>11 DEF CreatedFirst, BidsArrive
  <2>2. NothingAwaited'
    <3>1. chain.bidder \in Leaders(Lot)
      BY <1>2 DEF Leaders
    <3> QED
      BY <1>2, <1>3, <1>9, <1>10, <1>11, <3>1 DEF NothingAwaited
  <2>3. EndArrives'
    BY <1>2, <1>9, <1>10, <1>11 DEF EndArrives
  <2>4. SettlementArrives'
    BY <1>2, <1>9, <1>10, <1>11 DEF SettlementArrives, Awaited
  <2> QED
    BY <2>1, <2>2, <2>3, <2>4 DEF ChainArrives
<1> QED
  BY <1>10, <1>12, <1>13, <1>14, <1>15 DEF PageInv

\* the bids are queried, or the page subscribes: nothing is on its way yet
LEMMA StageIsFollowed ==
  ASSUME PageInv, QueryBids \/ Subscribe
  PROVE  PageInv'
<1>1. /\ ChainTyped /\ WireTyped /\ PageTyped /\ FormTyped
      /\ UNCHANGED <<auctions, now, wire, missed, input, asking, sent, truthful>>
      /\ page.stage \in {"fetched", "queried"}
  BY DEF PageInv, QueryBids, Subscribe, formVars
<1>2. PICK stage \in {"queried", "on"} :
        /\ page' = [page EXCEPT !.stage = stage]
        /\ \/ stage = "queried" /\ reading' = UNION {auctions[i].bids : i \in DOMAIN auctions}
           \/ stage = "on" /\ reading' = reading /\ page.stage = "queried"
  BY DEF QueryBids, Subscribe
<1>3. /\ page' \in PageType /\ page'.stage = stage /\ page'.active = page.active
      /\ page'.bids = page.bids /\ page'.last = page.last
  BY <1>1, <1>2 DEF PageTyped, PageType
<1>4. /\ ChainTyped' /\ Lot' = Lot /\ ChainBids' = ChainBids
      /\ \A e : EventIsChains(e)' <=> EventIsChains(e)
      /\ ChainAuction(Lot)' = ChainAuction(Lot) /\ Leaders(Lot)' = Leaders(Lot)
      /\ Winner(Lot)' = Winner(Lot)
      /\ \A x, value : OnChain(x, value)' <=> OnChain(x, value)
  BY <1>1, ChainStays
<1>5. wire = <<>> /\ wire' = <<>>
  BY <1>1 DEF WireTyped
<1>6. stage = "queried" => reading' = ChainBids
  <2>1. DOMAIN auctions = 1 .. Len(auctions)
    BY <1>1 DEF ChainTyped
  <2> QED
    BY <1>2, <2>1 DEF ChainBids
<1>7. reading' \subseteq ChainBids
  BY <1>1, <1>2, <1>6 DEF WireTyped
<1>8. WireTyped'
  BY <1>1, <1>4, <1>5, <1>7 DEF WireTyped
<1>9. PageTyped'
  <2>1. LeadIsChains(page)'
    BY <1>1, <1>3, <1>4 DEF PageTyped, LeadIsChains
  <2> QED
    BY <1>1, <1>2, <1>3, <1>4, <2>1 DEF PageTyped
<1>10. FormTyped'
  BY <1>1 DEF FormTyped, BidValues
<1>11. ChainArrives'
  <2>1. ASSUME LotFollowed'
        PROVE  (CreatedFirst /\ NothingAwaited /\ BidsArrive /\ EndArrives
                  /\ SettlementArrives)'
    <3>1. /\ CreatedFirst /\ NothingAwaited /\ BidsArrive /\ EndArrives /\ SettlementArrives
          /\ ~Awaited /\ ~Awaited'
      BY <1>1, <1>4, <1>5, <2>1 DEF LotFollowed, PageInv, ChainArrives, Awaited
    <3>2. CreatedFirst'
      BY <1>5 DEF CreatedFirst
    <3>3. NothingAwaited'
      BY <1>3, <1>4, <1>5, <3>1 DEF NothingAwaited
    <3>4. BidsArrive'
      <4>1. CASE stage = "queried"
        <5>1. Lot.bids \subseteq reading'
          BY <1>1, <1>6, <4>1, LotIs
        <5> QED
          BY <1>4, <3>1, <5>1 DEF BidsArrive
      <4>2. CASE stage = "on"
        <5>1. page.stage = "queried" /\ reading' = reading
          BY <1>2, <4>2
        <5> QED
          BY <1>3, <1>4, <1>5, <3>1, <5>1 DEF BidsArrive
      <4> QED
        BY <4>1, <4>2
    <3>5. EndArrives'
      BY <1>3, <1>4, <1>5, <3>1 DEF EndArrives, Extends
    <3>6. SettlementArrives'
      BY <1>3, <1>4, <1>5, <3>1 DEF SettlementArrives
    <3> QED
      BY <3>2, <3>3, <3>4, <3>5, <3>6
  <2> QED
    BY <2>1 DEF ChainArrives
<1> QED
  BY <1>4, <1>8, <1>9, <1>10, <1>11 DEF PageInv

\* a bid is read, and leads if it is the highest of those read
LEMMA ReadIsFollowed ==
  ASSUME PageInv, NEW b \in reading, ReadBid(b)
  PROVE  PageInv'
<1>1. /\ ChainTyped /\ WireTyped /\ PageTyped /\ FormTyped
      /\ UNCHANGED <<auctions, now, wire, missed, asking, sent>>
      /\ page.stage = "on" /\ reading' = reading \ {b} /\ page \in PageType
  BY DEF PageInv, ReadBid, PageTyped
<1>2. b \in ChainBids /\ b \in BidType
  BY <1>1, LotIs DEF WireTyped
<1>3. PICK p : p = appendBid(page, b) /\ Rendered(p, status)
  BY DEF ReadBid
<1>4. PICK lead \in ActiveType :
        /\ lead = page.active /\ lead # NoAuction /\ lead.noun \in Nat
        /\ lead.end \in Int /\ lead.settled \in BOOLEAN /\ page.bids \in SUBSET BidType
  BY <1>1, AuctionIsThere
<1>5. PICK bids \in SUBSET BidType : bids = page.bids \cup {b} /\ bids # {}
  BY <1>2, <1>4
<1>6. PICK top \in bids : top = HighestBid(bids)
  BY <1>5, HighestIsThere
<1>7. top.by \in Bidders /\ top.value \in BidValues /\ top \in BidType
  BY <1>6 DEF BidType
<1>8. /\ p \in PageType /\ p.stage = "on" /\ p.last = page.last
      /\ lead.noun # b.noun => p = page
      /\ lead.noun = b.noun =>
           p.bids = bids /\ p.active = [noun |-> lead.noun, bidder |-> top.by,
                                        amount |-> top.value, end |-> lead.end,
                                        settled |-> lead.settled]
  BY <1>1, <1>2, <1>3, <1>4, <1>5, <1>6, AppendedIs DEF Concerns
<1>9. /\ p.active # NoAuction /\ p.active.noun = lead.noun /\ p.active.end = lead.end
      /\ p.active.settled = lead.settled
      /\ lead.noun = b.noun => p.active.bidder = top.by /\ p.active.amount = top.value
  <2>1. CASE lead.noun # b.noun
    BY <1>4, <1>8, <2>1
  <2>2. CASE lead.noun = b.noun
    <3>1. p.active.noun = lead.noun /\ NoAuction.noun = -1
      BY <1>8, <2>2 DEF NoAuction
    <3>2. p.active # NoAuction
      BY <1>4, <3>1
    <3> QED
      BY <1>8, <2>2, <3>2
  <2> QED
    BY <2>1, <2>2
<1>10. /\ p.bids \subseteq ChainBids /\ \A c \in p.bids : c.noun = lead.noun
       /\ page.bids \subseteq p.bids
  BY <1>1, <1>2, <1>4, <1>5, <1>8 DEF PageTyped
<1>11. LeadIsChains(p)
  <2>1. CASE lead.noun # b.noun
    BY <1>1, <1>8, <2>1 DEF PageTyped
  <2>2. CASE lead.noun = b.noun
    <3>1. ASSUME p.active.bidder = Me
          PROVE  OnChain(lead.noun, top.value)
      <4>1. top.by = Me /\ top \in ChainBids /\ top.noun = lead.noun
        BY <1>6, <1>8, <1>9, <1>10, <2>2, <3>1
      <4>2. top = [noun |-> lead.noun, by |-> Me, value |-> top.value]
        BY <1>7, <4>1 DEF BidType
      <4>3. PICK i \in 1 .. Len(auctions) : top \in auctions[i].bids
        BY <4>1 DEF ChainBids
      <4>4. i \in DOMAIN auctions
        BY <1>1, <4>3 DEF ChainTyped
      <4> QED
        BY <4>2, <4>3, <4>4 DEF OnChain
    <3> QED
      BY <1>9, <2>2, <3>1 DEF LeadIsChains
  <2> QED
    BY <2>1, <2>2
<1>12. truthful' /\ page' = Routed(p) /\ input' \in BidValues \cup {0}
  BY <1>1, <1>3, <1>8, <1>11, TellsTheTruth DEF PageTyped
<1>13. /\ page' \in PageType /\ page'.stage = "on" /\ page'.active = p.active
       /\ page'.bids = p.bids /\ page'.last = page.last
  BY <1>8, <1>12, RoutedIs
<1>14. /\ ChainTyped' /\ Lot' = Lot /\ ChainBids' = ChainBids
       /\ \A e : EventIsChains(e)' <=> EventIsChains(e)
       /\ ChainAuction(Lot)' = ChainAuction(Lot) /\ Leaders(Lot)' = Leaders(Lot)
       /\ Winner(Lot)' = Winner(Lot)
       /\ \A x, value : OnChain(x, value)' <=> OnChain(x, value)
       /\ \A e : (Creates(e)' <=> Creates(e)) /\ (Extends(e)' <=> Extends(e))
                   /\ (Settles(e)' <=> Settles(e))
  BY <1>1, ChainStays
<1>15. WireTyped'
  BY <1>1, <1>13, <1>14 DEF WireTyped
<1>16. PageTyped'
  <2>1. LeadIsChains(page)'
    BY <1>11, <1>13, <1>14 DEF LeadIsChains
  <2> QED
    BY <1>9, <1>10, <1>12, <1>13, <1>14, <2>1 DEF PageTyped
<1>17. FormTyped'
  BY <1>1, <1>12 DEF FormTyped, BidValues
<1>18. ChainArrives'
  <2>1. ASSUME LotFollowed'
        PROVE  (CreatedFirst /\ NothingAwaited /\ BidsArrive /\ EndArrives
                  /\ SettlementArrives)'
    <3>1. /\ CreatedFirst /\ NothingAwaited /\ BidsArrive /\ EndArrives /\ SettlementArrives
          /\ Awaited' <=> Awaited
      BY <1>1, <1>14, <2>1 DEF LotFollowed, PageInv, ChainArrives, Awaited
    <3>2. CreatedFirst'
      BY <1>1, <1>14, <3>1 DEF CreatedFirst
    <3>3. NothingAwaited'
      <4>1. ASSUME ~Awaited, page'.bids = Lot.bids
            PROVE  /\ page'.active.bidder \in Leaders(Lot)
                   /\ page'.active.amount = ChainAuction(Lot).amount
        <5>1. CASE lead.noun # b.noun
          BY <1>8, <1>13, <3>1, <4>1, <5>1 DEF NothingAwaited
        <5>2. CASE lead.noun = b.noun
          <6>1. Lot.bids = bids
            BY <1>8, <1>13, <4>1, <5>2
          <6>2. top.by \in Leaders(Lot) /\ ChainAuction(Lot).amount = top.value
            BY <1>5, <1>6, <6>1 DEF ChainAuction, Leaders
          <6> QED
            BY <1>9, <1>13, <5>2, <6>2
        <5> QED
          BY <5>1, <5>2
      <4> QED
        BY <1>1, <1>4, <1>9, <1>13, <1>14, <3>1, <4>1 DEF NothingAwaited
    <3>4. BidsArrive'
      <4>1. ASSUME NEW c \in Lot.bids
            PROVE  \/ \E k \in DOMAIN wire : \E e \in wire[k] : e.kind = "bid" /\ e.bid = c
                   \/ ~Awaited /\ (c \in reading' \/ c \in page'.bids)
        <5>1. \/ \E k \in DOMAIN wire : \E e \in wire[k] : e.kind = "bid" /\ e.bid = c
              \/ ~Awaited /\ (c \in reading \/ c \in page.bids)
          BY <1>1, <3>1 DEF BidsArrive
        <5>2. ASSUME ~Awaited, c = b
              PROVE  c \in page'.bids
          <6>1. b.noun = Lot.noun
            BY <1>1, <5>2, LotIs
          <6>2. lead.noun = b.noun
            BY <1>4, <3>1, <5>2, <6>1 DEF NothingAwaited
          <6> QED
            BY <1>5, <1>8, <1>13, <5>2, <6>2
        <5> QED
          BY <1>1, <1>10, <1>13, <5>1, <5>2
      <4> QED
        BY <1>1, <1>14, <3>1, <4>1 DEF BidsArrive
    <3>5. EndArrives'
      BY <1>1, <1>4, <1>9, <1>13, <1>14, <3>1 DEF EndArrives
    <3>6. SettlementArrives'
      BY <1>1, <1>4, <1>9, <1>13, <1>14, <3>1 DEF SettlementArrives
    <3> QED
      BY <3>2, <3>3, <3>4, <3>5, <3>6
  <2> QED
    BY <2>1 DEF ChainArrives
<1> QED
  BY <1>14, <1>15, <1>16, <1>17, <1>18 DEF PageInv

\* a bid whose block cannot be fetched: its noun is not followed any more
LEMMA LossIsNoted ==
  ASSUME PageInv, NEW b \in reading, LoseBid(b)
  PROVE  PageInv'
<1>1. /\ ChainTyped /\ WireTyped /\ PageTyped /\ FormTyped
      /\ UNCHANGED <<auctions, now, wire, page, input, asking, sent, truthful>>
      /\ reading' = reading \ {b} /\ missed' = missed \cup {b.noun}
  BY DEF PageInv, LoseBid, formVars
<1>2. /\ ChainTyped' /\ Lot' = Lot /\ ChainBids' = ChainBids
      /\ \A e : EventIsChains(e)' <=> EventIsChains(e)
      /\ ChainAuction(Lot)' = ChainAuction(Lot) /\ Leaders(Lot)' = Leaders(Lot)
      /\ Winner(Lot)' = Winner(Lot)
      /\ \A x, value : OnChain(x, value)' <=> OnChain(x, value)
      /\ \A e : (Creates(e)' <=> Creates(e)) /\ (Extends(e)' <=> Extends(e))
                  /\ (Settles(e)' <=> Settles(e))
  BY <1>1, ChainStays
<1>3. WireTyped'
  BY <1>1, <1>2 DEF WireTyped
<1>4. PageTyped'
  BY <1>1, <1>2 DEF PageTyped, LeadIsChains
<1>5. FormTyped'
  BY <1>1 DEF FormTyped, BidValues
<1>6. /\ wire' = wire /\ page' = page /\ Lot' = Lot /\ ChainAuction(Lot)' = ChainAuction(Lot)
      /\ Leaders(Lot)' = Leaders(Lot) /\ Winner(Lot)' = Winner(Lot)
      /\ \A e : (Creates(e)' <=> Creates(e)) /\ (Extends(e)' <=> Extends(e))
                  /\ (Settles(e)' <=> Settles(e))
  BY <1>1, <1>2
<1>7. ChainArrives'
  <2>1. ASSUME LotFollowed'
        PROVE  (CreatedFirst /\ NothingAwaited /\ BidsArrive /\ EndArrives
                  /\ SettlementArrives)'
    <3>1. /\ CreatedFirst /\ NothingAwaited /\ BidsArrive /\ EndArrives /\ SettlementArrives
          /\ (Awaited' <=> Awaited) /\ b.noun # Lot.noun
      BY <1>1, <1>2, <2>1 DEF LotFollowed, PageInv, ChainArrives, Awaited
    <3>2. CreatedFirst'
      BY <1>1, <1>2, <3>1 DEF CreatedFirst
    <3>3. NothingAwaited'
      BY <1>6, <3>1 DEF NothingAwaited
    <3>4. BidsArrive'
      <4>1. \A c \in Lot.bids : c.noun = Lot.noun
        BY <1>1, LotIs
      <4>2. \A c \in Lot.bids : c # b
        BY <3>1, <4>1
      <4> QED
        BY <1>1, <1>2, <3>1, <4>2 DEF BidsArrive
    <3>5. EndArrives'
      BY <1>6, <3>1 DEF EndArrives
    <3>6. SettlementArrives'
      BY <1>6, <3>1 DEF SettlementArrives
    <3> QED
      BY <3>2, <3>3, <3>4, <3>5, <3>6
  <2> QED
    BY <2>1 DEF ChainArrives
<1> QED
  BY <1>2, <1>3, <1>4, <1>5, <1>7 DEF PageInv

-------------------------------------------------------------------------------
(* The events arrive                                                       *)

\* what an event on its way says, and what is left when it has been taken
LEMMA EventArrives ==
  ASSUME PageInv, wire # <<>>, NEW e, e \in Head(wire), DeliverEvent(e)
  PROVE  /\ e \in EventType /\ EventIsChains(e) /\ 1 \in DOMAIN wire /\ e \in wire[1]
         /\ DOMAIN wire \subseteq Nat \ {0} /\ page.stage = "on"
         /\ wire' \in Seq(SUBSET EventType) /\ DOMAIN wire' \subseteq Nat \ {0}
         /\ \A k \in DOMAIN wire' : \A f \in wire'[k] : EventIsChains(f)
         /\ \E s \in {0, 1} : Taken(e, s)
         /\ UNCHANGED <<auctions, now, missed, asking, sent>>
<1>1. WireTyped
  BY DEF PageInv
<1>2. /\ wire' = IF Head(wire) = {e} THEN Tail(wire) ELSE <<Head(wire) \ {e}>> \o Tail(wire)
      /\ UNCHANGED <<auctions, now, missed, asking, sent>>
  BY DEF DeliverEvent
<1>3. wire \in Seq(SUBSET EventType) /\ page.stage = "on"
  BY <1>1 DEF WireTyped
<1>4. /\ wire' \in Seq(SUBSET EventType)
      /\ 1 \in DOMAIN wire /\ e \in wire[1] /\ DOMAIN wire \subseteq Nat \ {0}
      /\ \E s \in {0, 1} : Taken(e, s)
  BY <1>2, <1>3, EventIsTaken
<1>5. PICK s \in {0, 1} : Taken(e, s)
  BY <1>4
<1>6. \A k \in DOMAIN wire' : k + s \in DOMAIN wire /\ wire'[k] \subseteq wire[k + s]
  BY <1>5 DEF Taken
<1>7. \A k \in DOMAIN wire' : \A f \in wire'[k] : EventIsChains(f)
  BY <1>1, <1>6 DEF WireTyped
<1>8. e \in EventType /\ EventIsChains(e)
  <2>1. wire[1] \in SUBSET EventType
    BY <1>3, <1>4
  <2> QED
    BY <1>1, <1>4, <2>1 DEF WireTyped
<1>9. DOMAIN wire' \subseteq Nat \ {0}
  BY <1>4
<1> QED
  BY <1>2, <1>3, <1>4, <1>7, <1>8, <1>9

\* the creation stays before what it created
LEMMA CreationStaysFirst ==
  ASSUME CreatedFirst, NEW e, 1 \in DOMAIN wire, e \in wire[1],
         DOMAIN wire \subseteq Nat \ {0}, DOMAIN wire' \subseteq Nat \ {0},
         NEW s \in {0, 1}, Taken(e, s), Lot' = Lot,
         \A b \in reading' : b \in reading \/ (Awaited => b.noun # Lot.noun)
  PROVE  /\ CreatedFirst'
         /\ e.noun = Lot.noun => Creates(e) \/ ~Awaited
         /\ ~Creates(e) => (Awaited' <=> Awaited)
         /\ Creates(e) => \A k \in DOMAIN wire' : \A f \in wire'[k] : f.kind # "created"
<1>1. /\ \A k \in DOMAIN wire' : /\ k + s \in DOMAIN wire /\ wire'[k] \subseteq wire[k + s]
                                 /\ k + s = 1 => e \notin wire'[k]
      /\ \A k \in DOMAIN wire : \A f \in wire[k] :
           (k = 1 /\ f = e) \/ (k - s \in DOMAIN wire' /\ f \in wire'[k - s])
      /\ \A x : Creates(x)' <=> Creates(x)
  BY DEF Taken, Creates
<1>2. CreatedFirst'
  <2> SUFFICES ASSUME NEW k \in DOMAIN wire', NEW x \in wire'[k], Creates(x)
               PROVE  /\ \A j \in DOMAIN wire' : \A f \in wire'[j] :
                           /\ f.kind = "created" => j < k \/ (j = k /\ f = x)
                           /\ f.noun = Lot.noun => (j = k /\ f = x) \/ k < j
                      /\ \A b \in reading' : b.noun # Lot.noun
    BY <1>1 DEF CreatedFirst
  <2>1. k + s \in DOMAIN wire /\ x \in wire[k + s] /\ k \in Nat
    BY <1>1
  <2>2. /\ \A j \in DOMAIN wire : \A f \in wire[j] :
             /\ f.kind = "created" => j < k + s \/ (j = k + s /\ f = x)
             /\ f.noun = Lot.noun => (j = k + s /\ f = x) \/ k + s < j
        /\ \A b \in reading : b.noun # Lot.noun
        /\ Awaited
    BY <2>1 DEF CreatedFirst, Awaited
  <2>3. \A j \in DOMAIN wire' : \A f \in wire'[j] :
          /\ f.kind = "created" => j < k \/ (j = k /\ f = x)
          /\ f.noun = Lot.noun => (j = k /\ f = x) \/ k < j
    <3> SUFFICES ASSUME NEW j \in DOMAIN wire', NEW f \in wire'[j]
                 PROVE  /\ f.kind = "created" => j < k \/ (j = k /\ f = x)
                        /\ f.noun = Lot.noun => (j = k /\ f = x) \/ k < j
      OBVIOUS
    <3>1. j + s \in DOMAIN wire /\ f \in wire[j + s] /\ j \in Nat
      BY <1>1
    <3>2. /\ f.kind = "created" => j + s < k + s \/ (j + s = k + s /\ f = x)
          /\ f.noun = Lot.noun => (j + s = k + s /\ f = x) \/ k + s < j + s
      BY <2>2, <3>1
    <3> QED
      BY <2>1, <3>1, <3>2
  <2> QED
    BY <2>2, <2>3
<1>3. ASSUME e.noun = Lot.noun, Awaited
      PROVE  Creates(e)
  <2>1. PICK k \in DOMAIN wire : \E x \in wire[k] : Creates(x)
    BY <1>3 DEF Awaited
  <2>2. PICK x \in wire[k] : Creates(x)
    BY <2>1
  <2>3. (1 = k /\ e = x) \/ k < 1
    BY <1>3, <2>2 DEF CreatedFirst
  <2> QED
    BY <2>2, <2>3
<1>4. ASSUME ~Creates(e)
      PROVE  Awaited' <=> Awaited
  BY <1>1, <1>4 DEF Awaited
<1>5. ASSUME Creates(e), NEW k \in DOMAIN wire', NEW f \in wire'[k], f.kind = "created"
      PROVE  FALSE
  <2>1. k + s \in DOMAIN wire /\ f \in wire[k + s] /\ (k + s = 1 => f # e)
    BY <1>1
  <2>2. k + s < 1 \/ (k + s = 1 /\ f = e)
    BY <1>5, <2>1 DEF CreatedFirst
  <2> QED
    BY <2>1, <2>2
<1> QED
  BY <1>2, <1>3, <1>4, <1>5

\* what is left of the bids, the extensions and the settlement
LEMMA RestArrives ==
  ASSUME NEW e, 1 \in DOMAIN wire, e \in wire[1], DOMAIN wire \subseteq Nat \ {0},
         DOMAIN wire' \subseteq Nat \ {0}, NEW s \in {0, 1}, Taken(e, s), Lot' = Lot
  PROVE  /\ \A k \in DOMAIN wire' : \A f \in wire'[k] : \E j \in DOMAIN wire : f \in wire[j]
         /\ \A k \in DOMAIN wire : \A f \in wire[k] :
              f = e \/ \E j \in DOMAIN wire' : f \in wire'[j]
         /\ EndArrives => \A k \in DOMAIN wire' : \A x \in wire'[k] :
              Extends(x) /\ x.end # Lot.end =>
                \E j \in DOMAIN wire' : k < j /\ \E f \in wire'[j] : Extends(f) /\ f.end = Lot.end
         /\ EndArrives /\ Extends(e) /\ e.end # Lot.end =>
              \E j \in DOMAIN wire' : \E f \in wire'[j] : Extends(f)
<1>1. /\ \A k \in DOMAIN wire' : k + s \in DOMAIN wire /\ wire'[k] \subseteq wire[k + s]
      /\ \A k \in DOMAIN wire : \A f \in wire[k] :
           (k = 1 /\ f = e) \/ (k - s \in DOMAIN wire' /\ f \in wire'[k - s])
  BY DEF Taken
<1>2. ASSUME EndArrives, NEW k \in DOMAIN wire', NEW x \in wire'[k], Extends(x), x.end # Lot.end
      PROVE  \E j \in DOMAIN wire' : k < j /\ \E f \in wire'[j] : Extends(f) /\ f.end = Lot.end
  <2>1. k + s \in DOMAIN wire /\ x \in wire[k + s] /\ k \in Nat \ {0}
    BY <1>1
  <2>2. PICK j \in DOMAIN wire : k + s < j /\ \E f \in wire[j] : Extends(f) /\ f.end = Lot.end
    BY <1>2, <2>1 DEF EndArrives
  <2>3. j # 1 /\ j \in Nat /\ k < j - s
    BY <2>1, <2>2
  <2> QED
    BY <1>1, <2>2, <2>3
<1>3. ASSUME EndArrives, Extends(e), e.end # Lot.end
      PROVE  \E j \in DOMAIN wire' : \E f \in wire'[j] : Extends(f)
  <2>1. PICK j \in DOMAIN wire : 1 < j /\ \E f \in wire[j] : Extends(f) /\ f.end = Lot.end
    BY <1>3 DEF EndArrives
  <2> QED
    BY <1>1, <2>1
<1> QED
  BY <1>1, <1>2, <1>3

\* a bid arrives, and its block is fetched
LEMMA BidArrives ==
  ASSUME PageInv, wire # <<>>, NEW e, e \in Head(wire), DeliverEvent(e), e.kind = "bid"
  PROVE  PageInv'
<1>1. /\ e \in EventType /\ EventIsChains(e) /\ 1 \in DOMAIN wire /\ e \in wire[1]
      /\ DOMAIN wire \subseteq Nat \ {0} /\ page.stage = "on"
      /\ wire' \in Seq(SUBSET EventType) /\ DOMAIN wire' \subseteq Nat \ {0}
      /\ \A k \in DOMAIN wire' : \A f \in wire'[k] : EventIsChains(f)
      /\ UNCHANGED <<auctions, now, missed, asking, sent>>
  BY EventArrives
<1>2. PICK s \in {0, 1} : Taken(e, s)
  BY EventArrives
<1>3. PICK bid : bid = e.bid
  OBVIOUS
<1>4. /\ reading' = reading \cup {bid} /\ UNCHANGED <<page, input, truthful>>
      /\ bid \in ChainBids /\ bid.noun = e.noun
  BY <1>1, <1>3 DEF DeliverEvent, EventIsChains
<1>5. /\ ChainTyped' /\ Lot' = Lot /\ ChainBids' = ChainBids
      /\ \A f : EventIsChains(f)' <=> EventIsChains(f)
      /\ ChainAuction(Lot)' = ChainAuction(Lot) /\ Leaders(Lot)' = Leaders(Lot)
      /\ Winner(Lot)' = Winner(Lot)
      /\ \A x, value : OnChain(x, value)' <=> OnChain(x, value)
      /\ \A f : (Creates(f)' <=> Creates(f)) /\ (Extends(f)' <=> Extends(f))
                  /\ (Settles(f)' <=> Settles(f))
  BY <1>1, ChainStays
<1>6. WireTyped'
  BY <1>1, <1>4, <1>5 DEF PageInv, WireTyped
<1>7. PageTyped'
  BY <1>4, <1>5 DEF PageInv, PageTyped, LeadIsChains
<1>8. FormTyped'
  BY <1>1, <1>4 DEF PageInv, FormTyped, BidValues
<1>9. ChainArrives'
  <2>1. ASSUME LotFollowed'
        PROVE  (CreatedFirst /\ NothingAwaited /\ BidsArrive /\ EndArrives
                  /\ SettlementArrives)'
    <3>1. CreatedFirst /\ NothingAwaited /\ BidsArrive /\ EndArrives /\ SettlementArrives
      BY <1>1, <1>4, <1>5, <2>1 DEF LotFollowed, PageInv, ChainArrives
    <3>2. ~Creates(e) /\ ~Extends(e) /\ ~Settles(e)
      BY DEF Creates, Extends, Settles
    <3>3. bid.noun = Lot.noun => ~Awaited
      <4>1. ASSUME Awaited, bid.noun = Lot.noun
            PROVE  FALSE
        <5>1. PICK k \in DOMAIN wire : \E x \in wire[k] : Creates(x)
          BY <4>1 DEF Awaited
        <5>2. PICK x \in wire[k] : Creates(x)
          BY <5>1
        <5>3. (1 = k /\ e = x) \/ k < 1
          BY <1>1, <1>4, <3>1, <4>1, <5>2 DEF CreatedFirst
        <5> QED
          BY <1>1, <3>2, <5>2, <5>3
      <4> QED
        BY <4>1
    <3>4. CreatedFirst' /\ (Awaited' <=> Awaited)
      <4>1. \A b \in reading' : b \in reading \/ (Awaited => b.noun # Lot.noun)
        BY <1>4, <3>3
      <4> QED
        BY <1>1, <1>2, <1>5, <3>1, <3>2, <4>1, CreationStaysFirst
    <3>5. /\ \A k \in DOMAIN wire' : \A f \in wire'[k] : \E j \in DOMAIN wire : f \in wire[j]
          /\ \A k \in DOMAIN wire : \A f \in wire[k] :
               f = e \/ \E j \in DOMAIN wire' : f \in wire'[j]
          /\ \A k \in DOMAIN wire' : \A x \in wire'[k] : Extends(x) /\ x.end # Lot.end =>
               \E j \in DOMAIN wire' : k < j /\ \E f \in wire'[j] : Extends(f) /\ f.end = Lot.end
      BY <1>1, <1>2, <1>5, <3>1, RestArrives
    <3>6. NothingAwaited'
      BY <1>4, <1>5, <3>1, <3>4, <3>5 DEF NothingAwaited
    <3>7. BidsArrive'
      <4>1. ASSUME NEW b \in Lot.bids
            PROVE  \/ \E k \in DOMAIN wire' : \E f \in wire'[k] : f.kind = "bid" /\ f.bid = b
                   \/ ~Awaited /\ (b \in reading' \/ b \in page.bids)
        <5>1. \/ \E k \in DOMAIN wire : \E f \in wire[k] : f.kind = "bid" /\ f.bid = b
              \/ ~Awaited /\ (b \in reading \/ b \in page.bids)
          BY <1>1, <3>1 DEF BidsArrive
        <5>2. CASE bid = b
          <6>1. b.noun = Lot.noun
            BY LotIs DEF PageInv
          <6> QED
            BY <1>4, <3>3, <5>2, <6>1
        <5>3. CASE bid # b
          BY <1>3, <1>4, <3>5, <5>1, <5>3
        <5> QED
          BY <5>2, <5>3
      <4> QED
        BY <1>4, <1>5, <3>4, <4>1 DEF BidsArrive
    <3>8. EndArrives'
      <4>1. (\A k \in DOMAIN wire' : \A f \in wire'[k] : ~Extends(f)) =>
              \A k \in DOMAIN wire : \A f \in wire[k] : ~Extends(f)
        BY <3>2, <3>5
      <4> QED
        BY <1>4, <1>5, <3>1, <3>4, <3>5, <4>1 DEF EndArrives
    <3>9. SettlementArrives'
      BY <1>4, <1>5, <3>1, <3>2, <3>4, <3>5 DEF SettlementArrives
    <3> QED
      BY <3>4, <3>6, <3>7, <3>8, <3>9
  <2> QED
    BY <2>1 DEF ChainArrives
<1> QED
  BY <1>5, <1>6, <1>7, <1>8, <1>9 DEF PageInv

\* what the page becomes with an event that it renders
LEMMA EventIsRendered ==
  ASSUME PageInv, wire # <<>>, NEW e, e \in Head(wire), DeliverEvent(e),
         NEW p \in PageType, p.stage = "on", p.active # NoAuction, p.bids \subseteq ChainBids,
         \A b \in p.bids : b.noun = p.active.noun, LeadIsChains(p), Rendered(p, status),
         reading' = reading
  PROVE  /\ ChainTyped' /\ WireTyped' /\ PageTyped' /\ FormTyped'
         /\ page'.stage = "on" /\ page'.active = p.active /\ page'.bids = p.bids
         /\ page'.last = p.last
<1>1. /\ wire' \in Seq(SUBSET EventType)
      /\ \A k \in DOMAIN wire' : \A f \in wire'[k] : EventIsChains(f)
      /\ UNCHANGED <<auctions, now, missed, asking, sent>>
  BY EventArrives
<1>2. /\ ChainTyped' /\ Lot' = Lot /\ ChainBids' = ChainBids
      /\ \A f : EventIsChains(f)' <=> EventIsChains(f)
      /\ \A x, value : OnChain(x, value)' <=> OnChain(x, value)
  BY <1>1, ChainStays
<1>3. truthful' /\ page' = Routed(p) /\ input' \in BidValues \cup {0}
  BY TellsTheTruth DEF PageInv, PageTyped
<1>4. /\ page' \in PageType /\ page'.stage = "on" /\ page'.active = p.active
      /\ page'.bids = p.bids /\ page'.last = p.last
  BY <1>3, RoutedIs
<1>5. WireTyped'
  BY <1>1, <1>2, <1>4 DEF PageInv, WireTyped
<1>6. PageTyped'
  <2>1. LeadIsChains(page)'
    BY <1>2, <1>4 DEF LeadIsChains
  <2> QED
    BY <1>2, <1>3, <1>4, <2>1 DEF PageTyped
<1>7. FormTyped'
  BY <1>1, <1>3 DEF PageInv, FormTyped, BidValues
<1> QED
  BY <1>2, <1>4, <1>5, <1>6, <1>7

\* the creation of an auction arrives: the page follows the new one
LEMMA CreationArrives ==
  ASSUME PageInv, wire # <<>>, NEW e, e \in Head(wire), DeliverEvent(e), e.kind = "created"
  PROVE  PageInv'
<1>1. /\ e \in EventType /\ EventIsChains(e) /\ 1 \in DOMAIN wire /\ e \in wire[1]
      /\ DOMAIN wire \subseteq Nat \ {0} /\ page.stage = "on"
      /\ DOMAIN wire' \subseteq Nat \ {0}
      /\ UNCHANGED <<auctions, now, missed, asking, sent>>
  BY EventArrives
<1>2. PICK s \in {0, 1} : Taken(e, s)
  BY EventArrives
<1>3. PICK noun \in Nat, end \in Int : noun = e.noun /\ end = e.end
  BY <1>1 DEF EventType
<1>4. PICK lead \in ActiveType :
        /\ lead = NewAuction(noun, end) /\ lead.noun = noun /\ lead.end = end
        /\ lead.settled = FALSE /\ lead.bidder = "nobody" /\ lead.amount = 0
        /\ lead # NoAuction
  <2>1. PICK lead : lead = NewAuction(noun, end)
    OBVIOUS
  <2>2. lead \in ActiveType
    BY <2>1 DEF ActiveType, NewAuction, Bidders
  <2>3. /\ lead.noun = noun /\ lead.end = end /\ lead.settled = FALSE
        /\ lead.bidder = "nobody" /\ lead.amount = 0 /\ NoAuction.noun = -1
    BY <2>1 DEF NewAuction, NoAuction
  <2>4. lead # NoAuction
    BY <2>3
  <2> QED
    BY <2>1, <2>2, <2>3, <2>4
<1>5. PICK p : p = processAuctionCreated(page, e) /\ Rendered(p, status) /\ reading' = reading
  BY DEF DeliverEvent
<1>6. /\ p \in PageType /\ p.stage = "on" /\ p.active = lead /\ p.bids = {} /\ p.last = noun
  <2>1. page \in PageType
    BY DEF PageInv, PageTyped
  <2> QED
    BY <1>1, <1>3, <1>4, <1>5, <2>1, CreatedIs
<1>7. LeadIsChains(p)
  BY <1>4, <1>6 DEF LeadIsChains, Me
<1>8. /\ ChainTyped' /\ WireTyped' /\ PageTyped' /\ FormTyped'
      /\ page'.stage = "on" /\ page'.active = lead /\ page'.bids = {} /\ page'.last = noun
  <2>1. p.active # NoAuction /\ p.bids \subseteq ChainBids
        /\ \A b \in p.bids : b.noun = p.active.noun
    BY <1>4, <1>6
  <2> QED
    BY <1>5, <1>6, <1>7, <2>1, EventIsRendered
<1>9. /\ Lot' = Lot /\ ChainAuction(Lot)' = ChainAuction(Lot)
      /\ Leaders(Lot)' = Leaders(Lot) /\ Winner(Lot)' = Winner(Lot)
      /\ \A f : (Creates(f)' <=> Creates(f)) /\ (Extends(f)' <=> Extends(f))
                  /\ (Settles(f)' <=> Settles(f))
  BY <1>1, ChainStays
<1>10. ChainArrives'
  <2>1. ASSUME LotFollowed'
        PROVE  (CreatedFirst /\ NothingAwaited /\ BidsArrive /\ EndArrives
                  /\ SettlementArrives)'
    <3>1. CreatedFirst /\ NothingAwaited /\ BidsArrive /\ EndArrives /\ SettlementArrives
      BY <1>1, <1>9, <2>1 DEF LotFollowed, PageInv, ChainArrives
    <3>2. ~Extends(e) /\ ~Settles(e) /\ Awaited
      BY <1>1, <3>1 DEF Extends, Settles, NothingAwaited
    <3>3. /\ CreatedFirst'
          /\ ~Creates(e) => Awaited'
          /\ Creates(e) => \A k \in DOMAIN wire' : \A f \in wire'[k] : f.kind # "created"
      BY <1>1, <1>2, <1>5, <1>9, <3>1, <3>2, CreationStaysFirst
    <3>4. /\ \A k \in DOMAIN wire' : \A f \in wire'[k] : \E j \in DOMAIN wire : f \in wire[j]
          /\ \A k \in DOMAIN wire : \A f \in wire[k] :
               f = e \/ \E j \in DOMAIN wire' : f \in wire'[j]
          /\ \A k \in DOMAIN wire' : \A x \in wire'[k] : Extends(x) /\ x.end # Lot.end =>
               \E j \in DOMAIN wire' : k < j /\ \E f \in wire'[j] : Extends(f) /\ f.end = Lot.end
      BY <1>1, <1>2, <1>9, <3>1, RestArrives
    <3>5. ~Awaited' => Creates(e) /\ noun = Lot.noun
      BY <1>3, <3>3 DEF Creates
    <3>6. NothingAwaited'
      <4>1. Lot.bids = {} =>
              "nobody" \in Leaders(Lot) /\ ChainAuction(Lot).amount = 0
        BY DEF ChainAuction, Leaders
      <4> QED
        BY <1>4, <1>8, <1>9, <3>3, <3>5, <4>1 DEF NothingAwaited
    <3>7. BidsArrive'
      <4>1. \A b \in Lot.bids : \E k \in DOMAIN wire' : \E f \in wire'[k] :
              f.kind = "bid" /\ f.bid = b
        BY <1>1, <3>1, <3>2, <3>4 DEF BidsArrive
      <4> QED
        BY <1>9, <4>1 DEF BidsArrive
    <3>8. EndArrives'
      <4>1. (\A k \in DOMAIN wire' : \A f \in wire'[k] : ~Extends(f)) =>
              \A k \in DOMAIN wire : \A f \in wire[k] : Creates(f) => f.end = Lot.end
        BY <3>1, <3>2, <3>4 DEF EndArrives
      <4>2. (\A k \in DOMAIN wire' : \A f \in wire'[k] : ~Extends(f)) =>
              /\ ~Awaited' => end = Lot.end
              /\ \A k \in DOMAIN wire' : \A f \in wire'[k] : Creates(f) => f.end = Lot.end
        BY <1>1, <1>3, <3>4, <3>5, <4>1
      <4> QED
        BY <1>4, <1>8, <1>9, <3>4, <4>2 DEF EndArrives
    <3>9. SettlementArrives'
      BY <1>9, <3>1, <3>2, <3>4 DEF SettlementArrives
    <3> QED
      BY <3>3, <3>6, <3>7, <3>8, <3>9
  <2> QED
    BY <2>1 DEF ChainArrives
<1> QED
  BY <1>8, <1>10 DEF PageInv

\* an extension arrives
LEMMA ExtensionArrives ==
  ASSUME PageInv, wire # <<>>, NEW e, e \in Head(wire), DeliverEvent(e), e.kind = "extended"
  PROVE  PageInv'
<1>1. /\ e \in EventType /\ EventIsChains(e) /\ 1 \in DOMAIN wire /\ e \in wire[1]
      /\ DOMAIN wire \subseteq Nat \ {0} /\ page.stage = "on"
      /\ DOMAIN wire' \subseteq Nat \ {0}
      /\ UNCHANGED <<auctions, now, missed, asking, sent>>
  BY EventArrives
<1>2. PICK s \in {0, 1} : Taken(e, s)
  BY EventArrives
<1>3. PICK noun \in Nat, end \in Int : noun = e.noun /\ end = e.end
  BY <1>1 DEF EventType
<1>4. PICK old \in ActiveType :
        /\ old = page.active /\ old # NoAuction /\ old.noun \in Nat
        /\ old.bidder \in Bidders /\ old.amount \in Nat /\ old.settled \in BOOLEAN
  BY <1>1, AuctionIsThere DEF PageInv
<1>5. PICK p : p = setAuctionExtended(page, e) /\ Rendered(p, status) /\ reading' = reading
  BY DEF DeliverEvent
<1>6. /\ p \in PageType /\ p.stage = "on" /\ p.last = page.last /\ p.bids = page.bids
      /\ old.noun # noun => p = page
      /\ old.noun = noun => p.active =
           [noun |-> old.noun, bidder |-> old.bidder, amount |-> old.amount, end |-> end,
            settled |-> old.settled]
  <2>1. page \in PageType
    BY DEF PageInv, PageTyped
  <2> QED
    BY <1>1, <1>3, <1>4, <1>5, <2>1, ExtendedIs DEF Concerns
<1>7. /\ p.active # NoAuction /\ p.active.noun = old.noun /\ p.active.settled = old.settled
      /\ p.active.bidder = old.bidder /\ p.active.amount = old.amount
      /\ old.noun = noun => p.active.end = end
  <2>1. CASE old.noun # noun
    BY <1>4, <1>6, <2>1
  <2>2. CASE old.noun = noun
    <3>1. /\ p.active.noun = old.noun /\ NoAuction.noun = -1 /\ p.active.settled = old.settled
          /\ p.active.bidder = old.bidder /\ p.active.amount = old.amount /\ p.active.end = end
      BY <1>6, <2>2 DEF NoAuction
    <3> QED
      BY <1>4, <3>1
  <2> QED
    BY <2>1, <2>2
<1>8. /\ ChainTyped' /\ WireTyped' /\ PageTyped' /\ FormTyped'
      /\ page'.stage = "on" /\ page'.active = p.active /\ page'.bids = page.bids
      /\ page'.last = page.last
  <2>1. LeadIsChains(p) /\ p.bids \subseteq ChainBids /\ \A b \in p.bids : b.noun = p.active.noun
    BY <1>4, <1>6, <1>7 DEF PageInv, PageTyped, LeadIsChains
  <2> QED
    BY <1>5, <1>6, <1>7, <2>1, EventIsRendered
<1>9. /\ Lot' = Lot /\ ChainAuction(Lot)' = ChainAuction(Lot)
      /\ Leaders(Lot)' = Leaders(Lot) /\ Winner(Lot)' = Winner(Lot)
      /\ \A f : (Creates(f)' <=> Creates(f)) /\ (Extends(f)' <=> Extends(f))
                  /\ (Settles(f)' <=> Settles(f))
  BY <1>1, ChainStays
<1>10. ChainArrives'
  <2>1. ASSUME LotFollowed'
        PROVE  (CreatedFirst /\ NothingAwaited /\ BidsArrive /\ EndArrives
                  /\ SettlementArrives)'
    <3>1. CreatedFirst /\ NothingAwaited /\ BidsArrive /\ EndArrives /\ SettlementArrives
      BY <1>1, <1>9, <2>1 DEF LotFollowed, PageInv, ChainArrives
    <3>2. ~Creates(e) /\ ~Settles(e) /\ (Extends(e) <=> noun = Lot.noun)
      BY <1>3 DEF Creates, Settles, Extends
    <3>3. /\ CreatedFirst' /\ (Awaited' <=> Awaited)
          /\ noun = Lot.noun => ~Awaited
      BY <1>1, <1>2, <1>3, <1>5, <1>9, <3>1, <3>2, CreationStaysFirst
    <3>4. /\ \A k \in DOMAIN wire' : \A f \in wire'[k] : \E j \in DOMAIN wire : f \in wire[j]
          /\ \A k \in DOMAIN wire : \A f \in wire[k] :
               f = e \/ \E j \in DOMAIN wire' : f \in wire'[j]
          /\ \A k \in DOMAIN wire' : \A x \in wire'[k] : Extends(x) /\ x.end # Lot.end =>
               \E j \in DOMAIN wire' : k < j /\ \E f \in wire'[j] : Extends(f) /\ f.end = Lot.end
          /\ Extends(e) /\ e.end # Lot.end =>
               \E j \in DOMAIN wire' : \E f \in wire'[j] : Extends(f)
      BY <1>1, <1>2, <1>9, <3>1, RestArrives
    <3>5. NothingAwaited'
      BY <1>4, <1>7, <1>8, <1>9, <3>1, <3>3, <3>4 DEF NothingAwaited
    <3>6. BidsArrive'
      BY <1>1, <1>5, <1>8, <1>9, <3>1, <3>3, <3>4 DEF BidsArrive
    <3>7. EndArrives'
      <4>1. ASSUME \A k \in DOMAIN wire' : \A f \in wire'[k] : ~Extends(f)
            PROVE  /\ ~Awaited => p.active.end = Lot.end
                   /\ \A k \in DOMAIN wire : \A f \in wire[k] : Creates(f) => f.end = Lot.end
        <5>1. CASE Extends(e)
          <6>1. end = Lot.end /\ noun = Lot.noun /\ ~Awaited
            BY <1>3, <3>2, <3>3, <3>4, <4>1, <5>1
          <6>2. p.active.end = Lot.end
            BY <1>4, <1>7, <3>1, <6>1 DEF NothingAwaited
          <6> QED
            BY <6>1, <6>2 DEF Awaited
        <5>2. CASE ~Extends(e)
          <6>1. \A k \in DOMAIN wire : \A f \in wire[k] : ~Extends(f)
            BY <3>4, <4>1, <5>2
          <6>2. /\ ~Awaited => old.end = Lot.end
                /\ \A k \in DOMAIN wire : \A f \in wire[k] : Creates(f) => f.end = Lot.end
            BY <1>4, <3>1, <6>1 DEF EndArrives
          <6>3. ~Awaited => p = page
            BY <1>4, <1>6, <3>1, <3>2, <5>2 DEF NothingAwaited
          <6> QED
            BY <1>4, <6>2, <6>3
        <5> QED
          BY <5>1, <5>2
      <4> QED
        BY <1>8, <1>9, <3>3, <3>4, <4>1 DEF EndArrives
    <3>8. SettlementArrives'
      BY <1>4, <1>7, <1>8, <1>9, <3>1, <3>2, <3>3, <3>4 DEF SettlementArrives
    <3> QED
      BY <3>3, <3>5, <3>6, <3>7, <3>8
  <2> QED
    BY <2>1 DEF ChainArrives
<1> QED
  BY <1>8, <1>10 DEF PageInv

\* a settlement arrives
LEMMA SettlementComes ==
  ASSUME PageInv, wire # <<>>, NEW e, e \in Head(wire), DeliverEvent(e), e.kind = "settled"
  PROVE  PageInv'
<1>1. /\ e \in EventType /\ EventIsChains(e) /\ 1 \in DOMAIN wire /\ e \in wire[1]
      /\ DOMAIN wire \subseteq Nat \ {0} /\ page.stage = "on"
      /\ DOMAIN wire' \subseteq Nat \ {0}
      /\ UNCHANGED <<auctions, now, missed, asking, sent>>
  BY EventArrives
<1>2. PICK s \in {0, 1} : Taken(e, s)
  BY EventArrives
<1>3. PICK noun \in Nat, winner \in Bidders, amount \in Nat :
        /\ noun = e.noun /\ winner = e.winner /\ amount = e.amount
        /\ winner = Me => OnChain(noun, amount)
  BY <1>1 DEF EventType, EventIsChains
<1>4. PICK old \in ActiveType :
        /\ old = page.active /\ old # NoAuction /\ old.noun \in Nat /\ old.end \in Int
  BY <1>1, AuctionIsThere DEF PageInv
<1>5. PICK p : p = setAuctionSettled(page, e) /\ Rendered(p, status) /\ reading' = reading
  BY DEF DeliverEvent
<1>6. /\ p \in PageType /\ p.stage = "on" /\ p.last = page.last /\ p.bids = page.bids
      /\ old.noun # noun => p = page
      /\ old.noun = noun => p.active =
           [noun |-> old.noun, bidder |-> winner, amount |-> amount, end |-> old.end,
            settled |-> TRUE]
  <2>1. page \in PageType
    BY DEF PageInv, PageTyped
  <2> QED
    BY <1>1, <1>3, <1>4, <1>5, <2>1, SettledIs DEF Concerns
<1>7. /\ p.active # NoAuction /\ p.active.noun = old.noun /\ p.active.end = old.end
      /\ old.noun = noun =>
           /\ p.active.bidder = winner /\ p.active.amount = amount /\ p.active.settled = TRUE
  <2>1. CASE old.noun # noun
    BY <1>4, <1>6, <2>1
  <2>2. CASE old.noun = noun
    <3>1. /\ p.active.noun = old.noun /\ NoAuction.noun = -1 /\ p.active.end = old.end
          /\ p.active.bidder = winner /\ p.active.amount = amount /\ p.active.settled = TRUE
      BY <1>6, <2>2 DEF NoAuction
    <3> QED
      BY <1>4, <3>1
  <2> QED
    BY <2>1, <2>2
<1>8. /\ ChainTyped' /\ WireTyped' /\ PageTyped' /\ FormTyped'
      /\ page'.stage = "on" /\ page'.active = p.active /\ page'.bids = page.bids
      /\ page'.last = page.last
  <2>1. LeadIsChains(p)
    BY <1>3, <1>4, <1>6, <1>7 DEF PageInv, PageTyped, LeadIsChains
  <2>2. p.bids \subseteq ChainBids /\ \A b \in p.bids : b.noun = p.active.noun
    BY <1>4, <1>6, <1>7 DEF PageInv, PageTyped
  <2> QED
    BY <1>5, <1>6, <1>7, <2>1, <2>2, EventIsRendered
<1>9. /\ Lot' = Lot /\ ChainAuction(Lot)' = ChainAuction(Lot)
      /\ Leaders(Lot)' = Leaders(Lot) /\ Winner(Lot)' = Winner(Lot)
      /\ \A f : (Creates(f)' <=> Creates(f)) /\ (Extends(f)' <=> Extends(f))
                  /\ (Settles(f)' <=> Settles(f))
  BY <1>1, ChainStays
<1>10. ChainArrives'
  <2>1. ASSUME LotFollowed'
        PROVE  (CreatedFirst /\ NothingAwaited /\ BidsArrive /\ EndArrives
                  /\ SettlementArrives)'
    <3>1. CreatedFirst /\ NothingAwaited /\ BidsArrive /\ EndArrives /\ SettlementArrives
      BY <1>1, <1>9, <2>1 DEF LotFollowed, PageInv, ChainArrives
    <3>2. ~Creates(e) /\ ~Extends(e) /\ (Settles(e) <=> noun = Lot.noun)
      BY <1>3 DEF Creates, Settles, Extends
    <3>3. /\ CreatedFirst' /\ (Awaited' <=> Awaited)
          /\ noun = Lot.noun => ~Awaited
      BY <1>1, <1>2, <1>3, <1>5, <1>9, <3>1, <3>2, CreationStaysFirst
    <3>4. /\ \A k \in DOMAIN wire' : \A f \in wire'[k] : \E j \in DOMAIN wire : f \in wire[j]
          /\ \A k \in DOMAIN wire : \A f \in wire[k] :
               f = e \/ \E j \in DOMAIN wire' : f \in wire'[j]
          /\ \A k \in DOMAIN wire' : \A x \in wire'[k] : Extends(x) /\ x.end # Lot.end =>
               \E j \in DOMAIN wire' : k < j /\ \E f \in wire'[j] : Extends(f) /\ f.end = Lot.end
      BY <1>1, <1>2, <1>9, <3>1, RestArrives
    <3>5. Settles(e) => /\ Lot.settled /\ winner \in Leaders(Lot)
                        /\ amount = ChainAuction(Lot).amount /\ ~Awaited /\ old.noun = noun
      BY <1>1, <1>3, <1>4, <3>1, <3>2, <3>3 DEF SettlementArrives, NothingAwaited, Leaders
    <3>6. ~Awaited /\ ~Settles(e) => p = page
      BY <1>4, <1>6, <3>1, <3>2 DEF NothingAwaited
    <3>7. NothingAwaited'
      <4>1. ASSUME ~Awaited
            PROVE  /\ p.active.noun = Lot.noun /\ page.last = Lot.noun
                   /\ \A k \in DOMAIN wire : \A f \in wire[k] : f.kind # "created"
                   /\ p.active.settled => Lot.settled
                   /\ page.bids = Lot.bids => /\ p.active.bidder \in Leaders(Lot)
                                              /\ p.active.amount = ChainAuction(Lot).amount
        <5>1. CASE Settles(e)
          BY <1>4, <1>7, <3>1, <3>5, <4>1, <5>1 DEF NothingAwaited
        <5>2. CASE ~Settles(e)
          BY <3>1, <3>6, <4>1, <5>2 DEF NothingAwaited
        <5> QED
          BY <5>1, <5>2
      <4> QED
        BY <1>8, <1>9, <3>3, <3>4, <4>1 DEF NothingAwaited
    <3>8. BidsArrive'
      BY <1>1, <1>5, <1>8, <1>9, <3>1, <3>3, <3>4 DEF BidsArrive
    <3>9. EndArrives'
      <4>1. (\A k \in DOMAIN wire' : \A f \in wire'[k] : ~Extends(f)) =>
              \A k \in DOMAIN wire : \A f \in wire[k] : ~Extends(f)
        BY <3>2, <3>4
      <4> QED
        BY <1>4, <1>7, <1>8, <1>9, <3>1, <3>3, <3>4, <4>1 DEF EndArrives
    <3>10. SettlementArrives'
      <4>1. ASSUME Lot.settled
            PROVE  \/ \E k \in DOMAIN wire' : \E f \in wire'[k] : Settles(f)
                   \/ ~Awaited /\ p.active.settled
        <5>1. CASE Settles(e)
          BY <1>7, <3>5, <5>1
        <5>2. CASE ~Settles(e)
          BY <3>1, <3>4, <3>6, <4>1, <5>2 DEF SettlementArrives
        <5> QED
          BY <5>1, <5>2
      <4> QED
        BY <1>8, <1>9, <3>1, <3>3, <3>4, <4>1 DEF SettlementArrives
    <3> QED
      BY <3>3, <3>7, <3>8, <3>9, <3>10
  <2> QED
    BY <2>1 DEF ChainArrives
<1> QED
  BY <1>8, <1>10 DEF PageInv

-------------------------------------------------------------------------------

\* nothing has happened yet
LEMMA PageBegins ==
  ASSUME PageInit
  PROVE  PageInv
<1>1. PICK lot \in LotType :
        /\ lot = [noun |-> Lots[1], bids |-> {}, end |-> 1, settled |-> FALSE]
        /\ lot.noun = Lots[1] /\ lot.bids = {}
  <2>1. PICK none \in SUBSET BidType : none = {}
    OBVIOUS
  <2>2. PICK noun \in Nat : noun = Lots[1]
    BY LotsAssumption
  <2>3. [noun |-> noun, bids |-> none, end |-> 1, settled |-> FALSE] \in LotType
    BY DEF LotType
  <2> QED
    BY <2>1, <2>2, <2>3
<1>2. auctions = <<lot>>
  BY <1>1 DEF PageInit
<1>3. /\ auctions \in Seq(LotType) /\ Len(auctions) = 1 /\ auctions[1] = lot
      /\ 1 \in 1 .. Len(Lots)
  BY <1>2, OneMember, LotsAssumption
<1>4. ChainTyped
  BY <1>1, <1>3 DEF ChainTyped, PageInit
<1>5. wire = <<>> /\ reading = {} /\ page.stage = "loading" /\ page.active = NoAuction
      /\ page.bids = {} /\ truthful
  BY DEF PageInit
<1>6. WireTyped
  BY <1>5 DEF WireTyped
<1>7. page \in PageType
  <2>1. page.bids \in SUBSET BidType /\ page.past \in SUBSET Int /\ page.route \in Int
    <3>1. page.bids = {} /\ page.past = {} /\ page.route \in Routes \cup {-1}
      BY DEF PageInit
    <3>2. \A route \in Routes : route \in Int
      BY LotsAssumption
    <3> QED
      BY <3>1, <3>2
  <2> QED
    BY <2>1 DEF PageInit, PageType
<1>8. PageTyped
  BY <1>5, <1>7 DEF PageTyped, LeadIsChains
<1>9. FormTyped
  BY DEF FormTyped, PageInit
<1>10. ChainArrives
  BY <1>5 DEF ChainArrives, LotFollowed
<1> QED
  BY <1>4, <1>6, <1>8, <1>9, <1>10 DEF PageInv

\* every step of the auction house, the page and the user keeps the invariant
LEMMA PageIsKept ==
  ASSUME PageInv, [PageNext]_pageVars
  PROVE  PageInv'
<1>1. CASE UNCHANGED pageVars
  BY <1>1, PageOnlyShows DEF pageVars, PageInv, PageTyped, ChainTyped, FormTyped, BidValues
<1>2. CASE PageNext
  <2>1. ASSUME NEW b \in reading, ReadBid(b) \/ LoseBid(b)
        PROVE  PageInv'
    BY <2>1, ReadIsFollowed, LossIsNoted
  <2>2. ASSUME wire # <<>>, NEW e \in Head(wire), DeliverEvent(e)
        PROVE  PageInv'
    <3>1. e.kind \in {"bid", "created", "extended", "settled"}
      BY <2>2 DEF DeliverEvent
    <3> QED
      BY <2>2, <3>1, BidArrives, CreationArrives, ExtensionArrives, SettlementComes
  <2>3. ASSUME NEW s \in sent, MineBid(s)
        PROVE  PageInv'
    BY <2>3, MinedIsFollowed
  <2>4. CASE \/ \E by \in Rivals, value \in BidValues : RivalBids(by, value)
             \/ SettleAuction \/ CreateAuction
    BY <2>4, AuctionHouseIsFollowed
  <2>5. CASE FetchAuction
    BY <2>5, FetchIsFollowed
  <2>6. CASE QueryBids \/ Subscribe
    BY <2>6, StageIsFollowed
  <2>7. CASE \/ TimePasses \/ LoadPastAuctions \/ PrevAuction \/ NextAuction
             \/ \E route \in Routes \cup {-1} : VisitAuction(route)
             \/ \E value \in BidValues \cup {0} : TypeBid(value)
             \/ PlaceBid
             \/ \E b \in asking : SendBid(b) \/ DeclineBid(b)
             \/ \E s \in sent : BidReceipt(s)
    BY <2>7, UserKeepsPage
  <2> QED
    BY <1>2, <2>1, <2>2, <2>3, <2>4, <2>5, <2>6, <2>7 DEF PageNext
<1> QED
  BY <1>1, <1>2

\* nothing is on its way, so that what was promised of it is there
LEMMA QuietIsChains ==
  ASSUME PageInv
  PROVE  PageTellsChain
<1>1. ASSUME page.stage = "on", wire = <<>>, reading = {}, Lot.noun \notin missed
      PROVE  /\ page.active.bidder \in Leaders(Lot)
             /\ page.active = [ChainAuction(Lot) EXCEPT !.bidder = page.active.bidder]
             /\ page.bids = Lot.bids /\ page.last = Lot.noun
  <2>1. /\ NothingAwaited /\ BidsArrive /\ EndArrives /\ SettlementArrives
        /\ ~Awaited
    BY <1>1 DEF PageInv, ChainArrives, LotFollowed, Awaited
  <2>2. /\ page.active.noun = Lot.noun /\ page.last = Lot.noun
        /\ page.active.settled => Lot.settled
    BY <2>1 DEF NothingAwaited
  <2>3. page.bids = Lot.bids
    <3>1. Lot.bids \subseteq page.bids
      BY <1>1, <2>1 DEF BidsArrive
    <3>2. \A b \in page.bids : b \in ChainBids /\ b.noun = Lot.noun
      BY <2>2 DEF PageInv, PageTyped
    <3>3. page.bids \subseteq Lot.bids
      BY <3>2, LotIs DEF PageInv
    <3> QED
      BY <3>1, <3>3
  <2>4. /\ page.active.bidder \in Leaders(Lot)
        /\ page.active.amount = ChainAuction(Lot).amount
    BY <2>1, <2>3 DEF NothingAwaited
  <2>5. page.active.end = Lot.end
    BY <1>1, <2>1 DEF EndArrives
  <2>6. Lot.settled => page.active.settled
    BY <1>1, <2>1 DEF SettlementArrives
  <2>7. PICK chain \in ActiveType :
          chain = ChainAuction(Lot) /\ chain.noun = Lot.noun /\ chain.end = Lot.end
            /\ chain.settled = Lot.settled
    BY ChainLeadIsThere DEF PageInv
  <2>8. PICK lead \in ActiveType : lead = page.active
    BY <1>1, AuctionIsThere DEF PageInv
  <2>9. /\ lead.noun = chain.noun
        /\ lead.amount = chain.amount /\ lead.end = chain.end
        /\ lead.settled <=> chain.settled
    BY <2>2, <2>4, <2>5, <2>6, <2>7, <2>8
  <2>10. lead = [chain EXCEPT !.bidder = lead.bidder]
    BY <2>9 DEF ActiveType
  <2> QED
    BY <2>2, <2>3, <2>4, <2>7, <2>8, <2>10
<1>2. truthful
  BY DEF PageInv, PageTyped
<1> QED
  BY <1>1, <1>2 DEF PageTellsChain, QuietPageIsChains

(***************************************************************************)
(* The auction shown is the chain's once everything on its way has         *)
(* arrived, if nothing of it was missed, and the form tells of a success   *)
(* only of a bid on chain: for any nouns in the order in which they are    *)
(* auctioned, any bidders, bids, bounds of time and of what is on its way, *)
(* in whatever order the blocks of the bids are read.                      *)
(***************************************************************************)
THEOREM PageIsChains == PageSpec => []PageTellsChain
<1>1. PageInit => PageInv
  BY PageBegins
<1>2. PageInv /\ [PageNext]_pageVars => PageInv'
  BY PageIsKept
<1>3. PageInv => PageTellsChain
  BY QuietIsChains
<1> QED
  BY <1>1, <1>2, <1>3, PTL DEF PageSpec

-------------------------------------------------------------------------------
(* The payments of a draft.                                                *)

Targets == Recipients \cup {TokenBuyer, Payer, NotAnAddress}

DraftActions == [to : Targets, value : Int, usdc : Nat]

(***************************************************************************)
(* What a list of actions pays is the sum over its places.                 *)
(***************************************************************************)
LEMMA PaidTypes ==
  ASSUME NEW list \in Seq(DraftActions)
  PROVE  /\ Len(list) \in Nat /\ DOMAIN list = 1 .. Len(list)
         /\ \A i \in 1 .. Len(list) : list[i] \in DraftActions
         /\ \A i \in 1 .. Len(list) : Paid(list)[i] = list[i].usdc /\ Paid(list)[i] \in Nat
         /\ Payments(list) = Sum(Paid(list), 1 .. Len(list))
         /\ Payments(list) \in Nat
<1>1. Len(list) \in Nat /\ DOMAIN list = 1 .. Len(list)
  OBVIOUS
<1>2. \A i \in 1 .. Len(list) : list[i] \in DraftActions
  OBVIOUS
<1>3. \A i \in 1 .. Len(list) : Paid(list)[i] = list[i].usdc /\ Paid(list)[i] \in Nat
  BY <1>1, <1>2 DEF Paid, DraftActions
<1>4. Payments(list) = Sum(Paid(list), 1 .. Len(list))
  BY <1>1 DEF Payments, Sum
<1>5. Sum(Paid(list), 1 .. Len(list)) \in Nat
  <2>1. IsFiniteSet(1 .. Len(list))
    BY <1>1, FS_Interval
  <2>. DEFINE w == Paid(list)
              A == 1 .. Len(list)
  <2>2. PICK f \in [SUBSET A -> Nat] : SummedBy(w, A, f)
    <3>. HIDE DEF w, A
    <3>1. IsFiniteSet(A) /\ \A i \in A : w[i] \in Nat
      BY <2>1, <1>3 DEF A, w
    <3>. QED BY <3>1, SumExists
  <2>. HIDE DEF w
  <2>3. Sum(w, A) = f[A]
    BY <2>1, <2>2, SumIs
  <2>. QED BY <2>3 DEF w
<1>. QED BY <1>1, <1>2, <1>3, <1>4, <1>5

(***************************************************************************)
(* The sum up to the next place.                                           *)
(***************************************************************************)
LEMMA SumToNext ==
  ASSUME NEW w, NEW n \in Nat, \A i \in 1 .. n + 1 : w[i] \in Nat
  PROVE  Sum(w, 1 .. n) \in Nat /\ Sum(w, 1 .. n + 1) = Sum(w, 1 .. n) + w[n + 1]
<1>. DEFINE S == 1 .. n
<1>1. IsFiniteSet(S)
  BY FS_Interval
<1>2. n + 1 \notin S /\ S \cup {n + 1} = 1 .. n + 1
  OBVIOUS
<1>3. (\A i \in S : w[i] \in Nat) /\ w[n + 1] \in Nat
  OBVIOUS
<1>. HIDE DEF S
<1>4. Sum(w, S) \in Nat /\ Sum(w, S \cup {n + 1}) = Sum(w, S) + w[n + 1]
  BY <1>1, <1>2, <1>3, SumGrows
<1>. QED BY <1>2, <1>4 DEF S

(***************************************************************************)
(* Nothing is paid by no actions.                                          *)
(***************************************************************************)
LEMMA PaymentsOfNone == Payments(<<>>) = 0
<1>1. DOMAIN <<>> = {}
  OBVIOUS
<1>2. Payments(<<>>) = Sum(Paid(<<>>), DOMAIN <<>>)
  BY DEF Payments, Sum
<1>3. Sum(Paid(<<>>), {}) = 0
  BY SumOfNone
<1>. QED BY <1>1, <1>2, <1>3

(***************************************************************************)
(* An action that is added adds its payment.                               *)
(***************************************************************************)
LEMMA PaymentAdded ==
  ASSUME NEW list \in Seq(DraftActions), NEW action \in DraftActions
  PROVE  Payments(Append(list, action)) = Payments(list) + action.usdc
<1>. DEFINE longer == Append(list, action)
            n == Len(list)
<1>1. longer \in Seq(DraftActions) /\ Len(longer) = n + 1 /\ longer[n + 1] = action
      /\ \A i \in 1 .. n : longer[i] = list[i]
  OBVIOUS
<1>. HIDE DEF longer
<1>2. n \in Nat /\ IsFiniteSet(1 .. n)
  BY PaidTypes, FS_Interval
<1>3. \A i \in 1 .. n : Paid(longer)[i] = Paid(list)[i] /\ Paid(list)[i] \in Nat
  BY <1>1, <1>2, PaidTypes
<1>4. Paid(longer)[n + 1] = action.usdc /\ action.usdc \in Nat
  <2>1. n + 1 \in 1 .. Len(longer)
    BY <1>1, <1>2
  <2>2. Paid(longer)[n + 1] = longer[n + 1].usdc
    BY <1>1, <2>1, PaidTypes
  <2>. QED BY <1>1, <2>2 DEF DraftActions
<1>5. Sum(Paid(longer), 1 .. n + 1) = Sum(Paid(longer), 1 .. n) + Paid(longer)[n + 1]
  <2>1. \A i \in 1 .. n + 1 : Paid(longer)[i] \in Nat
    BY <1>2, <1>3, <1>4
  <2>. QED BY <1>2, <2>1, SumToNext
<1>6. Sum(Paid(longer), 1 .. n) = Sum(Paid(list), 1 .. n)
  BY <1>2, <1>3, SumSame
<1>7. Payments(longer) = Sum(Paid(longer), 1 .. n + 1) /\ Payments(list) = Sum(Paid(list), 1 .. n)
  BY <1>1, PaidTypes
<1>8. Payments(longer) = Payments(list) + action.usdc
  BY <1>4, <1>5, <1>6, <1>7
<1>. QED BY <1>8 DEF longer

(***************************************************************************)
(* The total only depends on the payments.                                 *)
(***************************************************************************)
LEMMA PaymentsSame ==
  ASSUME NEW list \in Seq(DraftActions), NEW other \in Seq(DraftActions),
         Len(other) = Len(list), \A i \in 1 .. Len(list) : other[i].usdc = list[i].usdc
  PROVE  Payments(other) = Payments(list)
<1>1. Len(list) \in Nat /\ IsFiniteSet(1 .. Len(list))
  BY PaidTypes, FS_Interval
<1>2. \A i \in 1 .. Len(list) : Paid(other)[i] = Paid(list)[i] /\ Paid(list)[i] \in Nat
  BY PaidTypes
<1>. QED BY <1>1, <1>2, SumSame, PaidTypes

(***************************************************************************)
(* A list from which an action is removed: the later ones move up.         *)
(***************************************************************************)
LEMMA ActionRemoved ==
  ASSUME NEW list \in Seq(DraftActions), NEW k \in DOMAIN list
  PROVE  /\ RemoveAt(list, k) \in Seq(DraftActions)
         /\ Len(RemoveAt(list, k)) = Len(list) - 1
         /\ \A i \in 1 .. Len(list) - 1 :
              RemoveAt(list, k)[i] = IF i < k THEN list[i] ELSE list[i + 1]
<1>1. Len(list) \in Nat /\ k \in 1 .. Len(list)
  OBVIOUS
<1>. DEFINE before == SubSeq(list, 1, k - 1)
            after == SubSeq(list, k + 1, Len(list))
<1>2. before \in Seq(DraftActions) /\ Len(before) = k - 1
      /\ \A i \in 1 .. k - 1 : before[i] = list[i]
  BY <1>1
<1>3. after \in Seq(DraftActions) /\ Len(after) = Len(list) - k
      /\ \A i \in 1 .. Len(list) - k : after[i] = list[k + i]
  BY <1>1
<1>. HIDE DEF before, after
<1>4. before \o after \in Seq(DraftActions) /\ Len(before \o after) = Len(list) - 1
      /\ \A i \in 1 .. Len(list) - 1 :
           (before \o after)[i] = IF i < k THEN before[i] ELSE after[i - (k - 1)]
  BY <1>1, <1>2, <1>3
<1>5. RemoveAt(list, k) = before \o after
  BY DEF RemoveAt, before, after
<1>6. ASSUME NEW i \in 1 .. Len(list) - 1
      PROVE  RemoveAt(list, k)[i] = IF i < k THEN list[i] ELSE list[i + 1]
  <2>1. CASE i < k
    BY <1>1, <1>2, <1>4, <1>5, <2>1
  <2>2. CASE ~ (i < k)
    <3>1. i - (k - 1) \in 1 .. Len(list) - k /\ k + (i - (k - 1)) = i + 1
      BY <1>1, <2>2
    <3>2. after[i - (k - 1)] = list[k + (i - (k - 1))]
      BY <1>3, <3>1
    <3>. QED BY <1>4, <1>5, <2>2, <3>1, <3>2
  <2>. QED BY <2>1, <2>2
<1>. QED BY <1>4, <1>5, <1>6

(***************************************************************************)
(* An action that is removed takes its payment with it: up to any place at *)
(* or after its own, the sum differs by just that.                         *)
(***************************************************************************)
LEMMA PaymentRemoved ==
  ASSUME NEW list \in Seq(DraftActions), NEW k \in DOMAIN list
  PROVE  Payments(list) = Payments(RemoveAt(list, k)) + list[k].usdc
<1>. DEFINE shorter == RemoveAt(list, k)
            n == Len(list)
            w == Paid(list)
            u == Paid(shorter)
            T == {m \in Nat : k + m <= n =>
                    /\ Sum(w, 1 .. k + m) = Sum(u, 1 .. k + m - 1) + w[k]
                    /\ Sum(u, 1 .. k + m - 1) \in Nat}
<1>1. n \in Nat /\ k \in 1 .. n /\ \A i \in 1 .. n : w[i] = list[i].usdc /\ w[i] \in Nat
  BY PaidTypes
<1>2. shorter \in Seq(DraftActions) /\ Len(shorter) = n - 1
      /\ \A i \in 1 .. n - 1 : shorter[i] = IF i < k THEN list[i] ELSE list[i + 1]
  BY ActionRemoved
<1>. HIDE DEF shorter
<1>3. \A i \in 1 .. n - 1 : u[i] \in Nat /\ u[i] = IF i < k THEN w[i] ELSE w[i + 1]
  <2>1. ASSUME NEW i \in 1 .. n - 1
        PROVE  u[i] \in Nat /\ u[i] = IF i < k THEN w[i] ELSE w[i + 1]
    <3>1. u[i] = shorter[i].usdc /\ u[i] \in Nat
      BY <1>2, PaidTypes
    <3>2. i \in 1 .. n /\ i + 1 \in 1 .. n
      BY <1>1
    <3>. QED BY <1>1, <1>2, <3>1, <3>2
  <2>. QED BY <2>1
<1>. HIDE DEF w, u
<1>4. 0 \in T
  <2>1. k - 1 \in Nat /\ (k - 1) + 1 = k /\ k + 0 = k
    BY <1>1
  <2>2. (\A i \in 1 .. k - 1 : w[i] \in Nat /\ u[i] = w[i]) /\ \A i \in 1 .. k : w[i] \in Nat
    BY <1>1, <1>3
  <2>3. Sum(u, 1 .. k - 1) = Sum(w, 1 .. k - 1)
    <3>1. IsFiniteSet(1 .. k - 1)
      BY <2>1, FS_Interval
    <3>. QED BY <2>2, <3>1, SumSame
  <2>4. Sum(w, 1 .. k - 1) \in Nat /\ Sum(w, 1 .. k) = Sum(w, 1 .. k - 1) + w[k]
    <3>. DEFINE q == k - 1
    <3>1. q \in Nat /\ q + 1 = k /\ \A i \in 1 .. q + 1 : w[i] \in Nat
      BY <2>1, <2>2
    <3>. HIDE DEF q
    <3>2. Sum(w, 1 .. q) \in Nat /\ Sum(w, 1 .. q + 1) = Sum(w, 1 .. q) + w[q + 1]
      BY <3>1, SumToNext
    <3>. QED BY <3>1, <3>2 DEF q
  <2>. QED BY <2>1, <2>3, <2>4
<1>5. ASSUME NEW m \in T PROVE m + 1 \in T
  <2>1. SUFFICES ASSUME k + (m + 1) <= n
                 PROVE  /\ Sum(w, 1 .. k + (m + 1)) = Sum(u, 1 .. k + (m + 1) - 1) + w[k]
                        /\ Sum(u, 1 .. k + (m + 1) - 1) \in Nat
    OBVIOUS
  <2>. DEFINE p == k + m
              r == p - 1
  <2>a. m \in Nat
    OBVIOUS
  <2>b. \A x \in Nat : k + (x + 1) <= n =>
          /\ k + x \in 1 .. n - 1 /\ k + x - 1 \in Nat /\ (k + x - 1) + 1 = k + x
          /\ k + (x + 1) = (k + x) + 1 /\ ((k + x) + 1) - 1 = k + x /\ ~ (k + x < k)
    <3>1. n \in Nat /\ k \in Nat /\ k >= 1
      BY <1>1
    <3>. HIDE DEF n
    <3>. QED BY <3>1
  <2>2. m \in Nat /\ p \in 1 .. n - 1 /\ r \in Nat /\ r + 1 = p
        /\ k + (m + 1) = p + 1 /\ (p + 1) - 1 = p /\ ~ (p < k)
    BY <2>1, <2>a, <2>b
  <2>3. Sum(w, 1 .. p) = Sum(u, 1 .. r) + w[k] /\ Sum(u, 1 .. r) \in Nat
    <3>1. p <= n
      BY <1>1, <2>2
    <3>. QED BY <3>1
  <2>. HIDE DEF p, r, T
  <2>4. \A i \in 1 .. p + 1 : w[i] \in Nat
    BY <1>1, <2>2
  <2>5. \A i \in 1 .. r + 1 : u[i] \in Nat
    BY <1>3, <2>2
  <2>6. u[p] = w[p + 1]
    BY <1>3, <2>2
  <2>7. Sum(w, 1 .. p) \in Nat /\ Sum(w, 1 .. p + 1) = Sum(w, 1 .. p) + w[p + 1]
    BY <2>2, <2>4, SumToNext
  <2>8. Sum(u, 1 .. r + 1) = Sum(u, 1 .. r) + u[r + 1]
    BY <2>2, <2>5, SumToNext
  <2>9. w[k] \in Nat /\ u[p] \in Nat
    BY <1>1, <1>3, <2>2
  <2>10. Sum(w, 1 .. p + 1) = Sum(u, 1 .. p) + w[k] /\ Sum(u, 1 .. p) \in Nat
    <3>1. Sum(u, 1 .. p) = Sum(u, 1 .. r) + u[p]
      BY <2>2, <2>8
    <3>. QED BY <2>3, <2>6, <2>7, <2>9, <3>1
  <2>11. k + (m + 1) - 1 = p
    BY <1>1, <2>2
  <2>. QED BY <2>2, <2>10, <2>11
<1>6. n - k \in T
  <2>1. T \in SUBSET Nat
    OBVIOUS
  <2>2. n - k \in Nat
    BY <1>1
  <2>. HIDE DEF T
  <2>. QED BY <1>4, <1>5, <2>1, <2>2, AllNumbers
<1>7. Sum(w, 1 .. n) = Sum(u, 1 .. n - 1) + w[k]
  <2>1. k + (n - k) = n /\ n <= n
    BY <1>1
  <2>. QED BY <1>6, <2>1
<1>8. Payments(list) = Sum(w, 1 .. n) /\ Payments(shorter) = Sum(u, 1 .. n - 1)
  BY <1>2, PaidTypes DEF w, u
<1>. QED BY <1>1, <1>7, <1>8 DEF shorter

\* the first action for the TokenBuyer carries v
Carries(list, v) ==
  \E i \in 1 .. Len(list) :
    /\ IsTopUp(list[i]) /\ list[i].value = v
    /\ \A j \in 1 .. i - 1 : ~ IsTopUp(list[j])

(***************************************************************************)
(* The first action for the TokenBuyer exists if any does, and is the only *)
(* first one.                                                              *)
(***************************************************************************)
LEMMA FirstTopUpIs ==
  ASSUME NEW list \in Seq(DraftActions)
  PROVE  /\ \A i \in TopUps(list) : (\A j \in TopUps(list) : i <= j) => FirstTopUp(list) = i
         /\ TopUps(list) # {} =>
              /\ FirstTopUp(list) \in TopUps(list)
              /\ \A j \in TopUps(list) : FirstTopUp(list) <= j
<1>. DEFINE First(i) == \A j \in TopUps(list) : i <= j
<1>1. DOMAIN list = 1 .. Len(list) /\ Len(list) \in Nat
  OBVIOUS
<1>2. TopUps(list) \in SUBSET Nat
  BY <1>1 DEF TopUps
<1>3. FirstTopUp(list) = CHOOSE i \in TopUps(list) : First(i)
  BY DEF FirstTopUp
<1>4. ASSUME NEW i \in TopUps(list), First(i) PROVE FirstTopUp(list) = i
  <2>1. \A j \in TopUps(list) : First(j) => j = i
    BY <1>2, <1>4
  <2>. HIDE DEF First
  <2>. QED BY <1>3, <1>4, <2>1
<1>5. ASSUME TopUps(list) # {}
      PROVE  FirstTopUp(list) \in TopUps(list) /\ First(FirstTopUp(list))
  <2>1. PICK i \in TopUps(list) : First(i)
    BY <1>2, <1>5, LeastNumber
  <2>. QED BY <1>4, <2>1
<1>. QED BY <1>4, <1>5

(***************************************************************************)
(* What the first action for the TokenBuyer carries, without its choice.   *)
(***************************************************************************)
LEMMA CarriesIs ==
  ASSUME NEW list \in Seq(DraftActions), NEW v
  PROVE  Carries(list, v) <=> (TopUps(list) # {} /\ list[FirstTopUp(list)].value = v)
<1>1. DOMAIN list = 1 .. Len(list) /\ Len(list) \in Nat
  OBVIOUS
<1>2. ASSUME Carries(list, v)
      PROVE  TopUps(list) # {} /\ list[FirstTopUp(list)].value = v
  <2>1. PICK i \in 1 .. Len(list) :
          /\ IsTopUp(list[i]) /\ list[i].value = v
          /\ \A j \in 1 .. i - 1 : ~ IsTopUp(list[j])
    BY <1>2 DEF Carries
  <2>2. i \in TopUps(list) /\ \A j \in TopUps(list) : i <= j
    BY <1>1, <2>1 DEF TopUps
  <2>. QED BY <2>1, <2>2, FirstTopUpIs
<1>3. ASSUME TopUps(list) # {}, list[FirstTopUp(list)].value = v
      PROVE  Carries(list, v)
  <2>. DEFINE i == FirstTopUp(list)
  <2>1. i \in TopUps(list) /\ \A j \in TopUps(list) : i <= j
    BY <1>3, FirstTopUpIs
  <2>. HIDE DEF i
  <2>2. i \in 1 .. Len(list) /\ IsTopUp(list[i]) /\ \A j \in 1 .. i - 1 : ~ IsTopUp(list[j])
    BY <1>1, <2>1 DEF TopUps
  <2>3. list[i].value = v
    BY <1>3 DEF i
  <2>. QED BY <2>2, <2>3 DEF Carries
<1>. QED BY <1>2, <1>3

(***************************************************************************)
(* An action is added after the top-up, if there is one, and is the top-up *)
(* if it is the first for the TokenBuyer.                                  *)
(***************************************************************************)
LEMMA AddedLast ==
  ASSUME NEW list \in Seq(DraftActions), NEW action \in DraftActions, NEW v
  PROVE  /\ Append(list, action) \in Seq(DraftActions)
         /\ Carries(list, v) => Carries(Append(list, action), v)
         /\ (TopUps(list) = {} /\ IsTopUp(action)) => Carries(Append(list, action), action.value)
<1>. DEFINE longer == Append(list, action)
            n == Len(list)
<1>1. n \in Nat /\ DOMAIN list = 1 .. n
  OBVIOUS
<1>2. longer \in Seq(DraftActions) /\ Len(longer) = n + 1 /\ longer[n + 1] = action
      /\ \A i \in 1 .. n : longer[i] = list[i]
  OBVIOUS
<1>. HIDE DEF longer
<1>3. ASSUME Carries(list, v) PROVE Carries(longer, v)
  <2>1. PICK i \in 1 .. n :
          /\ IsTopUp(list[i]) /\ list[i].value = v
          /\ \A j \in 1 .. i - 1 : ~ IsTopUp(list[j])
    BY <1>3 DEF Carries
  <2>2. i \in 1 .. Len(longer) /\ longer[i] = list[i]
        /\ \A j \in 1 .. i - 1 : longer[j] = list[j]
    BY <1>1, <1>2, <2>1
  <2>. QED BY <2>1, <2>2 DEF Carries
<1>4. ASSUME TopUps(list) = {}, IsTopUp(action) PROVE Carries(longer, action.value)
  <2>1. \A j \in 1 .. n : ~ IsTopUp(longer[j])
    BY <1>1, <1>2, <1>4 DEF TopUps
  <2>2. n + 1 \in 1 .. Len(longer) /\ 1 .. (n + 1) - 1 = 1 .. n
    BY <1>1, <1>2
  <2>. QED BY <1>2, <1>4, <2>1, <2>2 DEF Carries
<1>. QED BY <1>2, <1>3, <1>4 DEF longer

(***************************************************************************)
(* Removing another action leaves the top-up what it is.                   *)
(***************************************************************************)
LEMMA RemovedElsewhere ==
  ASSUME NEW list \in Seq(DraftActions), NEW k \in DOMAIN list, ~ IsTopUp(list[k]), NEW v,
         Carries(list, v)
  PROVE  Carries(RemoveAt(list, k), v)
<1>. DEFINE shorter == RemoveAt(list, k)
            n == Len(list)
<1>1. n \in Nat /\ k \in 1 .. n
  OBVIOUS
<1>2. Len(shorter) = n - 1
      /\ \A i \in 1 .. n - 1 : shorter[i] = IF i < k THEN list[i] ELSE list[i + 1]
  BY ActionRemoved
<1>. HIDE DEF shorter
<1>3. PICK i \in 1 .. n :
        /\ IsTopUp(list[i]) /\ list[i].value = v
        /\ \A j \in 1 .. i - 1 : ~ IsTopUp(list[j])
  BY DEF Carries
<1>4. CASE i < k
  <2>1. i \in 1 .. n - 1 /\ shorter[i] = list[i]
    BY <1>1, <1>2, <1>4
  <2>2. \A j \in 1 .. i - 1 : shorter[j] = list[j]
    BY <1>1, <1>2, <1>4
  <2>. QED BY <1>2, <1>3, <2>1, <2>2 DEF Carries, shorter
<1>5. CASE ~ (i < k)
  <2>1. i # k
    BY <1>3
  <2>2. i - 1 \in 1 .. n - 1 /\ ~ (i - 1 < k) /\ (i - 1) + 1 = i
    BY <1>1, <1>5, <2>1
  <2>3. shorter[i - 1] = list[i]
    BY <1>2, <2>2
  <2>4. ASSUME NEW j \in 1 .. (i - 1) - 1 PROVE ~ IsTopUp(shorter[j])
    <3>1. j \in 1 .. n - 1 /\ j \in 1 .. i - 1 /\ j + 1 \in 1 .. i - 1
      BY <1>1, <2>2
    <3>2. shorter[j] = list[j] \/ shorter[j] = list[j + 1]
      BY <1>2, <3>1
    <3>. QED BY <1>3, <3>1, <3>2
  <2>. QED BY <1>2, <1>3, <2>2, <2>3, <2>4 DEF Carries, shorter
<1>. QED BY <1>4, <1>5

(***************************************************************************)
(* The page's effect sets the top-up and pays nobody.                      *)
(***************************************************************************)
LEMMA ToppedUpCarries ==
  ASSUME NEW list \in Seq(DraftActions), NEW need \in Nat, NEW before
  PROVE  /\ ToppedUp(list, need, before) \in Seq(DraftActions)
         /\ Payments(ToppedUp(list, need, before)) = Payments(list)
         /\ need > 0 => Carries(ToppedUp(list, need, before), need)
<1>. DEFINE up == Ether(TokenBuyer, need)
<1>0. up \in DraftActions /\ IsTopUp(up) /\ up.value = need /\ up.usdc = 0
  BY DEF Ether, DraftActions, Targets, IsTopUp
<1>. HIDE DEF up
<1>1. CASE need = 0
  BY <1>1 DEF ToppedUp
<1>2. CASE need # 0 /\ TopUps(list) = {}
  <2>1. ToppedUp(list, need, before) = Append(list, up)
    BY <1>2 DEF ToppedUp, up
  <2>2. Payments(list) \in Nat
    BY PaidTypes
  <2>3. Payments(Append(list, up)) = Payments(list) + 0
    BY <1>0, PaymentAdded
  <2>4. Append(list, up) \in Seq(DraftActions) /\ Carries(Append(list, up), need)
    BY <1>0, <1>2, AddedLast
  <2>. QED BY <2>1, <2>2, <2>3, <2>4
<1>3. CASE need # 0 /\ TopUps(list) # {}
  <2>. DEFINE f == FirstTopUp(list)
              n == Len(list)
              new == [list EXCEPT ![f].value = need]
  <2>1. ToppedUp(list, need, before) = new
    BY <1>3 DEF ToppedUp
  <2>2. n \in Nat /\ DOMAIN list = 1 .. n /\ \A i \in 1 .. n : list[i] \in DraftActions
    OBVIOUS
  <2>3. f \in TopUps(list) /\ \A j \in TopUps(list) : f <= j
    BY <1>3, FirstTopUpIs
  <2>. HIDE DEF f
  <2>4. f \in 1 .. n /\ IsTopUp(list[f]) /\ \A j \in 1 .. f - 1 : ~ IsTopUp(list[j])
    BY <2>2, <2>3 DEF TopUps
  <2>5. [list[f] EXCEPT !.value = need] \in DraftActions
        /\ [list[f] EXCEPT !.value = need].usdc = list[f].usdc
        /\ [list[f] EXCEPT !.value = need].to = list[f].to
        /\ [list[f] EXCEPT !.value = need].value = need
    BY <2>2, <2>4 DEF DraftActions
  <2>6. new \in Seq(DraftActions) /\ Len(new) = n
        /\ new[f] = [list[f] EXCEPT !.value = need]
        /\ \A i \in 1 .. n : i # f => new[i] = list[i]
    BY <2>2, <2>4, <2>5
  <2>. HIDE DEF new
  <2>7. Payments(new) = Payments(list)
    <3>1. \A i \in 1 .. n : new[i].usdc = list[i].usdc
      BY <2>5, <2>6
    <3>. QED BY <2>6, <3>1, PaymentsSame
  <2>8. Carries(new, need)
    <3>1. IsTopUp(new[f]) /\ new[f].value = need
      BY <2>4, <2>5, <2>6 DEF IsTopUp
    <3>2. \A j \in 1 .. f - 1 : ~ IsTopUp(new[j])
      <4>1. \A j \in 1 .. f - 1 : j \in 1 .. n /\ j # f
        BY <2>2, <2>4
      <4>. QED BY <2>4, <2>6, <4>1
    <3>. QED BY <2>4, <2>6, <3>1, <3>2 DEF Carries
  <2>. QED BY <2>1, <2>6, <2>7, <2>8
<1>. QED BY <1>1, <1>2, <1>3

\* what the dialog's steps have handed on, and what is typed into the current one
CarriedFields ==
  /\ "type" \in DOMAIN carried /\ carried["type"] \in {"transfer", "function"}
  /\ "address" \in DOMAIN carried => carried["address"] \in Targets
  /\ "amount" \in DOMAIN carried => carried["amount"] \in Nat
  /\ dialogStep \in {"arguments", "review transfer", "review function"} =>
       {"address", "amount"} \subseteq DOMAIN carried

TypedFields ==
  /\ dialogStep \in {"transfer", "function"} =>
       /\ DOMAIN stepTyped = {"address", "amount",
                              IF dialogStep = "transfer" THEN "currency" ELSE "abi"}
       /\ stepTyped["address"] \in Targets
       /\ stepTyped["amount"] \in Nat
  /\ dialogStep = "arguments" => DOMAIN stepTyped = {"encodable"}

DialogInv ==
  /\ dialogStep \in {"closed", "type", "transfer", "function", "arguments",
                     "review transfer", "review function"}
  /\ CarriedFields
  /\ TypedFields

\* the top-up is what the TokenBuyer answered last, unless the user removed it
TopUpStands == (topUp > 0 /\ ~dropped) => Carries(drafted, topUp)

DraftInv ==
  /\ drafted \in Seq(DraftActions)
  /\ totalUSDC = Payments(drafted)
  /\ drift \in Nat
  /\ topUp \in Nat
  /\ answer \in {-1, topUp}
  /\ dropped \in BOOLEAN
  /\ TopUpStands
  /\ DialogInv

(***************************************************************************)
(* The empty draft is covered.                                             *)
(***************************************************************************)
LEMMA DraftInitInv == DraftInit => DraftInv
<1>. SUFFICES ASSUME DraftInit PROVE DraftInv
  OBVIOUS
<1>1. drafted \in Seq(DraftActions)
  BY DEF DraftInit
<1>2. totalUSDC = Payments(drafted)
  BY PaymentsOfNone DEF DraftInit
<1>3. DialogInv
  BY DEF DraftInit, DialogInv, CarriedFields, TypedFields
<1>4. drift \in Nat /\ topUp \in Nat /\ answer \in {-1, topUp}
  BY DEF DraftInit
<1>5. TopUpStands
  BY DEF DraftInit, TopUpStands
<1>6. dropped \in BOOLEAN
  BY DEF DraftInit
<1>. QED BY <1>1, <1>2, <1>3, <1>4, <1>5, <1>6 DEF DraftInv

(***************************************************************************)
(* A dialog that is closed forgets what it carried.                        *)
(***************************************************************************)
LEMMA DialogIsClosed == DialogClosed => DialogInv'
BY DEF DialogClosed, DialogInv, CarriedFields, TypedFields

(***************************************************************************)
(* A dialog that does not change.                                          *)
(***************************************************************************)
LEMMA DialogSame == ASSUME DialogInv, UNCHANGED dialog PROVE DialogInv'
BY DEF dialog, DialogInv, CarriedFields, TypedFields

(***************************************************************************)
(* The answer is that for the total there is, and the top-up follows it.   *)
(***************************************************************************)
LEMMA AnswerKeeps == ASSUME DraftInv, AnswerNeed PROVE DraftInv'
<1>. DEFINE need == Need(totalUSDC)
<1>1. totalUSDC \in Nat /\ need \in Nat
  BY PaidTypes DEF DraftInv, Need
<1>2. answer' = need
  BY DEF AnswerNeed
<1>3. UNCHANGED <<totalUSDC, drift>>
  BY DEF AnswerNeed
<1>. HIDE DEF need
<1>4. CASE need # topUp
  <2>1. /\ drafted' = ToppedUp(drafted, need, topUp) /\ topUp' = need
        /\ dropped' = (dropped /\ need = 0)
        /\ IF TopsUp(need) THEN DialogClosed ELSE UNCHANGED dialog
    BY <1>2, <1>4 DEF AnswerNeed
  <2>2. /\ drafted' \in Seq(DraftActions) /\ Payments(drafted') = Payments(drafted)
        /\ need > 0 => Carries(drafted', need)
    BY <1>1, <2>1, ToppedUpCarries DEF DraftInv
  <2>3. TopUpStands'
    BY <2>1, <2>2 DEF TopUpStands
  <2>4. DialogInv'
    BY <2>1, DialogIsClosed, DialogSame DEF DraftInv
  <2>. QED BY <1>1, <1>2, <1>3, <2>1, <2>2, <2>3, <2>4 DEF DraftInv
<1>5. CASE need = topUp
  <2>1. UNCHANGED <<drafted, topUp, dropped, dialog>>
    BY <1>2, <1>5 DEF AnswerNeed
  <2>2. DialogInv'
    BY <2>1, DialogSame DEF DraftInv
  <2>. QED BY <1>2, <1>3, <1>5, <2>1, <2>2 DEF DraftInv, TopUpStands
<1>. QED BY <1>4, <1>5

(***************************************************************************)
(* An action that is added is counted, and asked for anew if it is a       *)
(* payment.                                                                *)
(***************************************************************************)
LEMMA AddedKeeps ==
  ASSUME DraftInv, NEW action \in DraftActions, ActionAdded(action)
  PROVE  DraftInv'
<1>1. /\ drafted' = Append(drafted, action)
      /\ totalUSDC' = totalUSDC + action.usdc
      /\ answer' = IF action.usdc = 0 THEN answer ELSE -1
      /\ UNCHANGED <<topUp, dropped, drift>>
  BY DEF ActionAdded
<1>2. drafted' \in Seq(DraftActions) /\ Payments(drafted') = Payments(drafted) + action.usdc
  BY <1>1, PaymentAdded, AddedLast DEF DraftInv
<1>3. TopUpStands'
  BY <1>1, AddedLast DEF DraftInv, TopUpStands
<1>4. DialogInv'
  BY DialogIsClosed DEF ActionAdded
<1>. QED BY <1>1, <1>2, <1>3, <1>4 DEF DraftInv

(***************************************************************************)
(* So is one that is removed; if it was a top-up the user dropped it.      *)
(***************************************************************************)
LEMMA RemovedKeeps ==
  ASSUME DraftInv, NEW i \in DOMAIN drafted, handleRemoveProposalAction(i)
  PROVE  DraftInv'
<1>1. /\ drafted' = RemoveAt(drafted, i)
      /\ totalUSDC' = totalUSDC - drafted[i].usdc
      /\ answer' = IF drafted[i].usdc = 0 THEN answer ELSE -1
      /\ dropped' = (dropped \/ IsTopUp(drafted[i]))
      /\ UNCHANGED <<topUp, drift, dialog>>
  BY DEF handleRemoveProposalAction
<1>2. drafted' \in Seq(DraftActions)
  BY <1>1, ActionRemoved DEF DraftInv
<1>3. totalUSDC' = Payments(drafted')
  <2>1. Payments(drafted) = Payments(drafted') + drafted[i].usdc
    BY <1>1, PaymentRemoved DEF DraftInv
  <2>2. Payments(drafted') \in Nat
    BY <1>2, PaidTypes
  <2>3. drafted[i].usdc \in Nat
    <3>1. drafted \in Seq(DraftActions)
      BY DEF DraftInv
    <3>2. drafted[i] \in DraftActions
      BY <3>1, PaidTypes
    <3>. QED BY <3>2 DEF DraftActions
  <2>. QED BY <1>1, <2>1, <2>2, <2>3 DEF DraftInv
<1>4. TopUpStands'
  BY <1>1, RemovedElsewhere DEF DraftInv, TopUpStands
<1>5. DialogInv'
  BY <1>1, DialogSame DEF DraftInv
<1>6. dropped' \in BOOLEAN
  BY <1>1
<1>. QED BY <1>1, <1>2, <1>3, <1>4, <1>5, <1>6 DEF DraftInv

(***************************************************************************)
(* What happens outside the form and the dialog leaves the draft.          *)
(***************************************************************************)
LEMMA OutsideKeeps ==
  ASSUME DraftInv, UNCHANGED <<formState, dialog>>, drift' \in Nat PROVE DraftInv'
<1>1. DialogInv'
  BY DialogSame DEF DraftInv
<1>. QED BY <1>1 DEF DraftInv, TopUpStands, formState

(***************************************************************************)
(* What happens in the dialog leaves the draft.                            *)
(***************************************************************************)
LEMMA InDialogKeeps == ASSUME DraftInv, InDialog, DialogInv' PROVE DraftInv'
BY DEF DraftInv, InDialog, formState, TopUpStands

(***************************************************************************)
(* A step is mounted with an address and a number.                         *)
(***************************************************************************)
LEMMA MountedFields ==
  ASSUME NEW next, CarriedFields, StepMounted(next)
  PROVE  /\ dialogStep' = next
         /\ next \in {"transfer", "function"} =>
              /\ DOMAIN stepTyped' = {"address", "amount",
                                      IF next = "transfer" THEN "currency" ELSE "abi"}
              /\ stepTyped'["address"] \in Targets
              /\ stepTyped'["amount"] \in Nat
         /\ next = "arguments" => DOMAIN stepTyped' = {"encodable"}
<1>1. HandedOn("address", NotAnAddress) \in Targets /\ HandedOn("amount", 0) \in Nat
  BY DEF HandedOn, CarriedFields, Targets
<1>2. CASE next = "transfer"
  BY <1>1, <1>2 DEF StepMounted
<1>3. CASE next = "function"
  BY <1>1, <1>3 DEF StepMounted
<1>4. CASE next = "arguments"
  BY <1>4 DEF StepMounted
<1>5. CASE next \notin {"transfer", "function", "arguments"}
  BY <1>5 DEF StepMounted
<1>. QED BY <1>2, <1>3, <1>4, <1>5

(***************************************************************************)
(* A mounted step finds what it needs.                                     *)
(***************************************************************************)
LEMMA MountedKeeps ==
  ASSUME NEW next \in {"type", "transfer", "function", "arguments",
                       "review transfer", "review function"},
         CarriedFields, StepMounted(next),
         "type" \in DOMAIN carried', carried'["type"] \in {"transfer", "function"},
         "address" \in DOMAIN carried' => carried'["address"] \in Targets,
         "amount" \in DOMAIN carried' => carried'["amount"] \in Nat,
         next \in {"arguments", "review transfer", "review function"} =>
           {"address", "amount"} \subseteq DOMAIN carried'
  PROVE  DialogInv'
<1>1. dialogStep' = next
  BY MountedFields
<1>2. TypedFields'
  BY <1>1, MountedFields DEF TypedFields
<1>. QED BY <1>1, <1>2 DEF DialogInv, CarriedFields

(***************************************************************************)
(* The dialog opens with nothing carried.                                  *)
(***************************************************************************)
LEMMA OpenKeeps == ASSUME DialogInv, OpenDialog PROVE DialogInv'
<1>1. /\ "type" \in DOMAIN carried' /\ carried'["type"] \in {"transfer", "function"}
      /\ "address" \notin DOMAIN carried' /\ "amount" \notin DOMAIN carried'
  BY DEF OpenDialog
<1>2. StepMounted("type") /\ CarriedFields
  BY DEF OpenDialog, DialogInv
<1>. QED BY <1>1, <1>2, MountedKeeps

\* what is handed on besides
LEMMA WithFields ==
  ASSUME NEW fields, NEW record
  PROVE  /\ DOMAIN With(fields, record) = DOMAIN fields \cup DOMAIN record
         /\ \A f \in DOMAIN fields : With(fields, record)[f] = fields[f]
         /\ \A f \in DOMAIN record \ DOMAIN fields : With(fields, record)[f] = record[f]
BY DEF With

(***************************************************************************)
(* The type of the action is handed on.                                    *)
(***************************************************************************)
LEMMA SelectKeeps ==
  ASSUME DialogInv, NEW type \in {"transfer", "function"}, SelectType(type)
  PROVE  DialogInv'
<1>. DEFINE change == [type |-> type]
<1>1. DOMAIN change = {"type"} /\ change["type"] = type
  OBVIOUS
<1>2. dialogStep = "type" /\ dialogStep' = dialogStep /\ carried' = With(change, carried)
  BY DEF SelectType
<1>. HIDE DEF change
<1>a. /\ DOMAIN With(change, carried) = DOMAIN change \cup DOMAIN carried
      /\ \A f \in DOMAIN change : With(change, carried)[f] = change[f]
      /\ \A f \in DOMAIN carried \ DOMAIN change : With(change, carried)[f] = carried[f]
  BY WithFields
<1>3. /\ DOMAIN carried' = {"type"} \cup DOMAIN carried /\ carried'["type"] = type
      /\ \A f \in DOMAIN carried : f # "type" => carried'[f] = carried[f]
  BY <1>1, <1>2, <1>a
<1>4. CarriedFields'
  BY <1>2, <1>3 DEF DialogInv, CarriedFields
<1>. QED BY <1>2, <1>4 DEF DialogInv, TypedFields

(***************************************************************************)
(* What is typed stays an address and a number.                            *)
(***************************************************************************)
LEMMA TypedKeeps ==
  ASSUME DialogInv, NEW t, StepTyped(t), DOMAIN t = DOMAIN stepTyped,
         dialogStep \in {"transfer", "function"} =>
           t["address"] \in Targets /\ t["amount"] \in Nat
  PROVE  DialogInv'
<1>1. stepTyped' = t /\ dialogStep' = dialogStep /\ carried' = carried
  BY DEF StepTyped
<1>. QED BY <1>1 DEF DialogInv, CarriedFields, TypedFields

(***************************************************************************)
(* Everything that is typed does.                                          *)
(***************************************************************************)
LEMMA TypingKeeps ==
  ASSUME DialogInv,
         \/ \E address \in Recipients : TypeAddress(address)
         \/ \E amount \in Amounts : TypeAmount(amount)
         \/ \E currency \in {"ETH", "USDC"} : SelectCurrency(currency)
         \/ ABIArrives
         \/ \E encodable \in BOOLEAN : TypeArguments(encodable)
  PROVE  DialogInv'
<1>1. ASSUME NEW address \in Recipients, TypeAddress(address) PROVE DialogInv'
  <2>. DEFINE t == [stepTyped EXCEPT !.address = address]
  <2>1. DOMAIN t = DOMAIN stepTyped /\ t["address"] \in Targets /\ t["amount"] \in Nat
    BY <1>1 DEF TypeAddress, DialogInv, TypedFields, Targets
  <2>2. StepTyped(t)
    BY <1>1 DEF TypeAddress
  <2>. HIDE DEF t
  <2>. QED BY <2>1, <2>2, TypedKeeps
<1>2. ASSUME NEW amount \in Amounts, TypeAmount(amount) PROVE DialogInv'
  <2>. DEFINE t == [stepTyped EXCEPT !.amount = amount]
  <2>1. DOMAIN t = DOMAIN stepTyped /\ t["address"] \in Targets /\ t["amount"] \in Nat
    BY <1>2, DraftConstants DEF TypeAmount, DialogInv, TypedFields
  <2>2. StepTyped(t)
    BY <1>2 DEF TypeAmount
  <2>. HIDE DEF t
  <2>. QED BY <2>1, <2>2, TypedKeeps
<1>3. ASSUME NEW currency, SelectCurrency(currency) PROVE DialogInv'
  <2>. DEFINE t == [stepTyped EXCEPT !.currency = currency]
  <2>1. DOMAIN t = DOMAIN stepTyped /\ t["address"] \in Targets /\ t["amount"] \in Nat
    BY <1>3 DEF SelectCurrency, DialogInv, TypedFields
  <2>2. StepTyped(t)
    BY <1>3 DEF SelectCurrency
  <2>. HIDE DEF t
  <2>. QED BY <2>1, <2>2, TypedKeeps
<1>4. ASSUME ABIArrives PROVE DialogInv'
  <2>. DEFINE t == [stepTyped EXCEPT !.abi = TRUE]
  <2>1. DOMAIN t = DOMAIN stepTyped /\ t["address"] \in Targets /\ t["amount"] \in Nat
    BY <1>4 DEF ABIArrives, DialogInv, TypedFields
  <2>2. StepTyped(t)
    BY <1>4 DEF ABIArrives
  <2>. HIDE DEF t
  <2>. QED BY <2>1, <2>2, TypedKeeps
<1>5. ASSUME NEW encodable, TypeArguments(encodable) PROVE DialogInv'
  <2>. DEFINE t == [stepTyped EXCEPT !.encodable = encodable]
  <2>1. DOMAIN t = DOMAIN stepTyped
    OBVIOUS
  <2>2. StepTyped(t) /\ dialogStep \notin {"transfer", "function"}
    BY <1>5 DEF TypeArguments
  <2>. HIDE DEF t
  <2>. QED BY <2>1, <2>2, TypedKeeps
<1>. QED BY <1>1, <1>2, <1>3, <1>4, <1>5

(***************************************************************************)
(* The next step is handed what was typed.                                 *)
(***************************************************************************)
LEMMA OnwardKeeps == ASSUME DialogInv, Onward PROVE DialogInv'
<1>1. /\ dialogStep \in {"type", "transfer", "function", "arguments"}
      /\ StepMounted(StepAfter)
      /\ CarriedFields
  BY DEF Onward, DialogInv
<1>2. CASE dialogStep = "type"
  <2>1. carried' = carried /\ StepAfter \in {"transfer", "function"}
    BY <1>1, <1>2 DEF Onward, StepAfter, CarriedFields
  <2>. QED BY <1>1, <2>1, MountedKeeps DEF CarriedFields
<1>3. CASE dialogStep \in {"transfer", "function"}
  <2>1. StepAfter \in {"arguments", "review transfer"}
    BY <1>3 DEF StepAfter
  <2>2. carried' = With(stepTyped, carried)
    BY <1>3 DEF Onward
  <2>3. /\ {"address", "amount"} \subseteq DOMAIN stepTyped /\ "type" \notin DOMAIN stepTyped
        /\ stepTyped["address"] \in Targets /\ stepTyped["amount"] \in Nat
    BY <1>3 DEF DialogInv, TypedFields
  <2>a. /\ DOMAIN With(stepTyped, carried) = DOMAIN stepTyped \cup DOMAIN carried
        /\ \A f \in DOMAIN stepTyped : With(stepTyped, carried)[f] = stepTyped[f]
        /\ \A f \in DOMAIN carried \ DOMAIN stepTyped : With(stepTyped, carried)[f] = carried[f]
    BY WithFields
  <2>4. /\ {"address", "amount", "type"} \subseteq DOMAIN carried'
        /\ carried'["address"] \in Targets /\ carried'["amount"] \in Nat
        /\ carried'["type"] = carried["type"]
    BY <1>1, <2>2, <2>3, <2>a DEF CarriedFields
  <2>. QED BY <1>1, <2>1, <2>4, MountedKeeps DEF CarriedFields
<1>4. CASE dialogStep = "arguments"
  <2>1. StepAfter = "review function"
    BY <1>4 DEF StepAfter
  <2>2. carried' = With(stepTyped, carried) /\ DOMAIN stepTyped = {"encodable"}
    BY <1>4 DEF Onward, DialogInv, TypedFields
  <2>3. {"address", "amount", "type"} \subseteq DOMAIN carried
    BY <1>1, <1>4 DEF CarriedFields
  <2>a. /\ DOMAIN With(stepTyped, carried) = DOMAIN stepTyped \cup DOMAIN carried
        /\ \A f \in DOMAIN stepTyped : With(stepTyped, carried)[f] = stepTyped[f]
        /\ \A f \in DOMAIN carried \ DOMAIN stepTyped : With(stepTyped, carried)[f] = carried[f]
    BY WithFields
  <2>4. /\ {"address", "amount", "type"} \subseteq DOMAIN carried'
        /\ carried'["address"] = carried["address"] /\ carried'["amount"] = carried["amount"]
        /\ carried'["type"] = carried["type"]
    BY <2>2, <2>3, <2>a
  <2>. QED BY <1>1, <2>1, <2>3, <2>4, MountedKeeps DEF CarriedFields
<1>. QED BY <1>1, <1>2, <1>3, <1>4

(***************************************************************************)
(* The step before is handed what was typed, but for the arguments.        *)
(***************************************************************************)
LEMMA BackKeeps == ASSUME DialogInv, Back PROVE DialogInv'
<1>1. /\ dialogStep \in {"transfer", "function", "arguments", "review transfer", "review function"}
      /\ StepMounted(StepBefore)
      /\ CarriedFields
      /\ carried' = [field \in DOMAIN carried \ {"encodable"} |-> carried[field]]
  BY DEF Back, DialogInv
<1>2. /\ DOMAIN carried' = DOMAIN carried \ {"encodable"}
      /\ \A f \in DOMAIN carried' : carried'[f] = carried[f]
  BY <1>1
<1>3. /\ StepBefore \in {"type", "transfer", "function", "arguments"}
      /\ StepBefore = "arguments" => dialogStep = "review function"
  BY <1>1 DEF StepBefore
<1>4. StepBefore = "arguments" => {"address", "amount"} \subseteq DOMAIN carried'
  BY <1>1, <1>2, <1>3 DEF CarriedFields
<1>. QED BY <1>1, <1>2, <1>3, <1>4, MountedKeeps DEF CarriedFields

(***************************************************************************)
(* A reviewed action is a payment or a call, and is added as such, or not  *)
(* at all.                                                                 *)
(***************************************************************************)
LEMMA ReviewedKeeps ==
  ASSUME DraftInv, AddTransfer \/ AddFunctionCall
  PROVE  DraftInv'
<1>0. UNCHANGED draftVars => DraftInv'
  BY OutsideKeeps DEF draftVars, DraftInv
<1>1. carried.address \in Targets /\ carried.amount \in Nat
  BY DEF DraftInv, DialogInv, CarriedFields, AddTransfer, AddFunctionCall
<1>2. /\ Ether(carried.address, carried.amount) \in DraftActions
      /\ [to |-> Payer, value |-> 0, usdc |-> carried.amount] \in DraftActions
  BY <1>1 DEF Ether, DraftActions, Targets
<1>. QED BY <1>0, <1>2, AddedKeeps DEF AddTransfer, AddFunctionCall

(***************************************************************************)
(* Every step keeps the draft.                                             *)
(***************************************************************************)
LEMMA DraftNextKeeps == ASSUME DraftInv, [DraftNext]_draftVars PROVE DraftInv'
<1>1. CASE UNCHANGED draftVars
  BY <1>1, OutsideKeeps DEF draftVars, DraftInv
<1>2. CASE AnswerNeed
  BY <1>2, AnswerKeeps
<1>3. CASE \E d \in 0 .. MaxDrift : NeedChanges(d)
  BY <1>3, DraftConstants, OutsideKeeps DEF NeedChanges
<1>4. CASE \E i \in DOMAIN drafted : handleRemoveProposalAction(i)
  BY <1>4, RemovedKeeps
<1>5. CASE handleCreateProposal \/ ProposalSent
  BY <1>5, OutsideKeeps DEF handleCreateProposal, ProposalSent, DraftInv
<1>6. CASE OpenDialog
  BY <1>6, OpenKeeps, InDialogKeeps DEF OpenDialog, DraftInv
<1>7. CASE CloseDialog
  BY <1>7, DialogIsClosed, InDialogKeeps DEF CloseDialog
<1>8. CASE Onward
  BY <1>8, OnwardKeeps, InDialogKeeps DEF Onward, DraftInv
<1>9. CASE Back
  BY <1>9, BackKeeps, InDialogKeeps DEF Back, DraftInv
<1>10. CASE \E type \in {"transfer", "function"} : SelectType(type)
  <2>1. PICK type \in {"transfer", "function"} : SelectType(type)
    BY <1>10
  <2>2. DialogInv' /\ InDialog
    BY <2>1, SelectKeeps DEF DraftInv, SelectType
  <2>. QED BY <2>2, InDialogKeeps
<1>11. CASE \/ \E address \in Recipients : TypeAddress(address)
            \/ \E amount \in Amounts : TypeAmount(amount)
            \/ \E currency \in {"ETH", "USDC"} : SelectCurrency(currency)
            \/ ABIArrives
            \/ \E encodable \in BOOLEAN : TypeArguments(encodable)
  <2>1. DialogInv'
    BY <1>11, TypingKeeps DEF DraftInv
  <2>2. InDialog
    BY <1>11 DEF TypeAddress, TypeAmount, SelectCurrency, ABIArrives, TypeArguments, StepTyped
  <2>. QED BY <2>1, <2>2, InDialogKeeps
<1>12. CASE AddTransfer \/ AddFunctionCall
  BY <1>12, ReviewedKeeps
<1>. QED BY <1>1, <1>2, <1>3, <1>4, <1>5, <1>6, <1>7, <1>8, <1>9, <1>10, <1>11, <1>12
     DEF DraftNext

(***************************************************************************)
(* The invariant covers the payments.                                      *)
(***************************************************************************)
LEMMA DraftCovers == ASSUME DraftInv PROVE PaymentsAreCovered
<1>1. (answer > 0 /\ ~dropped) => Carries(drafted, answer)
  BY DEF DraftInv, TopUpStands
<1>. QED BY <1>1, CarriesIs DEF DraftInv, PaymentsAreCovered

(***************************************************************************)
(* The payments of a draft are covered: the total asked for is that of the *)
(* payments listed, and the top-up is what the TokenBuyer answered for it, *)
(* unless the user removed it: for any recipients, amounts, number of      *)
(* actions and needs, in any order of additions, removals, answers and     *)
(* steps of the dialog.                                                    *)
(***************************************************************************)
THEOREM DraftIsCovered == DraftSpec => []PaymentsAreCovered
<1>1. DraftSpec => []DraftInv
  BY DraftInitInv, DraftNextKeeps, PTL DEF DraftSpec
<1>. QED BY <1>1, DraftCovers, PTL
===============================================================================
