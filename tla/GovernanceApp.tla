----------------------------- MODULE GovernanceApp -----------------------------
(***************************************************************************)
(* The governor as people see it: every event of NounsDAOLogicV2 goes      *)
(* through the subgraph's handlers (DAOIndex), and the web application     *)
(* derives from the indexed proposal and the current block the state it    *)
(* displays (getProposalState), and from that the buttons of the page of a *)
(* proposal (pages/Vote).  The index is up to date with the block.         *)
(***************************************************************************)
EXTENDS NounsDAOLogicV2, DAOIndex

VARIABLE index   \* the entities of the subgraph

appVars == <<vars, index>>

\* initialize() has set parameters within the bounds of the setters, and every
\* vote is a noun's
ASSUME InitializedWithinBounds ==
  /\ InitialSettings.quorumParams # <<>>
  /\ ParamsInBounds(InitialSettings.quorumParams[1].value)
  /\ InitialSupply = 0 => \A a \in Accounts : InitialVotes[a] = 0
  /\ CoefficientOne \in Nat \ {0} /\ NoBlock \notin Nat

\* the events of the admin functions, which _setDynamicQuorumParams emits too
AfterEvents(store, tx) ==
  LET Stored(s, field, value) == handleParameterSet(s, now, field, value)
  IN  CASE tx.call = "_setMinQuorumVotesBPS" -> Stored(store, "min", tx.arg)
        [] tx.call = "_setMaxQuorumVotesBPS" -> Stored(store, "max", tx.arg)
        [] tx.call = "_setQuorumCoefficient" -> Stored(store, "coefficient", tx.arg)
        [] tx.call = "_setDynamicQuorumParams" ->
             Stored(Stored(Stored(store, "min", tx.arg.min), "max", tx.arg.max),
                    "coefficient", tx.arg.coefficient)
        [] OTHER -> store

AfterParameterEvents(store, payload) == FoldLeft(AfterEvents, store, payload)

\* initialize() has set the parameters, in an earlier block
AppInit ==
  /\ Init
  /\ index = [EmptyDAOIndex EXCEPT
                !.params = InitialSettings.quorumParams[1].value,
                !.dynamicQuorumStartBlock = InitialSettings.quorumParams[1].fromBlock]

IndexPropose(a, payload) ==
  /\ Propose(a, payload)
  /\ LET p == Last(proposals')
     IN  index' = handleProposalCreatedWithRequirements(index, now,
           [proposer |-> a, startBlock |-> p.startBlock, endBlock |-> p.endBlock,
            minQuorumVotes |-> bps2Uint(CurrentParams(settings).min, supply)],
           supply)

IndexCastVote(voter, i, support) ==
  /\ CastVote(voter, i, support)
  /\ index' = handleVoteCast(index, i, voter, support, VoteWeight(proposals[i], voter))

IndexQueue(i) ==
  /\ Queue(i)
  /\ index' = handleProposalQueued(index, i, proposals'[i].eta)

IndexExecute(i) ==
  /\ Execute(i)
  /\ index' = handleProposalExecuted(AfterParameterEvents(index, proposals[i].payload), i)

IndexCancel(sender, i) ==
  /\ Cancel(sender, i)
  /\ index' = handleProposalCanceled(index, i)

IndexVeto(sender, i) ==
  /\ Veto(sender, i)
  /\ index' = handleProposalVetoed(index, i)

IndexAdminCall(sender, tx) ==
  /\ AdminCall(sender, tx)
  /\ index' = AfterEvents(index, tx)

Unindexed ==
  \/ \E a \in Accounts :
       \/ \E b \in Heirs : SetPendingVetoer(a, b)
       \/ AcceptVetoer(a)
       \/ BurnVetoPower(a)
       \/ AcceptAdmin(a)
       \/ AcceptTimelock(a)
  \/ \E m \in Moves :
       \/ m[1] # Nobody /\ MoveVotes(m[1], m[2])
       \/ m[1] = Nobody /\ MintVote(m[2])
  \/ Mine

AppNext ==
  \/ \E a \in Accounts, payload \in Payloads : IndexPropose(a, payload)
  \/ \E i \in Ids :
       \/ \E c \in Intentions : IndexCastVote(c[1], i, c[2])
       \/ IndexQueue(i)
       \/ IndexExecute(i)
       \/ \E a \in Accounts : IndexCancel(a, i) \/ IndexVeto(a, i)
  \/ \E a \in Accounts, tx \in Transactions : IndexAdminCall(a, tx)
  \/ Unindexed /\ UNCHANGED index

AppSpec == AppInit /\ [][AppNext]_appVars

-------------------------------------------------------------------------------
(* What the page of a proposal shows in the block `now` *)

\* seeded error: the quorum is not looked at
getProposalStateUnquorate(p) ==
  CASE p.status = "PENDING" -> IF now <= p.startBlock THEN "Pending" ELSE "Active"
    [] p.status = "ACTIVE"  ->
         IF now <= p.endBlock THEN "Active"
         ELSE IF p.tally[1] <= p.tally[0] THEN "Defeated"
         ELSE IF p.executionETA = NullEta THEN "Succeeded"
         ELSE "Active"
    [] p.status = "QUEUED"  ->
         IF now >= p.executionETA + GRACE_PERIOD THEN "Expired" ELSE "Queued"
    [] p.status = "EXECUTED"  -> "Executed"
    [] p.status = "CANCELLED" -> "Canceled"
    [] p.status = "VETOED"    -> "Vetoed"

\* a proposal nobody voted on stays PENDING in the index, and its end is not
\* looked at
getProposalState(p) ==
  CASE p.status = "PENDING" -> IF now <= p.startBlock THEN "Pending" ELSE "Active"
    [] p.status = "ACTIVE"  ->
         IF now <= p.endBlock THEN "Active"
         ELSE IF p.tally[1] <= p.tally[0] \/ p.tally[1] < p.quorumVotes THEN "Defeated"
         ELSE IF p.executionETA = NullEta THEN "Succeeded"
         ELSE "Active"
    [] p.status = "QUEUED"  ->
         IF now >= p.executionETA + GRACE_PERIOD THEN "Expired" ELSE "Queued"
    [] p.status = "EXECUTED"  -> "Executed"
    [] p.status = "CANCELLED" -> "Canceled"
    [] p.status = "VETOED"    -> "Vetoed"

Displayed(i) == getProposalState(index.proposals[i])

OffersQueue(i)   == Displayed(i) = "Succeeded"
OffersExecute(i) ==
  /\ Displayed(i) = "Queued"
  /\ now >= index.proposals[i].executionETA
OffersCancel(account, i) ==
  /\ Displayed(i) \in {"Pending", "Active", "Succeeded", "Queued"}
  /\ account = index.proposals[i].proposer

\* seeded error: the last block counts
OffersVoteLate(account, i) ==
  /\ now \in index.proposals[i].startBlock .. index.proposals[i].endBlock
  /\ getPriorVotes(account, index.proposals[i].createdBlock) > 0
  /\ proposals[i].receipts[account] = NoVote

\* the page counts the votes the account had when the proposal was made; it
\* turns the blocks left into dates, so the start block itself may count
OffersVote(account, i) ==
  /\ now \in index.proposals[i].startBlock .. index.proposals[i].endBlock - 1
  /\ getPriorVotes(account, index.proposals[i].createdBlock) > 0
  /\ proposals[i].receipts[account] = NoVote

-------------------------------------------------------------------------------

\* the parameters were set in the block the proposal was made in: the governor
\* takes those at the end of the block, the index those it had by then
ParamsSetBeside(i) ==
  \E k \in DOMAIN settings.quorumParams :
    settings.quorumParams[k].fromBlock = proposals[i].creationBlock

(***************************************************************************)
(* The quorum stored with a proposal is refreshed only by ballots, from    *)
(* the parameters and supply copied when the proposal was made.  It is     *)
(* nevertheless the quorum of the governor, which looks its parameters up  *)
(* in the checkpoints on every call, unless parameters were set in the     *)
(* block the proposal was made in.                                         *)
(***************************************************************************)
IndexedQuorumIsGovernors ==
  \A i \in Ids :
    \/ index.proposals[i].quorumVotes = quorumVotes(proposals[i])
    \/ ParamsSetBeside(i)

(***************************************************************************)
(* The state displayed is the state of the governor, although it is        *)
(* derived from the last event and the block.  Three things go wrong: a    *)
(* proposal nobody voted on is displayed as active for ever after its end, *)
(* one that is canceled after its veto as canceled, and the outcome may    *)
(* differ where the indexed quorum does.                                   *)
(***************************************************************************)
DisplayedIsGovernors ==
  \A i \in Ids :
    \/ Displayed(i) = State(i)
    \/ index.proposals[i].votes = {} /\ State(i) = "Defeated" /\ Displayed(i) = "Active"
    \/ proposals[i].canceled /\ State(i) = "Vetoed" /\ Displayed(i) = "Canceled"
    \/ ParamsSetBeside(i) /\ {State(i), Displayed(i)} = {"Defeated", "Succeeded"}

(***************************************************************************)
(* What a button of the page sends is mined in a later block than the page *)
(* was drawn from, and the governor does not refuse it for its age: a vote *)
(* is taken and counts, queue finds the proposal succeeded, execute finds  *)
(* it queued except when the offer was made in the last block of the grace *)
(* period, cancel finds it not executed.  What can still revert is in the  *)
(* timelock (QueuedUnlessTwin).                                            *)
(***************************************************************************)
Accepted(i) ==
  /\ OffersQueue(i) => State(i)' = "Succeeded" \/ ParamsSetBeside(i)
  /\ OffersExecute(i) =>
       \/ State(i)' = "Queued" /\ now' >= proposals[i].eta
       \/ now' = proposals[i].eta + GRACE_PERIOD
  /\ \A a \in Accounts :
       /\ OffersVote(a, i) =>
            \/ State(i)' = "Active" /\ VoteWeight(proposals[i], a) > 0
            \/ State(i) \in {"Canceled", "Vetoed"}
       /\ OffersCancel(a, i) => State(i)' # "Executed" /\ a = proposals[i].proposer

OffersAreAccepted == [][now' # now => \A i \in Ids : Accepted(i)]_appVars

(***************************************************************************)
(* proposalsQueued is documented as "Number of proposals currently queued  *)
(* for execution".  handleProposalQueued counts up, and of the handlers    *)
(* that end a queue only handleProposalExecuted counts down: a proposal    *)
(* that was canceled or vetoed after it had been queued stays counted.     *)
(* The number is not the one documented, even by the statuses the index    *)
(* itself keeps, in which a proposal is never expired.                     *)
(***************************************************************************)
QueuedIsCurrent ==
  index.proposalsQueued =
    Cardinality({i \in Ids : index.proposals[i].status = "QUEUED"})

(***************************************************************************)
(* What the number does say: it errs on one side.  Whatever cancels (more  *)
(* than once, too), vetoes, expiries and executions came in between, it is *)
(* no less than the proposals the governor has queued.                     *)
(***************************************************************************)
CountsEveryQueued ==
  index.proposalsQueued >= Cardinality({i \in Ids : State(i) = "Queued"})
===============================================================================
