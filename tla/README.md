# A verification development of the UNouns contracts and their clients

This directory models the UNouns DAO in TLA+: the noun token with its delegated
votes, the auction house, the timelock and the governor; the subgraph that
indexes them; the bots and the web application that show what the subgraph and
the contracts say; and the tasks that deploy it all. The modules are
model-checked with TLC on small instances. The theorems about the token, the
auction house, the governor and its upgrade, the subgraph's index of the token and
of the proposals, the bots, the deployment, the image encoder and the web
application are proved with TLAPS for every value of the constants; liveness is not.

Every definition that translates code is listed with its lines in
`PROJECT.json` ("map"). The modules keep the names of the code where they can.
Paths are relative to `src/packages/`.

## 1. The system

One noun is minted per auction. Nouns are ERC-721 tokens; each is one vote,
cast by whoever its owner delegates to. Proceeds go to the treasury, which is
the executor, a timelock that the governor alone can use. The governor lets
token holders propose, vote, queue and execute calls of the executor, and these
calls configure the token, the auction house, the executor and the governor
itself. A subgraph indexes the contracts' events, bots announce what the
subgraph shows, and the web application reads both the contracts and the
subgraph, and sends transactions.

### Contracts (`nouns-contracts/contracts`)

| Component | State | Operations | Correct when |
|---|---|---|---|
| `base/ERC721.sol` | owner and approval of each noun, balances, operators | mint, burn, transfer, approve | balances count nouns; approvals die with ownership |
| `base/ERC721Enumerable.sol` | list of all nouns, list per owner, back-pointers | transfer hook (swap and pop) | both lists are exact, back-pointers invert them |
| `base/ERC721Checkpointable.sol` | delegatee of each account, vote checkpoints, nonces | transfer hook, `delegate`, `delegateBySig`, `getPriorVotes` | votes are those of the delegated nouns; past blocks are final; nothing is frozen |
| `UNounsToken.sol` | next id, minter, reward receivers, locks | `mint` with rewards, `burn`, settings | only the minter mints; the id returned is the minter's noun |
| `NounsAuctionHouse.sol` | the auction, its settings, pause, ETH | bid, settle, create, pause, configure | solvent, no lot or bid lost or replaced, ends |
| `governance/NounsDAOExecutor.sol` | admin, delay, set of queued hashes | queue, cancel, execute, own setters | nothing is executed early, late, twice or after a cancel |
| `governance/NounsDAOLogicV2.sol` | proposals, receipts, settings, quorum checkpoints, vetoer | propose, vote, queue, execute, cancel, veto, settings | decisions are final and follow the votes at creation |
| `governance/NounsDAOLogicV1.sol` | the same with a fixed quorum | the same | as above; an upgrade keeps proposals meaningful |
| `NounsArt.sol`, descriptors, renderer, `libs/` | image pages, palettes | append, lock, render | index arithmetic finds the image |

### Off chain

| Component | State | Operations | Correct when |
|---|---|---|---|
| `nouns-subgraph` | accounts, delegates, nouns, seeds, proposals, votes, auctions, bids | one handler per event | it says what the contracts say |
| `nouns-bots` | Redis: last auction, bid, warning, reply id; a copy of each proposal | two intervals, two setups, a message per event and medium | everything is announced once, in its thread, and the latest at last |
| `nouns-sdk/src/image` | a palette shared by a collection | encode, decode, draw | an image is drawn again as it was |
| `nouns-contracts/tasks` | addresses predicted and deployed, configs | deploy, populate, hand over, unpause, write configs | what is handed to the DAO works |
| webapp: auction page | Redux slices for the auction, the one on display, past ones; the form | events, queries, arrows, routes, bids | the page tells what the chain says |
| webapp: draft of a proposal | actions, total in USDC, ether needed, the dialog's steps | add, remove, top up, propose | payments are covered |
| webapp: governance pages | none; block heard of, subgraph's proposal | statuses, buttons | they agree with the governor |
| webapp: vote, delegation, quorum dialogs | transaction states, ENS answers | vote (four transactions), delegate, show | what they claim has happened |
| webapp: cache of logs | logs per filter and block | listen, fetch, answer | logs are complete |
| webapp: a noun's activity | answers of four queries | merge, sort, cut off | the feed is the noun's history |
| webapp: playground, explore page | traits, uploads; grid, selection, seeds | upload, select; fetch ranges, keys, sort | what is asked for is shown |

### How they interact, and what is hard

* Contract calls are atomic, and a revert undoes the whole transaction. Steps of
  different accounts interleave arbitrarily between transactions, several
  transactions share a block, and signed messages are submitted by anybody at
  any time, or never.
* The token calls nothing. The auction house calls the token (mint, transfer)
  and the outside world (ETH with 30,000 gas, WETH). It catches a mint that
  reverts with a reason, and does not catch a panic.
* The governor reads votes of *past* blocks from the token and drives the
  executor. The executor calls back into all contracts, so that settings change
  while proposals are under way. The state of a proposal is not stored: it is
  computed on every call from blocks, votes, supply, quorum checkpoints and flags.
* Time matters twice: blocks (votes, checkpoints, voting periods) and timestamps
  (auction end, timelock delay, grace period).
* A subgraph handler sees events one at a time and loads, changes and saves
  entities; two entities that are the same one, loaded twice, overwrite each
  other. What the contract computes on every call, the subgraph computes when an
  event comes.
* A tick of a bot awaits the network a dozen times between reading and writing
  the cache; ticks overlap when the network is slow; a failed request ends a tick
  wherever it is.
* In the web application answers come late and in any order: contract reads,
  subgraph queries, the block of an event, ENS names, receipts. An effect keeps
  the values of the rendering it was made in. The user goes on clicking.

`PROJECT.json` lists the hazards of this code, each at its line, with the
properties that would catch it going wrong. Four more, which no run of the
present list addresses: approvals must be cleared on a change of owner
(`ERC721.sol:403`; modelled, and proved as `ApprovalsDieWithOwnership`), the gas
refund's call hands over control at the end of a vote (`NounsDAOLogicV2.sol:1065`),
a noun minted in the block of a proposal counts as supply but not as votes
(`NounsDAOLogicV2.sol:228`), and a reward for the zero address reverts every mint
that owes one (`UNounsToken.sol:218`; modelled in NounsToken).

## 2. Modules

### The contracts

    TokenDomain -- ERC721 -- ERC721Enumerable --+
    Checkpoints --------------------------------+- ERC721Checkpointable (p)
       |                                            |  implements VotingPower
       +- CheckpointSearch (c)                      +- TokenIndexer (p) -- TokenIndex
    NounsToken -- NounsAuctionHouse (p) -- implements EnglishAuction
    NounsDAOExecutor --+
    DynamicQuorum -----+- NounsDAOLogicV2 (p) -- implements ProposalLifecycle
       (on Checkpoints)      +- GovernanceApp (p) -- DAOIndex
         +- NounsDAOLogicV1 (c)

A module M marked (p) has its theorems in `M_proofs`, one marked (c) in
`Clients_proofs`, with the parts of the web application but for the history of a
noun, which is in `GovernanceApp_proofs`; those of the bots, the
deployment tasks and the images are in `Bots_proofs`. **DataTheorems** has the lemmas on numbers, sums and checkpoint
lists that they share.

**TokenDomain** declares the addresses and ids and their assumptions.

**ERC721** has one action per external function. `safeTransferFrom` differs from
`transferFrom` by a callback after the move, whose effects are later steps.
**ERC721Enumerable** is the composition the contract is: every action changes
ownership and the lists of the hook together (`INSTANCE ERC721` as `Base`).

**Checkpoints** has the operators both checkpoint lists of the system use:
writing (one entry per block), reading the last value, and the binary search, as
a recursive function on the list's indices; **CheckpointSearch** drives them next
to a plain record. **VotingPower** says what voting promises without
checkpoints: owners, delegates, and the votes at the end of each block.
**ERC721Checkpointable** is the real contract: the `_beforeTokenTransfer` hook
moves votes before ownership changes, `_delegate` moves the current balance,
`delegateBySig` uses signatures from a set, each with a nonce and an expiry.
`checkpoints[a]` stands for the mapping and for `numCheckpoints[a]`. A
subtraction in `sub96` that would underflow is a guard, since the transaction
reverts.

**NounsToken** is `mint`, with its rewards, `burn` and the settings. Only the
owner of each noun is kept. `artReady` stands for a descriptor and a seeder that
can make a seed. **NounsAuctionHouse** composes it with the house, with bidders
that own ETH and WETH, and with accounts that reject ETH. Time is kept as the
time left of the auction and of the Nouns DAO's share, so it is not bounded.
**EnglishAuction** is what bidders are promised; in it ETH and WETH are the same
money and there are no clocks, pauses or settings.

**NounsDAOExecutor** has the executor's operations as operators on a set of
entries `[tx, eta]`, the hash of the code without its wording. A transaction is
`[call, arg]`; two proposals can contain equal ones. **DynamicQuorum** is the
quorum arithmetic with its roundings and the lookup of the parameters of a
block. **NounsDAOLogicV2** composes both with the votes of the token, seen
through VotingPower's interface (current votes, votes at the end of finished
blocks). `settings` holds everything the admin can change. An executed payload
is folded over the executor's and the governor's settings; a call that is not
accepted reverts the whole execution. `State` is computed in the order of the
code. **ProposalLifecycle** is the promise about one proposal: the phases it can
go through, and ballots that are only added while it is active.

**NounsDAOLogicV1** is the first governor and the upgrade: `SetImplementation` of
the proxy replaces it by V2 at any time and migrates nothing, so that V2 works on
records V1 stored. An operator that both implementations share is one definition;
the two ways of storing a proposal and the two comparisons of `cancel` (`<` and
`<=`) are actions guarded by `implementation`. V2's quorum arithmetic is that of
DynamicQuorum with the share V1 left behind. It follows a proposal until its vote
is decided; vetoes, queueing and executing change nothing in that and are in
NounsDAOLogicV2.

### Those who follow the contracts

A subgraph handler is an operator from the stored entities to the stored
entities, `load` a copy and `save` the whole entity. **TokenIndex** has the
handlers of `nouns-erc-721.ts`, **TokenIndexer** feeds it every event of
ERC721Checkpointable in the order of the log, and so compares a program with the
contract it follows. **DAOIndex** and **GovernanceApp** do the same for
`nouns-dao.ts` and NounsDAOLogicV2, and add what the page of a proposal derives
from the index and the block: the state displayed and the buttons offered.
The handlers of `nouns-auction-house.ts` are the first section of AuctionBot,
which reads what they store.

**AuctionBot** and **GovernanceBot** are the two intervals of
`nouns-bots/src/index.ts`. A tick is a record with a control state that names the
last await; what it read is in the record. Requests and posts may fail at each
await, and a restart drops all ticks but not Redis. The setup runs beside the
first ticks. Posts on the two media are counted per subject.

### The clients that keep a state of their own

Each of these has the state of its component's hooks and store slices, an action
per handler, effect or answer, and the part of the chain it is compared with.
Requests under way are part of the state; an effect's closure is a copy.

| Module | Code |
|---|---|
| Deployment | `nouns-contracts/tasks`: every task that deploys, with the tasks it runs |
| NounImages | `nouns-sdk/src/image`: bounds, palette, run lengths, `buildSVG` |
| AuctionPage | `ChainSubscriber` of `nouns-webapp/src/index.tsx`, the slices `auction`, `onDisplayAuction`, `pastAuctions`, the pages' routes, `AuctionNavigation`, `Bid` |
| ProposalDraft | `pages/CreateProposal`, `ProposalActionsModal` and its steps, `wrappers/tokenBuyer.ts` |
| LogsCache | `state/slices/logs.ts`, `state/updaters/logs.ts`, `hooks/useLogs.ts` |
| DelegationPanel | `DelegationModal`, `ChangeDelegatePannel`, `CurrentDelegatePannel` |
| VoteDialog | `VoteModal`, the vote hooks of `wrappers/nounsDao.ts`, `ProposalHeader` |
| QuorumCurve | `DynamicQuorumInfoModal`, `useCurrentQuorum` |
| ActivityFeed | `wrappers/nounActivity.ts`, `ProfileActivityFeed` and the queries behind it |
| Playground | `pages/Playground` |
| Explore | `pages/Explore`, `ExploreGrid`, `ExploreNounDetail`, the seeds of `wrappers/nounToken.ts` |

They share no state, so **MCClients** follows one of them in each behaviour,
chosen at the start (`focus`), while the others stay as they were: the reachable
states are the sum, not the product. **MCBots** does so with the two intervals.

The operators marked *seeded error* are deliberate faults, one for each property
of a passing run: with the fault in place of the definition that follows it, the
property fails. They are used by no specification.

## 3. What the runs check

| Run | Instance | Shows |
|---|---|---|
| `votes_refinement` | 3 accounts, 2 nouns, 2 blocks, symmetry | votes match delegation, no transfer is stuck, and the contract implements VotingPower (VotesMatchDelegation, NothingFrozen, ImplementsVotingPower) |
| `votes_signed` | 2 accounts, approvals, and signatures that compete for a nonce, expire, or name the zero address | votes are never counted twice, answers about past blocks are final (VotesNeverExceedNouns, PastVotesFinal) |
| `auction` | 2 bidders with 2 units each, one rejecting ETH, a second minter; starting at ids 2 and 88 | the house is solvent, forwards what it owes, keeps the lot, is an English auction, and every auction is settled (HouseHoldsLiveBid, ProceedsForwarded, HouseKeepsTheLot, ImplementsEnglishAuction, AuctionsGetSettled) |
| `governor` | 2 accounts, 2 proposals, 6 blocks; payloads that share an action, replace either admin, or revert; the subgraph and the page | the timelock holds what is queued, in both directions; the subgraph counts every queued proposal; the governor accepts what the page offers (OneLiveProposal, TimelockHoldsQueued, QueuedUnlessTwin, CountsEveryQueued, OffersAreAccepted) |
| `governor_votes` | 2 accounts with 5 and 3 of 10 votes, 2 proposals that set the coefficient to 0, a mint and a move of votes at any time | ballots are snapshots, decisions follow the life cycle, the quorum indexed and the state displayed are the governor's (VotesAreSnapshots, ImplementsLifecycle, IndexedQuorumIsGovernors, DisplayedIsGovernors) |
| `token_index` | 2 accounts, one of them the creator, 3 nouns, a signature for the zero address | the enumerations are exact; votes, owners, holders and delegates are indexed (ListsEnumerate, VotesIndexed, AccountsIndexed) |
| `bots` | 2 overlapping ticks of each interval, 2 lots, 2 bids, one failure or restart | nothing is announced twice or in the wrong thread, the copy claims no more than was announced, the latest is announced (AnnouncedOnce, RepliesStayInThread, CopyWasAnnounced, NothingRepeated, LatestIsAnnounced) |
| `clients` | the thirteen parts of MCClients, one of them the upgrade of the governor | one property for each part, see below |
| `votes_lost` | one signature for the zero address | *violation* of VotesMatchDelegation, see Findings |
| `governor_twins` | 2 proposals with the same action | *violation* of QueuedIsExecutable |
| `governor_queued` | as `governor_twins` | *violation* of QueuedIsCurrent |
| `delegation_race` | two addresses, an ENS name | *violation* of DelegatesToEntered |

The properties of `clients`, which also holds the two parts of the contracts that
are checked by themselves:

| Property | Says |
|---|---|
| SearchReturnsPast | the binary search finds the value at the end of every finished block |
| UpgradeKeepsProposals | V1's proposals keep their snapshot, quorum and outcome when the proxy is given V2, and V2's have V1's quorum until it has parameters; a ballot cast while `votingDelay` is not what it was at the proposal is excepted |
| DeployedWorks | nothing is handed to the DAO before it is wired and complete, whatever fails and whatever else the account sends; a task that completes leaves a running system |
| ImagesSurvive | every image is drawn again as it was, also after later images have added colors |
| PageTellsChain | a quiet page shows the chain's auction, and tells of success only for a bid of the user's that was taken; of an auction settled without a bid it names the hall of fame if it saw the settlement, as the event does, else nobody, as `auction()` does |
| PaymentsAreCovered | the total is that of the payments listed, and the top-up is what the TokenBuyer asked for that total |
| LogsComplete | logs said to be up to a block are complete, and listeners end up with the last block seen or an error |
| PanelTellsTheChain | the delegation panel's messages are true of one of its own transactions |
| DialogFollowsBallot | the vote dialog thanks exactly when the ballot is on chain, and does not load for nothing |
| CurveIsGovernors | the dialog's threshold and curve agree with the governor's quorum |
| FeedTellsHistory | the feed is the noun's history since its first owner, newest first, where the page's rule for rewards and the token's agree on the noun and its successor |
| AskedIsWorn | nouns wear the traits that were chosen, although uploads move their indexes |
| ExploreShowsNouns | the grid ends as all nouns in order and the detail shows the noun pointed at, if no fetch failed, no auction started meanwhile and more than one noun was fetched singly; what is selected is a noun there is once the page has a count |

Several of these carry conditions, which are part of the property and name a
behaviour of the code that is not as one would wish. Section 6 lists them.

### Bounds, and why they are enough

* Token: `token_index` has lists in which the removed entry is first, in the
  middle and last, and an account that is owner, creator and delegate at once;
  three different accounts are in `votes_refinement`. Its symmetry of accounts
  and nouns is sound: its properties are invariants and a safety refinement that
  name no account. Checkpoint lists in the token runs are short because the
  search itself is checked on lists up to seven blocks, with gaps
  (`LastBlock` = 7). `MaxOdd` bounds the delegations that AccountsIndexed
  excludes, `MaxCopies` the times a noun is in an array of the index.
* Auction: with two units per bidder and percentages 0 and 100 an increment is
  lost (0), reached exactly (1 to 2) or out of reach; a bidder can outbid
  itself. `Duration` and `TimeBuffers` are chosen such that a late bid extends
  the auction beyond its first end. The ids include 2 (a reward of the council),
  90 (one of the founders that reverts once the unounders DAO is zero) and 88 (a
  shared price); the Nouns DAO's share lasts three units of time, longer than an
  auction with a bid, so that it is paid for 88 and must not be paid for the
  others. `StartIds`, `Nouns`, `Budget` and the sets of settings are the bounds.
* Governor: six blocks hold a proposal's whole life (delay 1, period 1, queue,
  timelock 1, grace 1) and a second one that begins up to two blocks later.
  alice's five votes pass against none and fail against bob's three while the
  coefficient is 2 (a quorum of six), but pass once it is 0 (a quorum of two),
  so that a quorum taken from the wrong block revises a decision. `Intentions`,
  `Moves`, `Heirs`, `Payloads`, `MaxProposals`, `MaxBlock` and `MaxSupply` are
  the bounds. `CoefficientOne` is 1000 instead of 10^6, to stay within TLC's
  integers.
* Upgrade: five blocks hold a proposal with the longer delay and its outcome, and
  a second one of either implementation. alice sells six of her seven nouns to
  bob, which makes her lose and him gain the right to propose and puts her on the
  threshold, where the two `cancel`s differ; a fifteenth noun raises a quorum of
  20 % from two to three. Two of the changes (`MaxChanges`) come in any order and
  at any time, so the upgrade meets each of the others before and after it.
* Bots: two ticks overlap in every way two can; a third would only repeat what
  the second does. Two lots with two bids have a lot that is new, one that is
  seen, a leader that changes. `MaxIncidents` and `MaxMishaps` (1) are the
  requests that fail and the restarts, at any of the awaits.
* Clients. Deployment: one request or foreign transaction out of order
  (`MaxForeign` 1), on three chains. Images of two by two pixels with two colors
  in collections of two, and bytes up to `MaxByte` = 3 instead of 255, so that
  runs are cut, cross lines and margins are empty. Auction page: `Lots` 1 and 3
  (2 is the council's), two bids each, two messages on the wire (`MaxWire`),
  `MaxNow` 2, one bid of the user's (`MaxSent`), routes to a known and an
  unknown noun. Draft: two actions, one change of the need (`MaxDrift`). Logs:
  five blocks with two per call, so that a fetch is split, two listeners.
  Delegation and votes: two transactions (`MaxSends`, `MaxVotes`). Quorum:
  supplies 7 and 19, shares of 10, 14.29, 36.31 and 60 per cent, coefficients 0
  to 2.5 (`One` = 2), among which the threshold shown is a noun more than the
  quorum, and the point is up to a noun beyond the end of the slope. Feed: nouns 1, 2, 9, 10 and 11
  (auctioned, the council's, the one before the founders', theirs, the one after)
  and 221, 222, 1869 and 1870, where the page's rule is not the token's, five
  transactions. Playground: three files (`MaxFiles`). Explore: seven nouns in rows of
  three, the first two fetched one by one and the rest in ranges of four, one new
  auction (`NewNouns`), and arrows that lead up to three nouns (`MaxAstray`) astray
  before the page knows how many nouns there are.

Deadlock is not an error where a behaviour ends at a bound (`MaxBlock`,
`MaxCopies`, bids), where a task ends, or where everything has been announced or
shown; those configurations say so.

### Fairness

`auction`: `Tick` is weakly fair since time passes. The settlement is weakly fair
because anybody may call it and everybody who waits for the noun, the money or
the next auction wants to; one of its two forms is open at any time, whether the
house is paused or not. Bids, the owner and the minter are not fair.
AuctionsGetSettled assumes what the code does not guarantee, and says so: from
some time on the lot is in the house, minting does not panic, and the increment
is at least one unit. Without the last condition TLC finds a behaviour in which
equal bids extend an auction forever.

`bots`: the steps of a tick are weakly fair, since `setInterval` keeps firing and
every request is answered or fails in the end. Failures and restarts are not
fair, and bounded. LatestIsAnnounced says under which conditions the latest lot
and bid are announced: a failure after the cache was written loses the
announcement for good.

The properties of the clients are safety properties; where "in the end" matters
(logs, the page, the grid) they say what holds once nothing is under way.

## 4. What is proved

The theorems hold for every value of the constants that satisfies the assumptions
below: any accounts, bidders and signatures, any finite set of nouns, any
settings, any number of blocks, proposals and transactions. The bounds of the
configurations (`MaxBlock`, `MaxProposals`, `Budget`, ...) are guards of the
specifications and stay parameters: nothing is assumed of their size.

| Theorem | Property of a run | What it says |
|---|---|---|
| **DataTheorems** | | |
| `SearchFindsNewest` | | the binary search ends at the newest checkpoint not after the block asked for |
| `ValueAtNewest` | | so `ValueAt` is that checkpoint's value, or the default |
| `WrittenKeepsPast` | | a write changes the answer for no block before the current one |
| **ERC721Checkpointable_proofs** | | |
| `TypeCorrect` | (TypeOK) | |
| `BalancesCorrect` | | each balance is the number of nouns owned |
| `ApprovalsDie` | | a noun that changes hands is approved to nobody |
| `EnumerationsExact` | | both lists of ERC721Enumerable are exact, their indices invert them |
| `NoVoteTwice` | VotesNeverExceedNouns | |
| `CheckpointsStayAscending` | | |
| `PastIsFinal` | PastVotesFinal | no transaction changes `getPriorVotes` of a finished block |
| `VotesMatch` | VotesMatchDelegation | if no signature names the zero address |
| `NeverFrozen` | NothingFrozen | if no signature names the zero address |
| `TokenImplementsVotingPower` | ImplementsVotingPower | if no signature names the zero address |
| **NounsAuctionHouse_proofs** | | |
| `TypeCorrect` | (TypeOK) | |
| `SolventAndEmpty` | HouseHoldsLiveBid | the house owns exactly the bid under way |
| `LotIsKept` | HouseKeepsTheLot | the lot leaves by its settlement or by a new minter's burn |
| `ProceedsReachTheTreasuries` | ProceedsForwarded | if the treasuries do not bid |
| `HouseImplementsEnglishAuction` | ImplementsEnglishAuction | if the treasuries do not bid |
| **NounsDAOLogicV2_proofs** | | |
| `ProposersHaveOneLive` | OneLiveProposal | |
| `TimelockIsGovernors` | TimelockHoldsQueued | every entry of the timelock is a queued proposal's |
| `OnlyTwinsTakeAway` | QueuedUnlessTwin | a queued proposal misses an entry only if a stopped one has an equal one |
| `VotesAreOfTheSnapshot` | VotesAreSnapshots | each tally is the votes its voters had at the creation block |
| `EveryProposalsLife` | | the governor implements the life cycle of its `i`-th proposal, for every `i` |
| `GovernorImplementsLifecycle` | ImplementsLifecycle | the same as the run checks it, all proposals at once |
| **TokenIndexer_proofs** | | |
| `IndexFollowsToken` | | every behaviour of the indexed token is one of the token (not conversely: the bounds of the indexed token leave some out) |
| `IndexedListsEnumerate` | ListsEnumerate | |
| `IndexedVotesMatch` | VotesIndexed | the subgraph's votes, owners, seeds and supply are the contract's |
| `IndexedAccountsMatch` | AccountsIndexed | its accounts and delegates too, until one of three things derails them |
| **GovernanceApp_proofs** | | |
| `AppIsGovernor` | | every behavior of the governor with its index is one of the governor's |
| `QueuedAreCounted` | CountsEveryQueued | no queued proposal is missing from the subgraph's counter, which counts others too |
| `QuorumIsIndexed` | IndexedQuorumIsGovernors | the quorum stored with a proposal is the governor's, unless its parameters were set in the proposal's block |
| `StateIsDisplayed` | DisplayedIsGovernors | the state the application displays is the governor's, with the exceptions in the property |
| `AcceptsOffers` | OffersAreAccepted | the governor accepts what the page of a proposal offers, with the exceptions in the property |
| `PageTellsHistory` | FeedTellsHistory | the page of a noun is its history since its first owner, newest first, for every noun of which, as of its successor, the page and the token agree on who gets it, and under the other conditions of the property |
| **Bots_proofs** | | |
| `LotsAnnouncedOnce` | AnnouncedOnce | no lot, bid or warning is announced twice while ticks do not overlap, whatever fails or restarts |
| `BidsInTheirThread` | RepliesStayInThread | a bid is announced in its lot's thread while nothing fails, restarts or overlaps |
| `CopiesAreTrue` | CopyWasAnnounced | the copy in Redis claims nothing that was not dealt with, without any condition |
| `SaidOnce` | NothingRepeated | while nothing fails or restarts and no ticks meet, nothing about a proposal is said twice |
| `DeploymentWorks` | DeployedWorks | what the executor owns works, and a completed task leaves a wired system, running or paused |
| `ImagesAreDrawn` | ImagesSurvive | every image of a collection is drawn again as it was, also after later images have added colors |
| **Clients_proofs** | | |
| `SearchCorrect` | SearchReturnsPast | the search agrees with a plain record of the past |
| `ProposalsAreKept` | UpgradeKeepsProposals | proposals keep snapshot, quorum and outcome across settings and the upgrade |
| `PanelIsTrue` | PanelTellsTheChain | the delegation panel is true of one of its transactions |
| `ThanksForBallots` | DialogFollowsBallot | the vote dialog thanks exactly when the ballot is on chain |
| `LogsAreComplete` | LogsComplete | logs are complete up to their block, and nobody waits for a fetch nobody makes |
| `CurveFollowsGovernor` | CurveIsGovernors | the dialog's quorum and curve are the governor's, up to the roundings in the property |
| `WearsWhatIsAsked` | AskedIsWorn | nouns wear the traits chosen, whatever is uploaded |
| `ShowsTheNouns` | ExploreShowsNouns | for any number of nouns allowed by `ExploreConstants`: the grid ends as all nouns in order and the detail as the noun pointed at, under the conditions of the property; what is selected is a noun there is |
| `PageIsChains` | PageTellsChain | the auction page is the chain's once what is on its way has arrived, the winner of an auction without bids included, and tells only of bids that were taken |
| `DraftIsCovered` | PaymentsAreCovered | the total is that of the payments listed, and the top-up is what was asked for it |

The governor's theorems are about `Spec` of NounsDAOLogicV2. Its runs check
AppSpec of GovernanceApp, which adds to every step of the governor what the
subgraph makes of it; `AppIsGovernor` carries the theorems over.

### Assumptions

Besides the sets' being what they are called (TokenDomain,
`SignaturesAreDelegations`, `AuctionConstants`, the governor's limits):

* `PartiesDiffer`: the house is not one of its own bidders and not a treasury, and
  nobody's address is zero. It is a contract that never calls itself to bid.
* `TreasuriesOnlyReceive` (two theorems of the auction): neither treasury bids, and
  they are two. A treasury that bids is paid its own money back, and the proceeds
  it received can no longer be told from its balance; ETH is still conserved, as
  SolventAndEmpty says without it.
* `NoZeroSigned` (three theorems of the token): no signature names the zero
  address. Without it they are false, which is the first finding below.
* `IndexerConstants` and `NullIsNoAddress` (the subgraph): finitely many accounts,
  since sums are taken over them and addresses have 160 bits; the null of the
  entity's `delegate` is no address; the creator the log names is an account.
* Of the governor: `DelaysAreOrdered`, `VotingTakesTime` (the constants
  `MIN_VOTING_DELAY` and `MIN_VOTING_PERIOD` of the contract are positive, which
  puts the snapshot in the past and the end after the start), and that the initial
  settings are in bounds.
* `InitializedWithinBounds` (GovernanceApp): `initialize` has written quorum
  parameters, within the bounds its setters enforce; while there is no noun there
  is no vote.
* `AuctionBotConstants` and `GovernanceBotConstants`: hashes and votes are numbers,
  which is how equal blocks are ordered; no bid's hash is the id of no bid.
* `CurveConstants`: there are at most 10000 nouns when a proposal is made (one is
  auctioned a day), so that each noun is a basis point or more. With more of them
  the quorum shown can differ by several nouns.
* `ExploreConstants`: when the page is opened there are two nouns more than are
  fetched one by one, at least. `LotsAssumption` (the auction page): the nouns that are
  auctioned are different ones, and none is noun 0, which the founders get and which
  counts as no auction on the page. `PlaygroundConstants`: every kind of trait has
  art. `PanelConstants`: a name is no address, and ENS answers with addresses.
  `DraftConstants`: amounts are whole numbers. `FeedConstants`: a noun's id and the
  time to vote are numbers, and the auction house is not one of the holders. `TasksAssumption`: the tasks are
  the seven there are.
* `ImageConstants`: the sides of an image and the number of colors are at most
  `MaxByte` (255), which no code checks: the images are 32 by 32 pixels, and the
  indexes of the palette are bytes in the contracts too. The transparent color is no
  color of a pixel.

### The arguments

**Sums and searches.** Induction over data is done without induction theorems that
take an operator: `LeastNumber` (a set of numbers that is not empty has a least
member, from the library's theorem on finite subsets) and `AllNumbers` (a set that
has 0, and n + 1 with n, has every number) are about sets. The search is a recursive function; `SearchFindsNewest`
takes the least range on which it could go wrong. `DataTheorems` shows in the same
way that the fold behind `Sum` has a value, that it does not depend on the order,
and what a new member adds. The fold of the calls of a proposal is unrolled in
NounsDAOLogicV2_proofs likewise (`Called`).

**Token.** TypeOK is not inductive: that a balance stays a natural number needs to
know that it counts nouns, and a transfer's effect on the votes needs the
balances. `IInv` therefore joins TypeOK, BalancesCountTokens, SupplyCounted,
CheckpointsAscending and VotesNeverExceedNouns. The last is an inequality (a
signature for the zero address loses votes but never creates any); under
`NoZeroSigned` the equality VotesMatchDelegation and NothingFrozen join it. Each
action changes at most two accounts' votes by the number of nouns moved, so that a
step reduces to lemmas on the cardinality of an account's set of nouns before and
after and on the last entry of a list after `Written`. The refinement of
VotingPower needs `WrittenKeepsPast`: all that a step may add to the past is the
block it ends. `Enumerated` is inductive on top of `IInv`: swap-and-pop puts the
last noun where the leaving one was, which keeps the list without repetitions
because positions and nouns are inverse.

**Auction.** `AuctionInv` is HouseHoldsLiveBid with the types, `Running` (an auction
that has time left is not settled; no bidder means no amount) and `Fresh` (ids are
minted upwards, so the lot under way has not been sold). HouseHoldsLiveBid
alone is not inductive: without `Running` a bid that belongs to nobody would stay in
the house when the next one comes. Without `Fresh` a settlement could replace a
former one, and the proceeds would no longer add up. The refinement maps the settled lots and their prices, and
what a bidder owns to the sum of ETH and WETH, since a rejected refund comes as WETH.

**Governor.** `GovInv` is `Typed`, `Timed` (creation before start before end),
`LiveIsLatest` (a proposal that is pending or active is its proposer's latest),
`QueuedPassed` (an eta is only given to what has passed, later than its end) and
`TimelockInv`. OneLiveProposal follows from LiveIsLatest; that one is inductive
because proposing refuses while the latest is live, and nothing that is over comes
alive again: the state is computed from fields whose relevant part is fixed once
the vote has ended, however the settings change. That quorums of past blocks are
fixed is `WrittenKeepsPast` again. `TimelockInv` says where every entry comes from,
why one may be missing, and when two queued proposals can share one: only if a
stopped proposal had cleared it in between. The three are inductive together and
none of them alone. VotesAreSnapshots needs `BallotInv`, the exact tally as a sum
over the voters, whose snapshot is a finished block from the first vote on.

**Subgraph.** `IndexInv` is `IInv` of the token with four parts about the store:
`VotesInv` (votes, their sum, their delegates' count, owners and supply),
`HoldingsInv` and `DelegatesInv`, which hold until what derails them has happened, and
`HistoryInv`, which ties the counters of the derailing to what is there now. The
handlers run several to a transaction, so each has a lemma on what it changes
in any store, and what is exact is stated for any owners, balances and delegates:
between two events of a mint the store matches a token in which the creator owns
the noun, which is no state of the contract. That is also where the conditions of
AccountsIndexed come from: the receiver is loaded before the sender is saved,
so the two must differ, and an array of nouns is appended to without looking.

**Governance application.** `AppInv` is `GovInv` with the types of the index,
`EntitiesTell` (what an entity copies is the proposal's, and what its status says of
the flags and the eta), `ParamsFollow`, `HeldCounted` and `SuppliedVotes`. The
properties are about what is computed from the index at any block, so none is
inductive. The handlers write a status only when an event comes, and `EntitiesTell`
says what each of the six leaves open: PENDING knows that no ballot exists, ACTIVE
only that the vote has begun, QUEUED only that there is an eta.
`ParamsFollow` is the reason for the exception in the three properties of the
quorum: an event of the block of a proposal changes what the governor looks up for
that block and not what the entity has stored. That the index's parameters
are the governor's after an execution is an induction over the calls of the payload,
with the governor's state and the store side by side (`CallsAndEventsKeep`); one
`_setDynamicQuorumParams` is three events, and between two of them the store is no
state of the governor, so the handlers are compared after the last.
`HeldCounted` counts what has an eta and has not been executed, since neither a
cancel nor a veto decreases the counter. `SuppliedVotes` keeps the quorum's
division by the supply defined: the handler stores a supply that is not zero
because the proposer has votes.

**Upgrade.** `UpgradeInv` compares every stored proposal with a record of what it was
made with. A proposal of V1's has its quorum stored and no supply, one of V2's a
supply, of which the share V1 left behind is the quorum until V2 has parameters of
its own; a ballot exists only once the block of the proposal has ended, so that the
votes it reads are fixed; an outcome is recorded when the vote ends and no ballot
can follow. Nothing of it depends on when `implementation` changes, which is
the point.

**Bots.** `AuctionBotInv` says of the subgraph that an older lot has older bids
(`BidsInOrder`; the last bid of the lot on sale is the last of all, which is what the
query relies on), and, while no tick has started before its turn (`Single`), that at most one tick is
under way, that it knows what the caches hold until it has written them
(`TickKnows`), and that whatever was announced is not beyond the caches
(`PostedIsCached`). A failed write or a restart keeps these since the caches are
written before the announcement is made. The thread needs more: the
reply id is that of the cached lot except between the caching and the announcement
of a new one, which a failure there destroys. `BotInv` has two halves. What a job
has read is a past of what the subgraph holds (`ReadIsPast`) and what the copy says was dealt
with (`CopiedIsDealtWith`) whatever happens; the other half holds while nothing fails
or meets (`CalmInv`): what was posted, or is being posted, is in what the one job
at work will save.

**Deployment.** `DeploymentInv` follows the list (`UpTo`): the first k contracts have been
deployed as planned, none below the address expected for its place, and any
two at least as far apart as their places in the list. The base was predicted from
at most the current nonce, so an address can only be too high. A task compares two
addresses with the expected ones, those of the auction house's proxy and of the governor;
since the addresses before them can only be too high, and too far apart, a proxy in its place
leaves the art no other place than its own (`SystemIsWired`), although nobody
compares that one. The descriptor's task compares nothing: there the art's
address is looked at by the first call that populates it, which is not sent if it is wrong,
and so the descriptor is not handed over either. While the system is configured
(`Configured`) who owns what, and whether the house is paused, is told by the step;
this is what an unpause that nobody looks after, and the configs, rest on. Three tasks never
come that far: they pass the token fewer arguments than its constructor has, and
stop at it (`TokenRejected`); deploy-ci stops at its log.

**Images.** `ImagesInv` says that every code was made (`EncodedWith`) with a palette
that the present one extends, and that no palette holds a color twice (`Palette`),
so that its indexes fit in a byte. The encoder, the palette and the drawing are loops,
written as recursive functions: `LoopEnds` shows that such a function exists, by
`AllNumbers`, and facts about its last value are shown for one index after the other.
`Covered` is the invariant of the encoder: the runs end at positions between which all
indexes are equal. It is enough for the drawing, which after a run shows exactly the
opaque pixels up to its end; that these are all opaque pixels is `RowAndColumn`, the
division of a position by the width, and `BoundsHold`.

**Web application.** Most invariants there say of every request under way
what its answer will be worth when it comes: a fetch of logs is one for a filter marked
as fetching up to that block (`FetchIsAnswered`), a receipt belongs to a transaction
that is on chain exactly if the receipt says so, and a range of the grid knows the
count it was asked for. In ExploreShowsNouns the grid as it is filled (`GridFills`)
is the list down to the last range's end with placeholders below. The curve needs
real arithmetic with two divisions; they are bounded with
two lemmas on quotients, and a share in basis points is at most a noun's worth away
from the votes.

The auction page's `PageInv` says of every event on its way what the page will look
like after it. While the creation of the lot on sale has not arrived (`Awaited`)
nothing is claimed of the page, but that creation is the last of its kind and
comes before everything else of that lot (`CreatedFirst`). This rests on the model's
giving every transaction a block of its own: the events of one block arrive in any
order, and of a bid in the block that created its auction nothing is said here.
Otherwise the page has that lot (`NothingAwaited`) and
every bid is on the wire, being read or shown (`BidsArrive`); an extension that is
not the last is followed by the last one in a later block (`EndArrives`), and a
settlement is on the wire or shown (`SettlementArrives`). The highest bid is not
part of this: bids are read in any order, so the page has the chain's only once it
has all of them, which is what NothingAwaited says. That the form is truthful needs
no condition: whatever leads on the page was on chain for that noun
(`LeadIsChains`).

`DraftInv` has the total as the sum of the payments listed, which an action appended or
removed at any place changes by its own payment (an induction on the place, with the
sums over sets of DataTheorems), and says of the top-up that the first action for the TokenBuyer
carries it unless the user has removed it (`TopUpStands`). The rest is the dialog:
a step finds the fields it reads among those an earlier step handed on, and what
it adds pays a number (`DialogInv`).

Of a noun's history, `FeedInv` says that its transfers and its delegations are in
blocks that ascend (`Chronology`), and that an auctioned noun has exactly two of
each up to the block in which its first owner got it, any other one of each
(`FirstOwner`); no proposal is of that block, since it would need a transaction of
its own there. A sort puts the events up to a block last (`SortedEvents`), so
what is cut off by its number is cut off by its time (`OldEvents`): the two are the same
only because a transfer always comes with a change of delegate in the index. Sorting and
filtering are written with the number of members that come before one
(`Lined`), which can be counted without an induction.

The proof of CurveIsGovernors refuted an earlier form of it, in which the point of
the graph never passed the end of the slope. It can, by less than a noun: with 19
nouns, a coefficient of 2.5, a minimum of 10 % and a maximum of 36.31 %, two votes
against are 10.52 %, not enough for the maximum, while the end of the slope is
rounded down to one noun. The property now says so, and the run contains that case.

### Model-checked only

Liveness (AuctionsGetSettled, LatestIsAnnounced), which is out of the proof
system's reach. Every other invariant and action property of the runs that pass
is stated by a theorem, with the conditions the table names.

## 5. Findings

* **Votes lost by signature** (`votes_lost`). `delegate` replaces the zero address
  by the sender (line 135 of `base/ERC721Checkpointable.sol`), `delegateBySig`
  (line 165) does not replace it. A signed delegation to the zero address removes
  the account's votes from its delegate and gives them to nobody, although
  `delegates()` then names the account itself. Later transfers can revert in
  `sub96`. With no such signature the votes are exact, which is proved.
* **A queued proposal that cannot be executed** (`governor_twins`). `cancel` and
  `veto` can be repeated on a stopped proposal, and clear timelock entries by a
  hash that does not contain the proposal. If an identical action was queued in
  the same block after the first cancel, a second cancel removes it; the second
  proposal stays `Queued` until it expires. `QueuedUnlessTwin` shows that this is
  the only way to lose an entry.
* **Proposals counted as queued** (`governor_queued`). The schema calls
  `proposalsQueued` the "number of proposals currently queued for execution"
  (`schema.graphql:318`). The handlers of a cancellation and a veto
  (`nouns-dao.ts:103` and `110`) leave the counter alone, only an execution lowers
  it, so a proposal stopped while it is queued is counted for ever. No queued
  proposal is left out, though, which `governor` checks and a theorem proves.
* **The wrong delegate** (`delegation_race`). The address of an ENS name entered
  first arrives after another address was entered and replaces it
  (`ChangeDelegatePannel/index.tsx:79`); the input goes on showing the latter,
  and the button delegates to the former.

Behaviour that is not contradicted by a doc but deserves notice: equal bids are
accepted when the increment rounds to zero; a minter appointed during an auction
can burn the lot, after which the settlement reverts; with an empty descriptor
the settlement reverts until the owner pauses the house; a proposal with two
equal actions can never be queued.

## 6. Where the clients part from the chain

The conditions in the properties, and what the models leave to be seen by
reading. Each is what the code does today.

* **Subgraph.** A transfer to oneself loses the noun from
  the index. Redelegating to the same delegate saves an entity that is then
  overwritten. When an account's balance leaves 0 it is stored as its own delegate
  (`nouns-erc-721.ts:201`), while the token keeps what the account had delegated when
  it held nothing: of an account that delegates and then receives its first noun,
  or sells all its nouns and buys one again, the index names the holder and the token
  the delegate it chose. The zero address counts as a holder since the first burn,
  which the schema's `currentTokenHolders` does not say. The quorum stored with a proposal differs when its parameters were
  set in the same block.
* **Governor.** V1 and V2 take the snapshot of a proposal of V1's at `startBlock`
  minus the `votingDelay` of the moment (`NounsDAOLogicV1.sol:530`,
  `NounsDAOLogicV2.sol:949`), so that a change of the delay during a vote moves it,
  although V1's header says that votes are counted from the block a proposal
  is created (line 64).
* **Bots.** The cache is written before a bid is tweeted, "to ensure we do not double
  tweet a bid" (`handlers/twitter.ts:32`), but it is read before the subgraph is asked
  (`index.ts:50`), and the interval does not wait: two ticks that overlap both find
  the bid new and tweet it twice. AnnouncedOnce shows that nothing else makes them
  repeat it. Two ticks of the governance bot do the same. A vote that is found together with its proposal is never announced; a
  failed announcement is never repeated, the cache being written first; a lot on
  sale when the bots start is not announced, and bids for it are replies in the
  thread of an older lot.
* **Governance pages.** A proposal nobody voted on is shown as active for ever
  after its end, one canceled after a veto as canceled.
* **Auction page.** What happens between the first query and the subscriptions is
  not seen until the next auction; past auctions are fetched once; noun 0 counts
  as no auction (`!lastAuctionUNounId`); `BrowserRouter` is nested in
  `ConnectedRouter`, so that a pushed route changes the address only, and a
  visit of another `/unoun/N` from inside keeps the noun displayed. An
  auction settled without a bid has the hall of fame as its bidder if the page heard
  of the settlement, nobody if it was opened later. The founders' nouns have no upper
  bound on the page (1865 in the contract), the council's end before 222 (with 222
  in the contract). The spinner of a bid can stay when the
  bid's own event is overtaken. A gas estimate that is rejected is handled nowhere.
* **Draft of a proposal.** The validity of a step outlives a change of the address;
  an ABI fetched for a former address may arrive late; a top-up stays when the
  need falls to zero, and overwrites a call to the TokenBuyer of the user's own; a
  top-up that is added closes the dialog; the page can be sent before the answer.
* **Logs.** The key of a filter does not contain `fromBlock`; a log in a block that
  is a multiple of 1,000,000 is in two ranges and returned twice; an error wipes
  the logs until the next block.
* **Delegation.** The input can be edited while a transaction is under way, and a
  late success of a former one moves the panel on.
* **Vote dialog.** A gas estimate that fails leaves it loading until it is
  dismissed; the success flag is never reset and every rendering of the page
  restarts the timer that closes the dialog, so that a reopened one closes by
  itself; success and failure can be shown together; a second click while the
  estimate is awaited sends a second vote.
* **Quorum dialog.** It uses the parameters of the start block, the governor those
  of the creation block. Fractions may show one noun more. The floating point of
  `againstVotesBps` is left out; it may make the share one basis point smaller.
* **A noun's activity.** The page takes every tenth noun for the founders'
  (`isNounderNoun`), the token gives them none after 1865 and the council its last
  with 222 (`UNounsToken.sol:177` and `181`). So the page of noun 1870,
  like every tenth after it, tells that the auction house won it when it was minted
  and of its sale as of a transfer, and the page of the noun before it dates the
  first vote it could cast one auction too late; FeedTellsHistory excludes these
  nouns (`RuleHolds`). Council nouns lose four events instead of two, and their
  first transfer is taken for a win at auction; `useNounCanVoteTimestamp` does not
  skip them, so that a state said to occur only "during loading flashes"
  (`nounsAuction.ts:73`) stays. Proposals and timestamps are fetched at different
  times, and an index out of range breaks the page.
* **Playground.** The selector keeps showing the kind that was chosen while a newly
  read file is set to heads; a late error timer wipes the mark of a later file.
* **Explore.** An auction that starts while the page is open
  drops or misplaces nouns, since `individualNouns` is that of an older rendering.
  The nouns fetched singly are kept by their number in that rendering, which is 0, so if
  there is one of them (the number of nouns is a multiple of ten) the first range
  replaces it, against the comment at `ExploreGrid/index.tsx:86`: the grid lacks the
  newest noun. A range that failed shifts the list. Before the page has a count the arrows and
  the order select nouns there are not, until it has one. The window's width is fixed
  in the model, and one key is pressed at a time.
* **Deployment.** The answers EXIT and SKIP to the prompt deploy all the same
  (`deploy.ts:328-348` stores `confirm` and reads `result.operation`).
  `deploy-local`, `run-local` and the two short-times tasks cannot finish: they pass
  five of six arguments to the token's constructor and six of nine to
  `initialize`. `deploy-ci` logs a contract that was not deployed, and passes
  `noundersDAO`, which `deploy` does not read; the subgraph's start block may be
  null.
* **Assets.** `nouns-assets/src/utils.ts:82` takes the accessory from other bits
  (192) than `NounsSeeder.sol:69` (96); not modelled.

## 7. Not modelled, and the plan

Not modelled on purpose: art storage, rendering and compression (pure functions
from bytes to text), metadata, the api and the generated SDK, the proxies
(instances of library contracts; their place in a deployment is modelled), WETH
and OpenZeppelin (external; WETH only as a second balance), test contracts. The
governor's ETH (`_withdraw`, gas refunds) and calls made from within calls
(reentrancy) are left out: the auction house excludes them with `nonReentrant`,
and `execute` and the votes have written their state before the call. After the
executor is handed to another admin, what that admin queues is not modelled. The
tasks that verify contracts, upgrade or populate by proposal, mint or create a
proposal are left out. Of the web application texts, layout, navigation, locales,
the wallet, and pages that only show what the parts above hand them are left out;
of the bots the wording of messages. Of
`NounsDAOLogicV1` vetoes, the vetoer's successors, queueing and executing are left
out, and the settings that work as in V2.

What is left to prove is listed in section 4 as model-checked only.
