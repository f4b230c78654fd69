----------------------------- MODULE ActivityFeed ------------------------------
(***************************************************************************)
(* The history of one noun on its page: the votes cast with it, its        *)
(* transfers and its delegations, as the subgraph indexed them, put in one *)
(* order.  The events of the noun's birth and of its first auction are cut *)
(* off by their number and replaced by one, of the auction won.  Time is   *)
(* in blocks; a transaction about the noun is alone in its block.          *)
(***************************************************************************)
EXTENDS Integers, Sequences, FiniteSets

CONSTANTS
  FeedNouns,     \* the nouns whose page is looked at
  Holders,       \* who can own a noun
  VotingBlocks,  \* how long a proposal is voted on
  LastTx         \* bound: the last block

ASSUME FeedConstants ==
  FeedNouns \subseteq Nat /\ VotingBlocks \in Nat /\ LastTx \in Nat /\ "house" \notin Holders

VARIABLES
  noun,          \* the one looked at
  txBlock,
  transfers,     \* its transfer events: [block, to]
  delegated,     \* the blocks of its delegation events
  proposed,      \* the proposals: [created, end, vote: the block of the noun's or 0, canceled]
  nextStart,     \* the block in which the next auction started, or 0
  laterStart,    \* the same of the auction after that
  auctionsSeen,  \* what the app has: whether the auction it seeks is in its past auctions,
  listed,        \* how many proposals, and how many creation times, or -1
  timestamps

feedChain == <<noun, txBlock, transfers, delegated, proposed, nextStart, laterStart>>
feedQueries == <<auctionsSeen, listed, timestamps>>
feedVars == <<feedChain, feedQueries>>

\* what the token mints for the nounders and for the council, and for sale
GivenToNounders(n) == n <= 1865 /\ n % 10 = 0
GivenToCouncil(n) == n <= 222 /\ n % 10 = 2
Auctioned(n) == ~GivenToNounders(n) /\ ~GivenToCouncil(n)

NextForSale(n) == IF Auctioned(n + 1) THEN n + 1 ELSE n + 2

\* isNounderNoun, the page's own rule, which has no end
IsNounders(n) == n % 10 = 0

\* a noun given away is minted with the next one for sale
FeedInit ==
  /\ noun \in FeedNouns
  /\ txBlock = 1
  /\ transfers = <<[block |-> 1, to |-> IF Auctioned(noun) THEN "house" ELSE "founders"]>>
  /\ delegated = <<1>>
  /\ proposed = <<>>
  /\ nextStart = (IF Auctioned(noun) THEN 0 ELSE 1) /\ laterStart = 0
  /\ auctionsSeen = FALSE /\ listed = -1 /\ timestamps = -1

Owner == transfers[Len(transfers)].to

Transact == txBlock < LastTx /\ txBlock' = txBlock + 1

\* handleTransfer records a change of delegate with every transfer
NounMoves(to) ==
  /\ transfers' = Append(transfers, [block |-> txBlock', to |-> to])
  /\ delegated' = Append(delegated, txBlock')

\* the next auction starts in the transaction that settles this one
SettleNoun(to) ==
  /\ Owner = "house" /\ Transact
  /\ NounMoves(to)
  /\ nextStart' = txBlock'
  /\ UNCHANGED <<noun, proposed, laterStart, feedQueries>>

SettleNextNoun ==
  /\ nextStart # 0 /\ laterStart = 0 /\ Transact
  /\ laterStart' = txBlock'
  /\ UNCHANGED <<noun, transfers, delegated, proposed, nextStart, feedQueries>>

TransferNoun(to) ==
  /\ Owner # "house" /\ to # Owner /\ Transact
  /\ NounMoves(to)
  /\ UNCHANGED <<noun, proposed, nextStart, laterStart, feedQueries>>

DelegateNoun ==
  /\ Owner # "house" /\ Transact
  /\ delegated' = Append(delegated, txBlock')
  /\ UNCHANGED <<noun, transfers, proposed, nextStart, laterStart, feedQueries>>

ProposeBesides ==
  /\ Transact
  /\ proposed' = Append(proposed, [created |-> txBlock', end |-> txBlock' + VotingBlocks,
                                   vote |-> 0, canceled |-> FALSE])
  /\ UNCHANGED <<noun, transfers, delegated, nextStart, laterStart, feedQueries>>

\* the noun counts if it had an owner when the proposal was made
VoteWithNoun(i) ==
  /\ nextStart # 0 /\ proposed[i].created > nextStart
  /\ proposed[i].vote = 0 /\ ~proposed[i].canceled /\ txBlock < proposed[i].end
  /\ Transact
  /\ proposed' = [proposed EXCEPT ![i].vote = txBlock']
  /\ UNCHANGED <<noun, transfers, delegated, nextStart, laterStart, feedQueries>>

CancelProposed(i) ==
  /\ ~proposed[i].canceled /\ Transact
  /\ proposed' = [proposed EXCEPT ![i].canceled = TRUE]
  /\ UNCHANGED <<noun, transfers, delegated, nextStart, laterStart, feedQueries>>

\* the start of the auction by which the app dates the noun's first owner: that of
\* the next noun, or of the one after a nounders'
SoughtStart ==
  LET sought == IF IsNounders(noun + 1) THEN noun + 2 ELSE noun + 1
      next   == NextForSale(noun)
  IN  CASE sought = next              -> nextStart
        [] sought = NextForSale(next) -> laterStart
        [] OTHER                      -> 0

\* the app asks once: for its past auctions, for the proposals and for their times
LoadAuctions ==
  /\ ~auctionsSeen
  /\ auctionsSeen' = (SoughtStart # 0)
  /\ UNCHANGED <<feedChain, listed, timestamps>>

ListProposals ==
  /\ listed = -1 /\ listed' = Len(proposed)
  /\ UNCHANGED <<feedChain, auctionsSeen, timestamps>>

ListTimestamps ==
  /\ timestamps = -1 /\ timestamps' = Len(proposed)
  /\ UNCHANGED <<feedChain, auctionsSeen, listed>>

FeedNext ==
  \/ \E to \in Holders : SettleNoun(to) \/ TransferNoun(to)
  \/ SettleNextNoun \/ DelegateNoun \/ ProposeBesides
  \/ \E i \in DOMAIN proposed : VoteWithNoun(i) \/ CancelProposed(i)
  \/ LoadAuctions \/ ListProposals \/ ListTimestamps

FeedSpec == FeedInit /\ [][FeedNext]_feedVars

-------------------------------------------------------------------------------

\* the members of S, each after those that come before it
Lined(S, before) ==
  [k \in 1 .. Cardinality(S) |->
     CHOOSE i \in S : Cardinality({j \in S : <<j, i>> \in before}) = k - 1]

\* what is at some places of a list, in its order
Picked(list, places) ==
  LET line == Lined(places, {p \in places \X places : p[1] < p[2]})
  IN  [k \in DOMAIN line |-> list[line[k]]]

\* useNounCanVoteTimestamp: 0 if that auction is not among the past auctions
NounCanVoteTimestamp == IF auctionsSeen THEN SoughtStart ELSE 0

\* nothing to show before there is a proposal; an index out of range ends the page
FeedLoading == listed <= 0 \/ timestamps = -1
FeedBreaks == ~FeedLoading /\ listed > timestamps

Canceled(p) == p.canceled /\ p.vote = 0

\* useNounProposalVoteEvents; a proposal the noun did not vote on counts at its end
VoteEvents ==
  LET kept == Picked(proposed, {i \in 1 .. listed : /\ proposed[i].created >= NounCanVoteTimestamp
                                                    /\ ~Canceled(proposed[i])})
  IN  [i \in DOMAIN kept |->
         [kind |-> "vote", block |-> IF kept[i].vote # 0 THEN kept[i].vote ELSE kept[i].end,
          about |-> kept[i].created]]

TransferEvents ==
  [i \in DOMAIN transfers |->
     [kind |-> "transfer", block |-> transfers[i].block, about |-> transfers[i].to]]

DelegationEvents ==
  [i \in DOMAIN delegated |-> [kind |-> "delegation", block |-> delegated[i], about |-> 0]]

\* seeded error: every noun is taken for one that was auctioned
CutOffAll(n) == 4

\* the events of birth and auction, by their number
CutOff(n) == IF IsNounders(n) THEN 2 ELSE 4

\* slice(0, n - k): a negative end counts from the end
Slice(s, end) == SubSeq(s, 1, IF end >= 0 THEN end ELSE Len(s) + end)

\* the transfer out of the auction house, or none
WinningTransfer ==
  LET i == IF IsNounders(noun) THEN 1 ELSE 2 IN
  IF i \in DOMAIN transfers
  THEN <<[kind |-> "win", block |-> transfers[i].block, about |-> transfers[i].to]>>
  ELSE <<>>

\* useNounActivity: newest first, later kinds before earlier ones in the same block
NounActivity ==
  LET all    == VoteEvents \o TransferEvents \o DelegationEvents
      later  == {p \in (DOMAIN all) \X (DOMAIN all) :
                   \/ all[p[1]].block > all[p[2]].block
                   \/ all[p[1]].block = all[p[2]].block /\ p[1] > p[2]}
      order  == Lined(DOMAIN all, later)
      newest == [i \in DOMAIN all |-> all[order[i]]]
  IN  Slice(newest, Len(all) - CutOff(noun)) \o WinningTransfer

\* what ProfileActivityFeed shows: nothing, or the events, those beyond the fifth on demand
FeedShown == IF FeedLoading \/ FeedBreaks THEN <<>> ELSE NounActivity

\* getComponentFromEvent: a row for every kind of event it knows
DesktopRows ==
  Picked(FeedShown, {i \in DOMAIN FeedShown :
                       FeedShown[i].kind \in {"vote", "delegation", "transfer", "win"}})

MobileRows == DesktopRows

-------------------------------------------------------------------------------

\* what has happened to the noun since it had its first owner
Since(events, block) == {events[i] : i \in {j \in DOMAIN events : events[j].block > block}}

\* the page takes for the nounders' what was given to them, of the noun and the next
RuleHolds ==
  /\ ~GivenToCouncil(noun)
  /\ \A n \in {noun, noun + 1} : IsNounders(n) => GivenToNounders(n)

(***************************************************************************)
(* The page shows every transfer, delegation and proposal since the noun's *)
(* first owner had it, newest first, and last how that owner got it        *)
(* (useNounActivity).  Conditions: the noun was auctioned or given to the  *)
(* nounders, not to the council; neither it nor the next one is a multiple *)
(* of ten beyond 1865, which the token sells and the page takes for the    *)
(* nounders'; the auction the app seeks had started when it asked, which   *)
(* it never does before a noun of the council's; and the queries agree on  *)
(* the proposals.                                                          *)
(***************************************************************************)
FeedTellsHistory ==
  ~FeedLoading /\ ~FeedBreaks /\ auctionsSeen /\ RuleHolds =>
    LET shown == MobileRows
        votes == {e \in {VoteEvents[i] : i \in DOMAIN VoteEvents} : e.about >= nextStart}
    IN  /\ Len(shown) > 0 /\ shown[Len(shown)].kind = "win"
        /\ shown[Len(shown)].block = nextStart
        /\ {shown[i] : i \in 1..Len(shown) - 1}
             = votes \union Since(TransferEvents, nextStart) \union Since(DelegationEvents, nextStart)
        /\ \A i \in 1..Len(shown) - 1 : shown[i].block >= shown[i + 1].block
===============================================================================
