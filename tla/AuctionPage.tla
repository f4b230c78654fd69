------------------------------ MODULE AuctionPage ------------------------------
(***************************************************************************)
(* The auction page of the web app.  It fetches the current auction, then  *)
(* the bids of the last day, and only then subscribes to the auction       *)
(* house's events; of every bid it also fetches the block before it adds   *)
(* the bid.  What it shows depends on all of that, on the past auctions    *)
(* the subgraph answered with once, on the route and on the arrows the     *)
(* user pressed.  The bid form compares the auction shown with what was    *)
(* typed into it to tell the user that a bid has succeeded.                *)
(*                                                                         *)
(* The auction house is reduced to the log the page reads.  Its blocks     *)
(* arrive in their order, the events of one block in any order (each kind  *)
(* is a subscription of its own), and an answer to a request at any time.  *)
(***************************************************************************)
EXTENDS Integers, Sequences, FiniteSets

CONSTANTS
  Lots,       \* the nouns that are auctioned, in their order
  Rivals,     \* the other bidders
  MaxBids,    \* bound: bids for a noun
  MaxNow,     \* bound: time
  MaxWire,    \* bound: blocks on their way
  MaxSent,    \* bound: bids of the user's on their way
  Routes      \* the nouns in routes the user visits

\* nouns are minted in ascending order, and noun 0 counts as no auction on the page
ASSUME LotsAssumption ==
  /\ Lots \in Seq(Nat \ {0}) /\ Lots # <<>>
  /\ \A i, j \in DOMAIN Lots : i # j => Lots[i] # Lots[j]
  /\ MaxBids \in Nat /\ Routes \subseteq Nat

VARIABLES
  auctions,   \* the chain's: for each noun auctioned, its bids, end and settlement
  now,        \* the chain's time
  wire,       \* blocks of events on their way to the page
  missed,     \* the nouns of which the page will never see some event
  reading,    \* bids whose block is being fetched
  page,       \* the store and the route
  input,      \* what is typed into the bid form; 0 is nothing
  status,     \* of the form's transaction
  asking,     \* bids whose gas is estimated or that the wallet shows
  sent,       \* bids sent, and what became of them
  truthful,   \* observed: every bid the page called successful was on chain
  user        \* bound: a user browses the auctions, or bids for the current one

pageVars ==
  <<auctions, now, wire, missed, reading, page, input, status, asking, sent, truthful, user>>

formVars == <<input, status, asking, sent, truthful, user>>

Me == "me"
NoAuction == [noun |-> -1]
BidValues == 1 .. MaxBids

Lot == auctions[Len(auctions)]

(* the auctions that have no bidders: the founders' and the council's *)
isNounderNoun(noun)   == noun % 10 = 0
isUNouncilUNoun(noun) == noun < 222 /\ noun % 10 = 2

HighestBid(bids) == CHOOSE b \in bids : \A c \in bids : c.value <= b.value

-------------------------------------------------------------------------------
(* The store *)

NewAuction(noun, end) ==
  [noun |-> noun, bidder |-> "nobody", amount |-> 0, end |-> end, settled |-> FALSE]

\* the auction as the contract returns it
ChainAuction(a) ==
  [noun |-> a.noun, end |-> a.end, settled |-> a.settled,
   bidder |-> IF a.bids = {} THEN "nobody" ELSE HighestBid(a.bids).by,
   amount |-> IF a.bids = {} THEN 0 ELSE HighestBid(a.bids).value]

\* to whom a settlement gives the noun, which is not who leads if nobody bid
Winner(a) == IF a.bids = {} THEN "halloffame" ELSE HighestBid(a.bids).by

\* seeded error: the bids for the last noun are kept
setActiveAuctionKeepingBids(p, noun, end) == [p EXCEPT !.active = NewAuction(noun, end)]

setActiveAuction(p, noun, end) ==
  [p EXCEPT !.active = NewAuction(noun, end), !.bids = {}]

setFullAuction(p, auction) == [p EXCEPT !.active = auction]

Concerns(p, event) == p.active # NoAuction /\ p.active.noun = event.noun

\* the bids are a set: a bid that is there already is not added again
WithBid(p, b) ==
  LET bids == p.bids \cup {b}
  IN [p EXCEPT !.bids = bids,
               !.active.amount = HighestBid(bids).value,
               !.active.bidder = HighestBid(bids).by]

appendBid(p, b) == IF Concerns(p, b) THEN WithBid(p, b) ELSE p

setAuctionSettled(p, e) ==
  IF Concerns(p, e)
  THEN [p EXCEPT !.active.settled = TRUE, !.active.bidder = e.winner, !.active.amount = e.amount]
  ELSE p

setAuctionExtended(p, e) == IF Concerns(p, e) THEN [p EXCEPT !.active.end = e.end] ELSE p

setPrevOnDisplay(p) == IF p.onDisplay <= 0 THEN p ELSE [p EXCEPT !.onDisplay = @ - 1]

setNextOnDisplay(p) ==
  IF p.onDisplay = -1 \/ p.onDisplay = p.last THEN p ELSE [p EXCEPT !.onDisplay = @ + 1]

\* useOnDisplayAuction: the noun shown, -1 while there is nothing to show
Shown(p) ==
  IF /\ p.onDisplay # -1 /\ p.active # NoAuction
     /\ \/ p.onDisplay = p.active.noun
        \/ isNounderNoun(p.onDisplay) \/ isUNouncilUNoun(p.onDisplay)
        \/ p.onDisplay \in p.past
  THEN p.onDisplay
  ELSE -1

-------------------------------------------------------------------------------
(* What is rendered after a change of the store *)

\* the page's effect, which runs after every change: the auction is a new object
Routed(p) ==
  IF p.last = -1 THEN p
  ELSE IF p.route = -1 THEN [p EXCEPT !.onDisplay = p.last]
  ELSE IF p.route > p.last THEN [p EXCEPT !.onDisplay = p.last, !.route = p.last]
  ELSE IF Shown(p) = -1 THEN [p EXCEPT !.onDisplay = p.route]
  ELSE p

\* the auction beside the noun, if the noun was auctioned
AuctionShown(p) ==
  /\ Shown(p) # -1 /\ p.last > 0
  /\ ~isNounderNoun(Shown(p)) /\ ~isUNouncilUNoun(Shown(p))

\* and the form, if it is the last one
FormShown(p) == AuctionShown(p) /\ Shown(p) = p.last

\* an empty form counts as the least bid
TypedBid == IF input = 0 THEN 1 ELSE input

OnChain(noun, value) ==
  \E i \in DOMAIN auctions : [noun |-> noun, by |-> Me, value |-> value] \in auctions[i].bids

\* the form's effect; the form is cleared once it has told of a success
Rendered(p, transaction) ==
  LET q     == Routed(p)
      tells == /\ FormShown(q) /\ transaction = "Mining"
               /\ q.active.bidder = Me /\ q.active.amount = TypedBid
  IN /\ page' = q
     /\ status' = IF tells THEN "Success" ELSE transaction
     /\ truthful' = (truthful /\ (tells => OnChain(q.active.noun, TypedBid)))
     /\ input' = IF tells THEN 0 ELSE input

-------------------------------------------------------------------------------

PageInit ==
  /\ auctions = <<[noun |-> Lots[1], bids |-> {}, end |-> 1, settled |-> FALSE]>>
  /\ now = 0
  /\ wire = <<>>
  /\ missed = {}
  /\ reading = {}
  /\ page \in [stage : {"loading"}, active : {NoAuction}, bids : {{}}, last : {-1},
               onDisplay : {-1}, past : {{}}, route : Routes \cup {-1}]
  /\ input = 0
  /\ status = "None"
  /\ asking = {} /\ sent = {}
  /\ truthful = TRUE
  /\ user \in {"browses", "bids"}
  /\ user = "bids" => page.route = -1

(* The auction house *)

\* the events of a block are on their way, or what will not be seen is noted
Emitted(events) ==
  IF page.stage = "on"
  THEN Len(wire) < MaxWire /\ wire' = Append(wire, events) /\ UNCHANGED missed
  ELSE /\ UNCHANGED wire
       /\ missed' = missed \cup
            {e.noun : e \in {x \in events : \/ page.stage = "queried"
                                            \/ page.stage = "fetched" /\ x.kind # "bid"}}

LotOpen == ~Lot.settled /\ now < Lot.end

\* a bid in the last moment extends the auction
BidPlaced(by, value) ==
  LET extends == now = Lot.end - 1 /\ Lot.end < MaxNow
      bid     == [noun |-> Lot.noun, by |-> by, value |-> value]
      end     == IF extends THEN Lot.end + 1 ELSE Lot.end
  IN /\ auctions' = [auctions EXCEPT ![Len(auctions)].bids = @ \cup {bid},
                                     ![Len(auctions)].end = end]
     /\ Emitted({[kind |-> "bid", noun |-> Lot.noun, bid |-> bid]}
                \cup IF extends THEN {[kind |-> "extended", noun |-> Lot.noun, end |-> end]}
                     ELSE {})

Accepts(value) ==
  /\ LotOpen
  /\ Cardinality(Lot.bids) < MaxBids
  /\ \A b \in Lot.bids : b.value < value

RivalBids(by, value) ==
  /\ Accepts(value)
  /\ BidPlaced(by, value)
  /\ UNCHANGED <<now, reading, page, formVars>>

TimePasses ==
  /\ now < MaxNow
  /\ now' = now + 1
  /\ UNCHANGED <<auctions, wire, missed, reading, page, formVars>>

Settlement == [kind |-> "settled", noun |-> Lot.noun,
               winner |-> Winner(Lot), amount |-> ChainAuction(Lot).amount]

NextLot == [noun |-> Lots[Len(auctions) + 1], bids |-> {}, end |-> now + 1, settled |-> FALSE]

Creation == [kind |-> "created", noun |-> NextLot.noun, end |-> NextLot.end]

SettledAuctions == [auctions EXCEPT ![Len(auctions)].settled = TRUE]

SettleAuction ==
  /\ ~Lot.settled /\ now >= Lot.end
  /\ \/ /\ auctions' = SettledAuctions
        /\ Emitted({Settlement})
     \/ /\ Len(auctions) < Len(Lots)
        /\ auctions' = Append(SettledAuctions, NextLot)
        /\ Emitted({Settlement, Creation})
  /\ UNCHANGED <<now, reading, page, formVars>>

CreateAuction ==
  /\ Lot.settled /\ Len(auctions) < Len(Lots)
  /\ auctions' = Append(auctions, NextLot)
  /\ Emitted({Creation})
  /\ UNCHANGED <<now, reading, page, formVars>>

-------------------------------------------------------------------------------
(* ChainSubscriber *)

FetchAuction ==
  /\ page.stage = "loading"
  /\ Rendered([setFullAuction(page, ChainAuction(Lot)) EXCEPT !.stage = "fetched",
                                                             !.last = Lot.noun], status)
  /\ UNCHANGED <<auctions, now, wire, missed, reading, asking, sent, user>>

\* the node answers with the bids of every auction of the last day
QueryBids ==
  /\ page.stage = "fetched"
  /\ reading' = UNION {auctions[i].bids : i \in DOMAIN auctions}
  /\ page' = [page EXCEPT !.stage = "queried"]
  /\ UNCHANGED <<auctions, now, wire, missed, formVars>>

Subscribe ==
  /\ page.stage = "queried"
  /\ page' = [page EXCEPT !.stage = "on"]
  /\ UNCHANGED <<auctions, now, wire, missed, reading, formVars>>

\* processBidFilter, once the block of the bid has been fetched
ReadBid(b) ==
  /\ page.stage = "on"
  /\ reading' = reading \ {b}
  /\ Rendered(appendBid(page, b), status)
  /\ UNCHANGED <<auctions, now, wire, missed, asking, sent, user>>

\* the block cannot be fetched
LoseBid(b) ==
  /\ page.stage = "on"
  /\ reading' = reading \ {b}
  /\ missed' = missed \cup {b.noun}
  /\ UNCHANGED <<auctions, now, wire, page, formVars>>

\* its dispatches are one change of the store; the page goes to the new noun
processAuctionCreated(p, e) ==
  [setActiveAuction(p, e.noun, e.end) EXCEPT !.route = e.noun, !.onDisplay = e.noun,
                                             !.last = e.noun]

DeliverEvent(e) ==
  /\ wire' = IF Head(wire) = {e} THEN Tail(wire) ELSE <<Head(wire) \ {e}>> \o Tail(wire)
  /\ \/ /\ e.kind = "bid"
        /\ reading' = reading \cup {e.bid}
        /\ UNCHANGED <<page, input, status, truthful>>
     \/ /\ e.kind = "created"
        /\ Rendered(processAuctionCreated(page, e), status)
        /\ UNCHANGED reading
     \/ /\ e.kind = "extended"
        /\ Rendered(setAuctionExtended(page, e), status)
        /\ UNCHANGED reading
     \/ /\ e.kind = "settled"
        /\ Rendered(setAuctionSettled(page, e), status)
        /\ UNCHANGED reading
  /\ UNCHANGED <<auctions, now, missed, asking, sent, user>>

\* PastAuctions: the subgraph answers, once
LoadPastAuctions ==
  /\ user = "browses"
  /\ page.past = {}
  /\ Rendered([page EXCEPT !.past = {auctions[i].noun : i \in DOMAIN auctions}], status)
  /\ UNCHANGED <<auctions, now, wire, missed, reading, asking, sent, user>>

-------------------------------------------------------------------------------
(* The user *)

\* the arrows, and the arrow keys
PrevAuction ==
  /\ user = "browses"
  /\ Shown(page) > 0
  /\ Rendered([setPrevOnDisplay(page) EXCEPT !.route = Shown(page) - 1], status)
  /\ UNCHANGED <<auctions, now, wire, missed, reading, asking, sent, user>>

NextAuction ==
  /\ user = "browses"
  /\ Shown(page) # -1 /\ Shown(page) # page.last
  /\ Rendered([setNextOnDisplay(page) EXCEPT !.route = Shown(page) + 1], status)
  /\ UNCHANGED <<auctions, now, wire, missed, reading, asking, sent, user>>

\* another route within the app: the store is kept
VisitAuction(route) ==
  /\ user = "browses"
  /\ route # page.route
  /\ Rendered([page EXCEPT !.route = route], status)
  /\ UNCHANGED <<auctions, now, wire, missed, reading, asking, sent, user>>

LotEnded(p) == now >= p.active.end

TypeBid(value) ==
  /\ user = "bids"
  /\ FormShown(page) /\ ~LotEnded(page)
  /\ value # input
  /\ input' = value
  /\ UNCHANGED <<auctions, now, wire, missed, reading, page, status, asking, sent, truthful, user>>

\* until the gas is estimated and the wallet has signed the button stays enabled
PlaceBid ==
  /\ user = "bids"
  /\ FormShown(page) /\ ~LotEnded(page)
  /\ status # "Mining"
  /\ input > page.active.amount
  /\ Cardinality(asking) + Cardinality(sent) < MaxSent
  /\ asking' = asking \cup {[noun |-> page.active.noun, value |-> input]}
  /\ UNCHANGED <<auctions, now, wire, missed, reading, page, input, status, sent, truthful, user>>

SendBid(b) ==
  /\ asking' = asking \ {b}
  /\ sent' = sent \cup {[bid |-> b, state |-> "pending"]}
  /\ Rendered(page, "Mining")
  /\ UNCHANGED <<auctions, now, wire, missed, reading, user>>

\* the estimate fails, which nobody handles, or the user declines
DeclineBid(b) ==
  /\ asking' = asking \ {b}
  /\ status' \in {status, "Exception"}
  /\ UNCHANGED <<auctions, now, wire, missed, reading, page, input, sent, truthful, user>>

MineBid(s) ==
  /\ s.state = "pending"
  /\ LET taken == s.bid.noun = Lot.noun /\ Accepts(s.bid.value)
     IN /\ sent' = (sent \ {s}) \cup
                   {[s EXCEPT !.state = IF taken THEN "Success" ELSE "Fail"]}
        /\ IF taken THEN BidPlaced(Me, s.bid.value) ELSE UNCHANGED <<auctions, wire, missed>>
  /\ UNCHANGED <<now, reading, page, input, status, asking, truthful, user>>

BidReceipt(s) ==
  /\ s.state # "pending"
  /\ sent' = sent \ {s}
  /\ Rendered(page, s.state)
  /\ UNCHANGED <<auctions, now, wire, missed, reading, asking, user>>

PageNext ==
  \/ \E by \in Rivals, value \in BidValues : RivalBids(by, value)
  \/ TimePasses \/ SettleAuction \/ CreateAuction
  \/ FetchAuction \/ QueryBids \/ Subscribe \/ LoadPastAuctions
  \/ \E b \in reading : ReadBid(b) \/ LoseBid(b)
  \/ wire # <<>> /\ \E e \in Head(wire) : DeliverEvent(e)
  \/ PrevAuction \/ NextAuction
  \/ \E route \in Routes \cup {-1} : VisitAuction(route)
  \/ \E value \in BidValues \cup {0} : TypeBid(value)
  \/ PlaceBid
  \/ \E b \in asking : SendBid(b) \/ DeclineBid(b)
  \/ \E s \in sent : MineBid(s) \/ BidReceipt(s)

PageSpec == PageInit /\ [][PageNext]_pageVars

-------------------------------------------------------------------------------

\* who may stand beside the noun: auction() still says nobody when the event
\* has given a noun without bids away
Leaders(a) == {ChainAuction(a).bidder} \cup IF a.settled THEN {Winner(a)} ELSE {}

QuietPageIsChains ==
  (page.stage = "on" /\ wire = <<>> /\ reading = {} /\ Lot.noun \notin missed) =>
    /\ page.active.bidder \in Leaders(Lot)
    /\ page.active = [ChainAuction(Lot) EXCEPT !.bidder = page.active.bidder]
    /\ page.bids = Lot.bids /\ page.last = Lot.noun

(***************************************************************************)
(* Once the page is subscribed, everything on its way has arrived and      *)
(* nothing of the current noun's happened before it subscribed or could    *)
(* not be read, the page's auction is the chain's: the same noun, bids,    *)
(* highest bid, end and settlement, in whichever order the blocks of the   *)
(* bids were fetched and the events of a block arrived.  Its bidder is the *)
(* contract's too, unless the noun was settled without a bid: then a page  *)
(* that saw the settlement names the hall of fame, one that came later     *)
(* nobody.  And the user is told of a success only of a bid of theirs      *)
(* which the auction house has taken for that noun, however late bids for  *)
(* the noun before are read and whatever is typed into the form in the     *)
(* meantime (slices/auction.ts, ChainSubscriber and components/Bid).       *)
(***************************************************************************)
PageTellsChain == QuietPageIsChains /\ truthful
===============================================================================
