------------------------------ MODULE Bots_proofs ------------------------------
(***************************************************************************)
(* The programs that run off the chain.                                    *)
(*                                                                         *)
(* What the bots say, proved for any number of ticks and jobs, bids and    *)
(* voters, and for every choice of the bounds.                             *)
(*                                                                         *)
(* The auction half, while no tick starts before its turn: at most one     *)
(* tick is under way, it knows what is in the caches until it has written  *)
(* them, whatever was announced is not beyond the caches, and the thread   *)
(* is that of the lot in the cache.  For this the order of the bids counts *)
(* (an older lot has older bids, the last bid of the lot on sale is the    *)
(* last of all), so the invariant has the history of the subgraph in it.   *)
(*                                                                         *)
(* The governance half: whatever a job has read is a past of what the      *)
(* subgraph holds now, and what the copy in Redis says was dealt with.     *)
(*                                                                         *)
(* What the deployment tasks leave, proved for any number of other         *)
(* transactions of the account.  The addresses of the contracts deployed   *)
(* so far are never less than expected, and as far from each other as in   *)
(* the list at least: so the two that are compared with the expected ones  *)
(* vouch for those before them.                                            *)
(*                                                                         *)
(* What becomes of an image, proved for images of every size and every     *)
(* number of colors that a byte can hold.  The runs of the encoder are     *)
(* joined by the positions where they end: between two of them all indexes *)
(* are equal, so a run draws what the indexes up to its end say, and the   *)
(* indexes say it of any extension of the palette they were made with.     *)
(***************************************************************************)
EXTENDS AuctionBot, GovernanceBot, Deployment, NounImages, DataTheorems, SequenceTheorems

------------------------------------------------------------
(* THE AUCTION HALF                                                        *)

(* Types                                                                   *)

Bids == Hashes \cup {NoBid}

AuctionType ==
  [amount : Nat, bidder : Bids, startTime : Nat, endTime : Nat, settled : BOOLEAN]

BidType == [auction : Nat, bidder : Hashes, amount : Nat, blockNumber : Nat]

TickPlaces ==
  {"idle", "asking", "answered", "cached lot", "counting", "cached bid", "announced bid",
   "cached ending"}

TickType ==
  [at : TickPlaces, cached : [auction : Nat, bid : Bids, ending : Nat], lot : Nat, bid : Bids]

AuctionBotTyped ==
  /\ endsSoon \in BOOLEAN
  /\ cache \in [auction : Nat, bid : Bids, ending : Nat, reply : Nat]
  /\ tick \in [Ticks -> TickType]
  /\ setup \in [at : {"start", "asked", "done"}, lot : Nat]
  /\ posts \in [Media \X Subjects -> 0 .. 2]
  /\ replies \in [Hashes -> Nat]
  /\ glitches \in Nat /\ mishaps \in Nat /\ overlaps \in Nat

------------------------------------------------------------
(* The subgraph: the lots came one by one, the blocks of the bids likewise *)

Later(g, h) ==
  \/ store.bids[g].blockNumber < store.bids[h].blockNumber
  \/ store.bids[g].blockNumber = store.bids[h].blockNumber /\ h < g

StoreTyped ==
  /\ store \in [nouns : SUBSET Nat,
                auctions : UNION {[1 .. n -> AuctionType] : n \in Nat \ {0}},
                bids : UNION {[S -> BidType] : S \in SUBSET Hashes}]
  /\ \A lot \in DOMAIN store.auctions : store.auctions[lot].startTime = lot
  /\ \E n \in Nat : Blocks = 1 .. n

\* an older lot has older bids, and among those of one lot one is the last
BidsInOrder ==
  /\ \A h \in DOMAIN store.bids : store.bids[h].auction \in DOMAIN store.auctions
  /\ \A g, h \in DOMAIN store.bids :
       store.bids[g].auction < store.bids[h].auction
         => store.bids[g].blockNumber < store.bids[h].blockNumber
  /\ \A lot \in DOMAIN store.auctions :
       BidsOn(store, lot) # {} =>
         \E h \in BidsOn(store, lot) : \A g \in BidsOn(store, lot) \ {h} : Later(g, h)

------------------------------------------------------------
(* While ticks do not overlap                                              *)

Single == overlaps = 0

OneTick ==
  /\ \A t, u \in Ticks : ~At(t, "idle") /\ ~At(u, "idle") => t = u
  /\ \A t \in Ticks : ~At(t, "idle") => setup.at = "done"

NotLater(g, h) ==
  /\ g \in DOMAIN store.bids /\ h \in DOMAIN store.bids
  /\ g = h \/ Later(g, h)

Unposted(kind, subject) ==
  \A p \in Media \X Subjects : p[2] = [kind |-> kind, of |-> subject] => posts[p] = 0

\* the caches have what is on sale, at most
CacheIsPast ==
  /\ cache.auction <= LastAuction(store)
  /\ setup.at = "asked" => cache.auction <= setup.lot /\ setup.lot <= LastAuction(store)
  /\ cache.bid # NoBid => cache.bid \in DOMAIN store.bids

\* what was announced is in the caches, and was announced once
PostedIsCached ==
  \A p \in Media \X Subjects :
    /\ posts[p] <= 1
    /\ posts[p] > 0 =>
         /\ p[2].kind = "lot" => p[2].of <= cache.auction
         /\ p[2].kind = "ending" => p[2].of <= cache.ending
         /\ p[2].kind = "bid" => NotLater(p[2].of, cache.bid)

\* until it has written a cache a tick knows what is in it, and when it has
\* written it, the announcement is still to be made
TickKnows(t) ==
  LET place == tick[t].at
      lot == tick[t].lot
      bid == tick[t].bid
      cached == tick[t].cached
  IN  /\ place \in {"asking", "answered"} => cached.auction = cache.auction
      /\ place \in {"asking", "answered", "cached lot", "counting"} => cached.bid = cache.bid
      /\ place \notin {"idle", "cached ending"} => cached.ending = cache.ending
      /\ place \notin {"idle", "asking"} =>
           /\ lot <= LastAuction(store) /\ cache.auction <= lot
           /\ bid # NoBid => bid \in BidsOn(store, lot)
      /\ place \in {"answered", "cached lot", "counting"} =>
           (bid # NoBid /\ cache.bid # NoBid => NotLater(cache.bid, bid))
      /\ place \in {"cached lot", "counting", "cached bid"} => cache.auction = lot
      /\ place = "cached lot" => Unposted("lot", lot)
      /\ place = "cached bid" => cache.bid = bid /\ bid # NoBid /\ Unposted("bid", bid)
      /\ place = "cached ending" => cache.ending = lot /\ Unposted("ending", lot)

SingleInv ==
  Single => /\ OneTick /\ CacheIsPast /\ PostedIsCached
            /\ \A t \in Ticks : TickKnows(t)

------------------------------------------------------------
(* The thread                                                              *)

\* no tick has cached a lot that is still to be announced
ThreadIsOpen == \A t \in Ticks : ~At(t, "cached lot")

ThreadInv ==
  /\ Single => \A h \in Hashes : replies[h] # NoLot => h \in DOMAIN store.bids
  /\ Single /\ mishaps = 0 =>
       /\ setup.at # "done" => cache.auction = NoLot /\ cache.reply = NoLot
       /\ ThreadIsOpen => cache.reply \in {NoLot, cache.auction}
       /\ \A h \in DOMAIN store.bids : replies[h] \in {NoLot, store.bids[h].auction}

AuctionBotInv ==
  AuctionBotTyped /\ StoreTyped /\ BidsInOrder /\ SingleInv /\ ThreadInv

------------------------------------------------------------
(* The subgraph's answers                                                  *)

\* Lots that start one after the other: the last one is the one of highest id.
LEMMA LotsOnSale ==
  ASSUME NEW s, NEW n \in Nat \ {0}, DOMAIN s.auctions = 1 .. n,
         \A lot \in 1 .. n : s.auctions[lot].startTime = lot
  PROVE  LastAuction(s) = n
<1>1. n \in DOMAIN s.auctions
      /\ \A other \in DOMAIN s.auctions : s.auctions[other].startTime <= s.auctions[n].startTime
      BY DEF LastAuction
<1>2. \A m \in DOMAIN s.auctions :
        (\A other \in DOMAIN s.auctions : s.auctions[other].startTime <= s.auctions[m].startTime)
          => m = n
  <2> SUFFICES ASSUME NEW m \in 1 .. n,
                      \A other \in 1 .. n :
                        s.auctions[other].startTime <= s.auctions[m].startTime
               PROVE  m = n
      OBVIOUS
  <2>1. n <= m OBVIOUS
  <2> QED BY <2>1
<1> QED BY <1>1, <1>2 DEF LastAuction

\* What the subgraph holds.
LEMMA StoreIs ==
  ASSUME StoreTyped
  PROVE  /\ \E n \in Nat \ {0} :
              /\ store.auctions \in [1 .. n -> AuctionType] /\ DOMAIN store.auctions = 1 .. n
              /\ LastAuction(store) = n
         /\ store.bids \in [DOMAIN store.bids -> BidType]
         /\ DOMAIN store.bids \subseteq Hashes
         /\ LastAuction(store) \in Nat \ {0}
         /\ DOMAIN store.auctions = 1 .. LastAuction(store)
         /\ \A h \in DOMAIN store.bids : /\ store.bids[h].blockNumber \in Nat
                                         /\ store.bids[h].auction \in Nat
                                         /\ h \in Nat
<1>1. PICK n \in Nat \ {0} : store.auctions \in [1 .. n -> AuctionType] BY DEF StoreTyped
<1>2. DOMAIN store.auctions = 1 .. n BY <1>1
<1>3. LastAuction(store) = n BY <1>1, <1>2, LotsOnSale DEF StoreTyped
<1>4. PICK S \in SUBSET Hashes : store.bids \in [S -> BidType] BY DEF StoreTyped
<1>5. DOMAIN store.bids = S BY <1>4
<1>6. \A h \in S : store.bids[h] \in BidType /\ h \in Nat BY <1>4, AuctionBotConstants
<1> QED BY <1>1, <1>2, <1>3, <1>4, <1>5, <1>6 DEF BidType

\* The last bid of a lot with bids is the last of its last block; when the lot
\* on sale has bids, that one is the last of all.
LEMMA LastBidIsLast ==
  ASSUME StoreTyped, BidsInOrder, NEW lot \in DOMAIN store.auctions
  PROVE  /\ BidsOn(store, lot) = {} => LastBid(store, lot) = NoBid
         /\ BidsOn(store, lot) # {} =>
              /\ LastBid(store, lot) \in BidsOn(store, lot) /\ LastBid(store, lot) \in Hashes
              /\ \A g \in BidsOn(store, lot) \ {LastBid(store, lot)} :
                   Later(g, LastBid(store, lot))
              /\ lot = LastAuction(store) =>
                   \A g \in DOMAIN store.bids : NotLater(g, LastBid(store, lot))
<1>1. BidsOn(store, lot) = {} => LastBid(store, lot) = NoBid BY DEF LastBid
<1>2. ASSUME BidsOn(store, lot) # {}
      PROVE  /\ LastBid(store, lot) \in BidsOn(store, lot)
             /\ \A g \in BidsOn(store, lot) \ {LastBid(store, lot)} :
                  Later(g, LastBid(store, lot))
  <2> DEFINE IsLast(h) ==
        \A g \in BidsOn(store, lot) \ {h} :
          \/ store.bids[g].blockNumber < store.bids[h].blockNumber
          \/ store.bids[g].blockNumber = store.bids[h].blockNumber /\ h < g
  <2>1. \E h \in BidsOn(store, lot) : IsLast(h) BY <1>2 DEF BidsInOrder, Later
  <2>2. LastBid(store, lot) \in BidsOn(store, lot) /\ IsLast(LastBid(store, lot))
        BY <1>2, <2>1 DEF LastBid
  <2> QED BY <2>2 DEF Later
<1>3. BidsOn(store, lot) \subseteq DOMAIN store.bids /\ DOMAIN store.bids \subseteq Hashes
      BY StoreIs DEF BidsOn
<1>4. ASSUME BidsOn(store, lot) # {}, lot = LastAuction(store), NEW g \in DOMAIN store.bids
      PROVE  NotLater(g, LastBid(store, lot))
  <2>1. PICK b : b = LastBid(store, lot) OBVIOUS
  <2>2. b \in BidsOn(store, lot) /\ b \in DOMAIN store.bids /\ store.bids[b].auction = lot
        BY <1>2, <1>3, <1>4, <2>1 DEF BidsOn
  <2>3. CASE g \in BidsOn(store, lot) BY <1>2, <1>4, <2>1, <2>2, <2>3 DEF NotLater
  <2>4. CASE g \notin BidsOn(store, lot)
    <3>1. store.bids[g].auction # lot BY <2>4 DEF BidsOn
    <3>2. store.bids[g].auction \in 1 .. LastAuction(store) BY StoreIs DEF BidsInOrder
    <3>3. store.bids[g].auction < store.bids[b].auction
      <4>1. PICK a \in Nat, n \in Nat : a = store.bids[g].auction /\ n = lot
            BY <1>4, <3>2, StoreIs
      <4>2. a \in 1 .. n /\ a # n BY <1>4, <3>1, <3>2, <4>1
      <4>3. a < n BY <4>2
      <4> QED BY <2>2, <4>1, <4>3
    <3>4. Later(g, b) BY <2>2, <3>3 DEF BidsInOrder, Later
    <3> QED BY <2>1, <2>2, <3>4 DEF NotLater
  <2> QED BY <2>3, <2>4
<1> QED BY <1>1, <1>2, <1>3, <1>4

\* The order of the bids.
LEMMA LaterIsOrder ==
  ASSUME StoreTyped, NEW f, NEW g, NEW h, NotLater(f, g)
  PROVE  /\ NotLater(g, h) => NotLater(f, h)
         /\ NotLater(g, f) => f = g
         /\ NotLater(f, f)
<1>1. \A x \in DOMAIN store.bids : store.bids[x].blockNumber \in Nat /\ x \in Nat BY StoreIs
<1>2. f \in DOMAIN store.bids /\ g \in DOMAIN store.bids BY DEF NotLater
<1>3. ASSUME NotLater(g, h)
      PROVE  NotLater(f, h)
  <2>1. h \in DOMAIN store.bids BY <1>3 DEF NotLater
  <2>2. PICK a \in Nat, b \in Nat, c \in Nat :
          /\ a = store.bids[f].blockNumber /\ b = store.bids[g].blockNumber
          /\ c = store.bids[h].blockNumber
        BY <1>1, <1>2, <2>1
  <2>3. f = g \/ a < b \/ (a = b /\ g < f) BY <2>2 DEF NotLater, Later
  <2>4. g = h \/ b < c \/ (b = c /\ h < g) BY <1>3, <2>2 DEF NotLater, Later
  <2>5. PICK x \in Nat, y \in Nat, z \in Nat : x = f /\ y = g /\ z = h BY <1>1, <1>2, <2>1
  <2>7. (x = y /\ a = b) \/ a < b \/ (a = b /\ y < x) BY <2>2, <2>3, <2>5
  <2>8. (y = z /\ b = c) \/ b < c \/ (b = c /\ z < y) BY <2>2, <2>4, <2>5
  <2>9. x = z \/ a < c \/ (a = c /\ z < x) BY <2>7, <2>8
  <2>6. f = h \/ a < c \/ (a = c /\ h < f) BY <2>5, <2>9
  <2> QED BY <1>2, <2>1, <2>2, <2>6 DEF NotLater, Later
<1>4. ASSUME NotLater(g, f)
      PROVE  f = g
  <2>2. PICK a \in Nat, b \in Nat :
          a = store.bids[f].blockNumber /\ b = store.bids[g].blockNumber
        BY <1>1, <1>2
  <2>3. f = g \/ a < b \/ (a = b /\ g < f) BY <2>2 DEF NotLater, Later
  <2>4. g = f \/ b < a \/ (b = a /\ f < g) BY <1>4, <2>2 DEF NotLater, Later
  <2>5. f \in Nat /\ g \in Nat BY <1>1, <1>2
  <2> QED BY <2>3, <2>4, <2>5
<1> QED BY <1>2, <1>3, <1>4 DEF NotLater

------------------------------------------------------------
(* The auction house moves on                                              *)

HouseStep ==
  \/ LotAuctioned
  \/ \E hashes \in SUBSET Hashes, extending \in BOOLEAN :
       Cardinality(hashes) \in 1 .. 2 /\ BidsPlaced(hashes, extending)
  \/ TimePasses

\* One or two bids in a new block keep the order.
LEMMA NewBlockInOrder ==
  ASSUME StoreTyped, BidsInOrder, NEW n \in Nat, Blocks = 1 .. n,
         NEW new \in SUBSET (Hashes \ DOMAIN store.bids), NEW one \in new, NEW two \in new,
         new = {one, two},
         store'.bids \in [DOMAIN store.bids \cup new -> BidType],
         \A h \in DOMAIN store.bids : store'.bids[h] = store.bids[h],
         \A h \in new : /\ store'.bids[h].auction = LastAuction(store)
                        /\ store'.bids[h].blockNumber = n + 1,
         DOMAIN store'.auctions = DOMAIN store.auctions
  PROVE  BidsInOrder' /\ Blocks' = 1 .. n + 1
<1>1. DOMAIN store'.bids = DOMAIN store.bids \cup new OBVIOUS
<1>2. PICK last \in Nat \ {0} : LastAuction(store) = last /\ DOMAIN store.auctions = 1 .. last
      BY StoreIs
<1>3. \A h \in DOMAIN store.bids :
        store.bids[h].blockNumber \in 1 .. n /\ store.bids[h].auction \in 1 .. last
      BY <1>2 DEF Blocks, BidsInOrder
<1>4. Blocks' = 1 .. n + 1
  <2>1. Blocks' = {store'.bids[h].blockNumber : h \in DOMAIN store.bids}
                    \cup {store'.bids[h].blockNumber : h \in new}
        BY <1>1 DEF Blocks
  <2>2. {store'.bids[h].blockNumber : h \in DOMAIN store.bids} = 1 .. n BY DEF Blocks
  <2>3. {store'.bids[h].blockNumber : h \in new} = {n + 1} OBVIOUS
  <2>4. (1 .. n) \cup {n + 1} = 1 .. n + 1 OBVIOUS
  <2> QED BY <2>1, <2>2, <2>3, <2>4
<1>5. \A h \in DOMAIN store'.bids : store'.bids[h].auction \in DOMAIN store'.auctions
      BY <1>1, <1>2, <1>3
<1>6. ASSUME NEW g \in DOMAIN store'.bids, NEW h \in DOMAIN store'.bids,
             store'.bids[g].auction < store'.bids[h].auction
      PROVE  store'.bids[g].blockNumber < store'.bids[h].blockNumber
  <2>1. CASE g \in DOMAIN store.bids /\ h \in DOMAIN store.bids
        BY <1>6, <2>1 DEF BidsInOrder
  <2>2. CASE g \in DOMAIN store.bids /\ h \in new
    <3>1. PICK b \in 1 .. n : b = store'.bids[g].blockNumber BY <1>3, <2>2
    <3>2. b < n + 1 OBVIOUS
    <3> QED BY <2>2, <3>1, <3>2
  <2>3. CASE g \in new
    <3>1. store'.bids[g].auction = last BY <1>2, <2>3
    <3>2. PICK a \in 1 .. last : a = store'.bids[h].auction
          BY <1>1, <1>2, <1>3
    <3>3. ~(last < a) OBVIOUS
    <3> QED BY <1>6, <3>1, <3>2, <3>3
  <2> QED BY <1>1, <2>1, <2>2, <2>3
<1>7. ASSUME NEW lot \in DOMAIN store'.auctions, BidsOn(store', lot) # {}
      PROVE  \E h \in BidsOn(store', lot) : \A g \in BidsOn(store', lot) \ {h} : Later(g, h)'
  <2>1. CASE lot # last
    <3>1. BidsOn(store', lot) = BidsOn(store, lot) BY <1>1, <1>2, <2>1 DEF BidsOn
    <3>2. PICK h \in BidsOn(store, lot) : \A g \in BidsOn(store, lot) \ {h} : Later(g, h)
          BY <1>7, <3>1 DEF BidsInOrder
    <3>3. \A g \in BidsOn(store, lot) \ {h} : Later(g, h)' BY <3>2 DEF Later, BidsOn
    <3> QED BY <3>1, <3>2, <3>3
  <2>2. CASE lot = last
    <3>1. new \subseteq BidsOn(store', lot) BY <1>1, <1>2, <2>2 DEF BidsOn
    <3>2. PICK top \in new : \A h \in new : h = top \/ top < h
      <4>1. one \in Nat /\ two \in Nat BY AuctionBotConstants
      <4>2. one = two \/ one < two \/ two < one BY <4>1
      <4> QED BY <4>2
    <3>3. ASSUME NEW g \in BidsOn(store', lot) \ {top}
          PROVE  Later(g, top)'
      <4>1. CASE g \in new BY <3>2, <3>3, <4>1 DEF Later
      <4>2. CASE g \notin new
        <5>1. PICK b \in 1 .. n : b = store'.bids[g].blockNumber
              BY <1>1, <1>3, <4>2 DEF BidsOn
        <5>2. b < n + 1 OBVIOUS
        <5> QED BY <5>1, <5>2 DEF Later
      <4> QED BY <4>1, <4>2
    <3> QED BY <3>1, <3>3
  <2> QED BY <2>1, <2>2
<1> QED BY <1>4, <1>5, <1>6, <1>7 DEF BidsInOrder

Shape(n, S) ==
  [nouns : SUBSET Nat, auctions : [1 .. n -> AuctionType], bids : [S -> BidType]]

SameStarts(n, s, t) ==
  \A lot \in 1 .. n : t.auctions[lot].startTime = s.auctions[lot].startTime

BidAdded(S, s, t, lot, hash, block) ==
  /\ t.bids[hash].auction = lot /\ t.bids[hash].blockNumber = block
  /\ \A h \in S : h # hash => t.bids[h] = s.bids[h]

\* A bid is saved, and the auction it is on.
LEMMA BidMeans ==
  ASSUME NEW n \in Nat \ {0}, NEW S \in SUBSET Hashes, NEW s \in Shape(n, S),
         NEW lot \in 1 .. n, NEW value \in Nat, NEW hash \in Hashes, NEW block \in Nat,
         NEW t, t = handleAuctionBid(s, lot, hash, value, hash, block)
  PROVE  /\ t \in Shape(n, S \cup {hash})
         /\ BidAdded(S, s, t, lot, hash, block)
         /\ SameStarts(n, s, t)
<1>1. PICK auctions \in [1 .. n -> AuctionType], bids \in [S -> BidType] :
        auctions = s.auctions /\ bids = s.bids
      BY DEF Shape
<1>2. PICK bid \in BidType :
        bid = [auction |-> lot, bidder |-> hash, amount |-> value, blockNumber |-> block]
  <2>1. lot \in Nat OBVIOUS
  <2> QED BY <2>1 DEF BidType
<1>3. PICK saved : saved = Saved(bids, hash, bid) OBVIOUS
<1>4. /\ saved \in [S \cup {hash} -> BidType] /\ saved[hash] = bid
      /\ \A k \in S : k # hash => saved[k] = bids[k]
      BY <1>3 DEF Saved
<1>5. PICK auction : auction = [auctions[lot] EXCEPT !.amount = value, !.bidder = hash]
      OBVIOUS
<1>6. auction \in AuctionType /\ auction.startTime = auctions[lot].startTime
  <2>1. auctions[lot] \in AuctionType OBVIOUS
  <2> QED BY <1>5, <2>1 DEF AuctionType, Bids
<1>7. handleAuctionBid(s, lot, hash, value, hash, block) =
        [s EXCEPT !.auctions = [auctions EXCEPT ![lot] = auction], !.bids = saved]
  <2>1. lot \in DOMAIN s.auctions BY <1>1
  <2>2. handleAuctionBid(s, lot, hash, value, hash, block) =
          [s EXCEPT !.auctions[lot].amount = value, !.auctions[lot].bidder = hash,
                    !.bids = Saved(@, hash, bid)]
        BY <1>2, <2>1 DEF handleAuctionBid
  <2>3. [[auctions EXCEPT ![lot].amount = value] EXCEPT ![lot].bidder = hash]
          = [auctions EXCEPT ![lot] = auction]
        BY <1>5
  <2> QED BY <1>1, <1>3, <2>2, <2>3 DEF Shape
<1>8. PICK after \in [1 .. n -> AuctionType] : after = [auctions EXCEPT ![lot] = auction]
      BY <1>6
<1>9. \A l \in 1 .. n : after[l].startTime = auctions[l].startTime BY <1>6, <1>8
<1>10. t = [s EXCEPT !.auctions = after, !.bids = saved] BY <1>7, <1>8
<1>11. t \in Shape(n, S \cup {hash}) /\ t.auctions = after /\ t.bids = saved
       BY <1>4, <1>10 DEF Shape
<1>12. saved[hash].auction = lot /\ saved[hash].blockNumber = block BY <1>2, <1>4
<1>13. t.bids[hash].auction = lot /\ t.bids[hash].blockNumber = block BY <1>11, <1>12
<1>14. \A k \in S : k # hash => t.bids[k] = s.bids[k] BY <1>1, <1>4, <1>11
<1>15. SameStarts(n, s, t) BY <1>1, <1>9, <1>11 DEF SameStarts
<1> QED BY <1>11, <1>13, <1>14, <1>15 DEF BidAdded

\* An auction is extended.
LEMMA ExtendedMeans ==
  ASSUME NEW n \in Nat \ {0}, NEW S \in SUBSET Hashes, NEW s \in Shape(n, S),
         NEW lot \in 1 .. n, NEW endTime \in Nat,
         NEW t, t = handleAuctionExtended(s, lot, endTime)
  PROVE  t \in Shape(n, S) /\ t.bids = s.bids /\ SameStarts(n, s, t)
<1>1. PICK auctions \in [1 .. n -> AuctionType] : auctions = s.auctions BY DEF Shape
<1>2. PICK auction : auction = [auctions[lot] EXCEPT !.endTime = endTime] OBVIOUS
<1>3. auction \in AuctionType /\ auction.startTime = auctions[lot].startTime
  <2>1. auctions[lot] \in AuctionType OBVIOUS
  <2> QED BY <1>2, <2>1 DEF AuctionType
<1>4. handleAuctionExtended(s, lot, endTime) =
        [s EXCEPT !.auctions = [auctions EXCEPT ![lot] = auction]]
      BY <1>1, <1>2 DEF handleAuctionExtended, Shape
<1>5. PICK after \in [1 .. n -> AuctionType] : after = [auctions EXCEPT ![lot] = auction]
      BY <1>3
<1>6. \A l \in 1 .. n : after[l].startTime = auctions[l].startTime BY <1>3, <1>5
<1>7. t = [s EXCEPT !.auctions = after] BY <1>4, <1>5
<1>8. t \in Shape(n, S) /\ t.auctions = after /\ t.bids = s.bids BY <1>7 DEF Shape
<1> QED BY <1>1, <1>6, <1>8 DEF SameStarts

\* A lot is settled, the next is minted and put up.
LEMMA NextLotMeans ==
  ASSUME NEW n \in Nat \ {0}, NEW S \in SUBSET Hashes, NEW s \in Shape(n, S),
         NEW t, t = handleAuctionCreated(NounMinted(handleAuctionSettled(s, n), n + 1),
                                         n + 1, n + 1, n + 2)
  PROVE  /\ t \in Shape(n + 1, S) /\ t.bids = s.bids
         /\ t.auctions[n + 1].startTime = n + 1
         /\ \A l \in 1 .. n : t.auctions[l].startTime = s.auctions[l].startTime
<1>1. PICK auctions \in [1 .. n -> AuctionType], nouns \in SUBSET Nat :
        auctions = s.auctions /\ nouns = s.nouns
      BY DEF Shape
<1>2. PICK auction : auction = [auctions[n] EXCEPT !.settled = TRUE] OBVIOUS
<1>3. auction \in AuctionType /\ auction.startTime = auctions[n].startTime
  <2>1. auctions[n] \in AuctionType OBVIOUS
  <2> QED BY <1>2, <2>1 DEF AuctionType
<1>4. PICK settled \in [1 .. n -> AuctionType] : settled = [auctions EXCEPT ![n] = auction]
      BY <1>3
<1>5. \A l \in 1 .. n : settled[l].startTime = auctions[l].startTime BY <1>3, <1>4
<1>6. PICK new \in AuctionType :
        /\ new = [amount |-> 0, bidder |-> NoBid, startTime |-> n + 1, endTime |-> n + 2,
                  settled |-> FALSE]
        /\ new.startTime = n + 1
  <2>1. n + 1 \in Nat /\ n + 2 \in Nat OBVIOUS
  <2>2. PICK start \in Nat, end \in Nat : start = n + 1 /\ end = n + 2 BY <2>1
  <2>3. PICK new : new = [amount |-> 0, bidder |-> NoBid, startTime |-> start,
                          endTime |-> end, settled |-> FALSE]
        OBVIOUS
  <2>4. new \in AuctionType /\ new.startTime = start BY <2>3 DEF AuctionType, Bids
  <2> QED BY <2>2, <2>3, <2>4
<1>7. PICK u : u = [s EXCEPT !.auctions = settled, !.nouns = nouns \cup {n + 1}] OBVIOUS
<1>8. /\ u.nouns = nouns \cup {n + 1} /\ u.auctions = settled /\ u.bids = s.bids
      /\ u = [nouns |-> u.nouns, auctions |-> settled, bids |-> s.bids]
      BY <1>7 DEF Shape
<1>9. NounMinted(handleAuctionSettled(s, n), n + 1) = u
  <2>1. handleAuctionSettled(s, n) = [s EXCEPT !.auctions = settled]
        BY <1>1, <1>2, <1>4 DEF handleAuctionSettled, Shape
  <2> QED BY <1>1, <1>7, <2>1 DEF NounMinted, Shape
<1>10. PICK saved : saved = Saved(settled, n + 1, new) OBVIOUS
<1>11. /\ saved \in [(1 .. n) \cup {n + 1} -> AuctionType] /\ saved[n + 1] = new
       /\ \A l \in 1 .. n : l # n + 1 => saved[l] = settled[l]
       BY <1>10 DEF Saved
<1>12. (1 .. n) \cup {n + 1} = 1 .. n + 1 OBVIOUS
<1>13. handleAuctionCreated(u, n + 1, n + 1, n + 2) = [u EXCEPT !.auctions = saved]
       BY <1>6, <1>8, <1>10 DEF handleAuctionCreated
<1>14. t = [u EXCEPT !.auctions = saved] BY <1>9, <1>13
<1>15. t \in Shape(n + 1, S) /\ t.bids = s.bids /\ t.auctions = saved
  <2>1. PICK bids \in [S -> BidType] : bids = s.bids BY DEF Shape
  <2>2. PICK m \in Nat : m = n + 1 OBVIOUS
  <2>3. PICK minted \in SUBSET Nat : minted = nouns \cup {n + 1} BY <2>2
  <2>4. t = [nouns |-> minted, auctions |-> saved, bids |-> bids]
        BY <1>8, <1>14, <2>1, <2>3
  <2>5. saved \in [1 .. m -> AuctionType] BY <1>11, <1>12, <2>2
  <2>8. [nouns |-> minted, auctions |-> saved, bids |-> bids] \in
          [nouns : SUBSET Nat, auctions : [1 .. m -> AuctionType], bids : [S -> BidType]]
        BY <2>5
  <2>6. t \in Shape(m, S) BY <2>4, <2>8 DEF Shape
  <2>7. t.bids = bids /\ t.auctions = saved BY <2>4
  <2> QED BY <2>1, <2>2, <2>6, <2>7
<1>16. \A l \in 1 .. n : l # n + 1 OBVIOUS
<1> QED BY <1>1, <1>5, <1>6, <1>11, <1>15, <1>16

\* The subgraph after an event of the auction house.
LEMMA HouseMovesOn ==
  ASSUME StoreTyped, BidsInOrder, HouseStep
  PROVE  /\ StoreTyped' /\ BidsInOrder' /\ UNCHANGED houseUnseen
         /\ LastAuction(store) <= LastAuction(store')
         /\ \A h \in DOMAIN store.bids :
              h \in DOMAIN store'.bids /\ store'.bids[h] = store.bids[h]
         /\ endsSoon \in BOOLEAN => endsSoon' \in BOOLEAN
<1>1. PICK n \in Nat \ {0}, S \in SUBSET Hashes :
        store \in Shape(n, S) /\ store.auctions \in [1 .. n -> AuctionType]
        /\ store.bids \in [S -> BidType]
  <2>1. PICK n \in Nat \ {0} : store.auctions \in [1 .. n -> AuctionType] BY DEF StoreTyped
  <2>2. PICK S \in SUBSET Hashes : store.bids \in [S -> BidType] BY DEF StoreTyped
  <2> QED BY <2>1, <2>2 DEF StoreTyped, Shape
<1>2. DOMAIN store.auctions = 1 .. n /\ DOMAIN store.bids = S BY <1>1
<1>3. LastAuction(store) = n BY <1>2, LotsOnSale DEF StoreTyped
<1>4. PICK b \in Nat : Blocks = 1 .. b BY DEF StoreTyped
<1>5. CASE LotAuctioned
  <2>1. /\ store' \in Shape(n + 1, S) /\ store'.bids = store.bids
        /\ store'.auctions[n + 1].startTime = n + 1
        /\ \A l \in 1 .. n : store'.auctions[l].startTime = store.auctions[l].startTime
        BY <1>1, <1>3, <1>5, NextLotMeans DEF LotAuctioned
  <2>2. UNCHANGED houseUnseen /\ endsSoon' \in BOOLEAN BY <1>5 DEF LotAuctioned
  <2>3. store'.auctions \in [1 .. n + 1 -> AuctionType] /\ DOMAIN store'.auctions = 1 .. n + 1
        BY <2>1 DEF Shape
  <2>4. \A l \in 1 .. n + 1 : store'.auctions[l].startTime = l
    <3>1. \A l \in 1 .. n + 1 : l = n + 1 \/ l \in 1 .. n OBVIOUS
    <3>2. \A l \in 1 .. n : store.auctions[l].startTime = l BY <1>2 DEF StoreTyped
    <3> QED BY <2>1, <3>1, <3>2
  <2>5. LastAuction(store') = n + 1 BY <2>3, <2>4, LotsOnSale
  <2>6. Blocks' = Blocks BY <2>1 DEF Blocks
  <2>7. StoreTyped'
    <3>1. n + 1 \in Nat \ {0} OBVIOUS
    <3>2. store' \in [nouns : SUBSET Nat,
                auctions : UNION {[1 .. m -> AuctionType] : m \in Nat \ {0}},
                bids : UNION {[R -> BidType] : R \in SUBSET Hashes}]
          BY <2>1, <3>1 DEF Shape
    <3> QED BY <1>4, <2>3, <2>4, <2>6, <3>2 DEF StoreTyped
  <2>8. BidsInOrder'
    <3>1. \A h \in S : store.bids[h].auction \in 1 .. n BY <1>2 DEF BidsInOrder
    <3>2. 1 .. n \subseteq 1 .. n + 1 /\ n + 1 \notin 1 .. n OBVIOUS
    <3>3. \A l : BidsOn(store', l) = BidsOn(store, l) BY <2>1 DEF BidsOn
    <3>10. \A h \in S : store.bids[h].auction # n + 1 BY <3>1, <3>2
    <3>11. BidsOn(store, n + 1) = {} BY <1>2, <3>10 DEF BidsOn
    <3>4. BidsOn(store', n + 1) = {} BY <3>3, <3>11
    <3>5. \A l \in 1 .. n + 1 : l \in 1 .. n \/ l = n + 1 OBVIOUS
    <3>6. \A g, h : Later(g, h)' <=> Later(g, h) BY <2>1 DEF Later
    <3>7. \A l \in 1 .. n + 1 : BidsOn(store', l) # {} =>
            \E h \in BidsOn(store', l) : \A g \in BidsOn(store', l) \ {h} : Later(g, h)'
          BY <1>2, <3>3, <3>4, <3>5, <3>6 DEF BidsInOrder
    <3>8. \A h \in DOMAIN store'.bids : store'.bids[h].auction \in DOMAIN store'.auctions
          BY <1>2, <2>1, <2>3, <3>1, <3>2
    <3>9. \A g, h \in DOMAIN store'.bids :
            store'.bids[g].auction < store'.bids[h].auction
              => store'.bids[g].blockNumber < store'.bids[h].blockNumber
          BY <2>1 DEF BidsInOrder
    <3> QED BY <2>3, <3>7, <3>8, <3>9 DEF BidsInOrder
  <2> QED BY <1>3, <2>1, <2>2, <2>5, <2>7, <2>8
<1>6. ASSUME NEW hashes \in SUBSET Hashes, NEW extending \in BOOLEAN,
             Cardinality(hashes) \in 1 .. 2, BidsPlaced(hashes, extending)
      PROVE  /\ StoreTyped' /\ BidsInOrder' /\ UNCHANGED houseUnseen
             /\ LastAuction(store) <= LastAuction(store')
             /\ \A h \in DOMAIN store.bids :
                  h \in DOMAIN store'.bids /\ store'.bids[h] = store.bids[h]
             /\ UNCHANGED endsSoon
  <2>1. UNCHANGED <<endsSoon, houseUnseen>> BY <1>6 DEF BidsPlaced
  <2>2. Cardinality(Blocks) + 1 = b + 1
    <3>1. Cardinality(1 .. b) = IF 1 > b THEN 0 ELSE b - 1 + 1 BY FS_Interval
    <3>2. Cardinality(1 .. b) = b BY <3>1
    <3> QED BY <1>4, <3>2
  <2>3. hashes # {} BY <1>6, FS_EmptySet
  <2>4. PICK one \in hashes : one = CHOOSE h \in hashes : TRUE BY <2>3
  <2>5. PICK two \in hashes :
          two = IF hashes = {one} THEN one ELSE CHOOSE h \in hashes \ {one} : TRUE
        BY <2>3
  <2>6. hashes \subseteq Hashes \ S BY <1>2, <1>6 DEF BidsPlaced
  <2>7. PICK first : first = handleAuctionBid(store, n, one, 10 * (b + 1) + one, one, b + 1)
        OBVIOUS
  <2>8. /\ first \in Shape(n, S \cup {one})
        /\ first.bids[one].auction = n /\ first.bids[one].blockNumber = b + 1
        /\ \A k \in S : first.bids[k] = store.bids[k]
        /\ \A l \in 1 .. n : first.auctions[l].startTime = store.auctions[l].startTime
    <3>1. one \in Nat /\ one \in Hashes /\ one \notin S BY <2>6, AuctionBotConstants
    <3>2. PICK value \in Nat, block \in Nat :
            value = 10 * (b + 1) + one /\ block = b + 1
          BY <3>1
    <3>3. PICK held \in Shape(n, S) : held = store BY <1>1
    <3>4. first = handleAuctionBid(held, n, one, value, one, block) BY <2>7, <3>2, <3>3
    <3>5. n \in 1 .. n OBVIOUS
    <3>7. held \in Shape(n, S) /\ one \in Hashes BY <3>1, <3>3
    <3>6. /\ first \in Shape(n, S \cup {one})
          /\ BidAdded(S, held, first, n, one, block) /\ SameStarts(n, held, first)
          BY <3>4, <3>5, <3>7, BidMeans
    <3> QED BY <3>1, <3>2, <3>3, <3>6 DEF BidAdded, SameStarts
  <2>9. PICK second :
          second = IF hashes = {one} THEN first
                   ELSE handleAuctionBid(first, n, two, 10 * (b + 1) + two, two, b + 1)
        OBVIOUS
  <2>10. /\ second \in Shape(n, S \cup {one, two})
         /\ \A h \in {one, two} : /\ second.bids[h].auction = n
                                  /\ second.bids[h].blockNumber = b + 1
         /\ \A k \in S : second.bids[k] = store.bids[k]
         /\ \A l \in 1 .. n : second.auctions[l].startTime = store.auctions[l].startTime
    <3>1. CASE hashes = {one} BY <2>5, <2>8, <2>9, <3>1
    <3>2. CASE hashes # {one}
      <4>1. two \in Nat /\ two \in Hashes /\ two \notin S BY <2>6, AuctionBotConstants
      <4>2. PICK value \in Nat, block \in Nat :
              value = 10 * (b + 1) + two /\ block = b + 1
            BY <4>1
      <4>3. PICK R \in SUBSET Hashes : R = S \cup {one} BY <2>4, <2>6
      <4>4. two # one BY <2>4, <2>5, <3>2
      <4>5. second = handleAuctionBid(first, n, two, value, two, block) BY <2>9, <3>2, <4>2
      <4>6. n \in 1 .. n /\ first \in Shape(n, R) BY <2>8, <4>3
      <4>7. /\ second \in Shape(n, R \cup {two})
            /\ BidAdded(R, first, second, n, two, block) /\ SameStarts(n, first, second)
            BY <4>1, <4>5, <4>6, BidMeans
      <4>13. /\ second.bids[two].auction = n /\ second.bids[two].blockNumber = block
             /\ \A k \in R : k # two => second.bids[k] = first.bids[k]
             BY <4>7 DEF BidAdded
      <4>8. R \cup {two} = S \cup {one, two} BY <4>3
      <4>9. one \in R /\ S \subseteq R BY <4>3
      <4>10. \A k \in S : second.bids[k] = store.bids[k] BY <2>8, <4>1, <4>9, <4>13
      <4>11. second.bids[one].auction = n /\ second.bids[one].blockNumber = b + 1
             BY <2>8, <4>2, <4>4, <4>9, <4>13
      <4>12. \A l \in 1 .. n : second.auctions[l].startTime = store.auctions[l].startTime
             BY <2>8, <4>7 DEF SameStarts
      <4> QED BY <4>2, <4>7, <4>8, <4>10, <4>11, <4>12, <4>13
    <3> QED BY <3>1, <3>2
  <2>11. store' = IF extending THEN handleAuctionExtended(second, n, n + 3) ELSE second
         BY <1>3, <1>6, <2>2, <2>4, <2>5, <2>7, <2>9 DEF BidsPlaced
  <2>12. /\ store' \in Shape(n, S \cup {one, two}) /\ store'.bids = second.bids
         /\ \A l \in 1 .. n : store'.auctions[l].startTime = store.auctions[l].startTime
    <3>1. S \cup {one, two} \in SUBSET Hashes /\ n + 3 \in Nat BY <2>6
    <3>4. n \in 1 .. n OBVIOUS
    <3>2. CASE extending
      <4>1. PICK R \in SUBSET Hashes : R = S \cup {one, two} BY <3>1
      <4>2. PICK endTime \in Nat : endTime = n + 3 BY <3>1
      <4>3. PICK late : late = store' OBVIOUS
      <4>4. late = handleAuctionExtended(second, n, endTime) BY <2>11, <3>2, <4>2, <4>3
      <4>5. second \in Shape(n, R) BY <2>10, <4>1
      <4>6. late \in Shape(n, R) /\ late.bids = second.bids /\ SameStarts(n, second, late)
            BY <3>4, <4>4, <4>5, ExtendedMeans
      <4>7. \A l \in 1 .. n : late.auctions[l].startTime = store.auctions[l].startTime
            BY <2>10, <4>6 DEF SameStarts
      <4> QED BY <4>1, <4>3, <4>6, <4>7
    <3>3. CASE ~extending BY <2>10, <2>11, <3>3
    <3> QED BY <3>2, <3>3
  <2>13. /\ store'.auctions \in [1 .. n -> AuctionType] /\ DOMAIN store'.auctions = 1 .. n
         /\ store'.bids \in [S \cup {one, two} -> BidType]
         BY <2>12 DEF Shape
  <2>14. \A l \in 1 .. n : store'.auctions[l].startTime = l BY <1>2, <2>12 DEF StoreTyped
  <2>15. LastAuction(store') = n BY <2>13, <2>14, LotsOnSale
  <2>16. PICK new \in SUBSET (Hashes \ DOMAIN store.bids) : new = {one, two}
         BY <1>2, <2>6
  <2>17. BidsInOrder' /\ Blocks' = 1 .. b + 1
    <3>1. \A h \in DOMAIN store.bids : store'.bids[h] = store.bids[h] BY <1>2, <2>10, <2>12
    <3>2. \A h \in new : /\ store'.bids[h].auction = LastAuction(store)
                         /\ store'.bids[h].blockNumber = b + 1
          BY <1>3, <2>10, <2>12, <2>16
    <3>3. store'.bids \in [DOMAIN store.bids \cup new -> BidType] BY <1>2, <2>13, <2>16
    <3>4. one \in new /\ two \in new BY <2>16
    <3> QED BY <1>2, <1>4, <2>13, <2>16, <3>1, <3>2, <3>3, <3>4, NewBlockInOrder
  <2>18. StoreTyped'
    <3>1. S \cup {one, two} \in SUBSET Hashes BY <2>6
    <3>2. store' \in [nouns : SUBSET Nat,
                auctions : UNION {[1 .. m -> AuctionType] : m \in Nat \ {0}},
                bids : UNION {[R -> BidType] : R \in SUBSET Hashes}]
          BY <2>12, <3>1 DEF Shape
    <3>3. b + 1 \in Nat OBVIOUS
    <3> QED BY <2>13, <2>14, <2>17, <3>2, <3>3 DEF StoreTyped
  <2>19. \A h \in S : h \in DOMAIN store'.bids /\ store'.bids[h] = store.bids[h]
         BY <2>10, <2>12, <2>13
  <2> QED BY <1>2, <1>3, <2>1, <2>15, <2>17, <2>18, <2>19
<1>7. CASE TimePasses
  <2>1. store' = store /\ UNCHANGED houseUnseen /\ endsSoon' \in BOOLEAN
        BY <1>7 DEF TimePasses
  <2>2. StoreTyped' BY <2>1 DEF StoreTyped, Blocks
  <2>3. BidsInOrder' BY <2>1 DEF BidsInOrder, BidsOn, Later
  <2>4. LastAuction(store) <= LastAuction(store') BY <1>3, <2>1
  <2> QED BY <2>1, <2>2, <2>3, <2>4
<1> QED BY <1>5, <1>6, <1>7 DEF HouseStep

------------------------------------------------------------
(* The steps of a tick                                                     *)

\* A tick moves on, with what it has read.
LEMMA TickGoes ==
  ASSUME tick \in [Ticks -> TickType], NEW t \in Ticks, NEW where \in TickPlaces, Goes(t, where)
  PROVE  /\ tick' \in [Ticks -> TickType]
         /\ tick'[t].at = where /\ tick'[t].lot = tick[t].lot /\ tick'[t].bid = tick[t].bid
         /\ tick'[t].cached = tick[t].cached
         /\ \A u \in Ticks \ {t} : tick'[u] = tick[u]
<1>1. PICK old \in TickType : old = tick[t] OBVIOUS
<1>2. PICK new : new = [old EXCEPT !.at = where] OBVIOUS
<1>3. new \in TickType /\ new.at = where BY <1>2 DEF TickType
<1>4. new.lot = old.lot /\ new.bid = old.bid BY <1>2 DEF TickType
<1>5. new.cached = old.cached BY <1>2 DEF TickType
<1>6. tick' = [tick EXCEPT ![t] = new] BY <1>1, <1>2 DEF Goes
<1> QED BY <1>1, <1>3, <1>4, <1>5, <1>6

\* A tick ends.
LEMMA TickEnds ==
  ASSUME tick \in [Ticks -> TickType], NEW t \in Ticks, Ends(t)
  PROVE  /\ tick' \in [Ticks -> TickType] /\ tick'[t].at = "idle"
         /\ \A u \in Ticks \ {t} : tick'[u] = tick[u]
<1>1. NoTick \in TickType /\ NoTick.at = "idle" BY DEF NoTick, TickType, Bids, NoLot, TickPlaces
<1> QED BY <1>1 DEF Ends

\* An announcement is counted.
LEMMA PostedMeans ==
  ASSUME posts \in [Media \X Subjects -> 0 .. 2], NEW media, NEW kind, NEW subject,
         posts' = PostedOn(media, kind, subject)
  PROVE  /\ posts' \in [Media \X Subjects -> 0 .. 2]
         /\ \A p \in Media \X Subjects :
              /\ p[2] # [kind |-> kind, of |-> subject] => posts'[p] = posts[p]
              /\ posts[p] = 0 => posts'[p] <= 1
<1>1. \A p \in Media \X Subjects :
        posts'[p] = IF p[1] \in media /\ p[2] = [kind |-> kind, of |-> subject] /\ posts[p] < 2
                    THEN posts[p] + 1 ELSE posts[p]
      BY DEF PostedOn
<1>2. ASSUME NEW p \in Media \X Subjects
      PROVE  posts'[p] \in 0 .. 2 /\ (posts[p] = 0 => posts'[p] <= 1)
  <2>1. PICK n \in 0 .. 2 : n = posts[p] OBVIOUS
  <2>2. posts'[p] = n \/ (n < 2 /\ posts'[p] = n + 1) BY <1>1, <2>1
  <2>3. n + 1 \in 1 .. 3 /\ (n < 2 => n + 1 \in 0 .. 2) OBVIOUS
  <2> QED BY <2>1, <2>2, <2>3
<1>3. posts' = [p \in Media \X Subjects |-> posts'[p]] BY DEF PostedOn
<1>4. posts' \in [Media \X Subjects -> 0 .. 2] BY <1>2, <1>3
<1> QED BY <1>1, <1>2, <1>4

\* Nobody else's place changes.
LEMMA OthersStayIdle ==
  ASSUME NEW t \in Ticks, OneTick, ~At(t, "idle") \/ \A u \in Ticks : At(u, "idle"),
         \A u \in Ticks \ {t} : tick'[u] = tick[u]
  PROVE  \A u \in Ticks \ {t} : At(u, "idle") /\ At(u, "idle")' /\ TickKnows(u)'
<1>1. \A u \in Ticks \ {t} : At(u, "idle") BY DEF OneTick
<1>2. \A u \in Ticks \ {t} : At(u, "idle")' BY <1>1 DEF At
<1>3. \A u \in Ticks \ {t} : TickKnows(u)' BY <1>2 DEF TickKnows, At
<1> QED BY <1>1, <1>2, <1>3

\* So what the tick itself knows is enough.
LEMMA OneTickStays ==
  ASSUME NEW t \in Ticks, OneTick, ~At(t, "idle") \/ \A u \in Ticks : At(u, "idle"),
         \A u \in Ticks \ {t} : tick'[u] = tick[u],
         setup.at = "done", setup' = setup, TickKnows(t)'
  PROVE  OneTick' /\ \A u \in Ticks : TickKnows(u)'
<1>1. \A u \in Ticks \ {t} : At(u, "idle") /\ At(u, "idle")' /\ TickKnows(u)'
      BY OthersStayIdle
<1>2. OneTick' BY <1>1 DEF OneTick
<1> QED BY <1>1, <1>2

------------------------------------------------------------
(* The types                                                               *)

\* A tick's step keeps the types.
LEMMA TickStaysTyped ==
  ASSUME AuctionBotTyped, StoreTyped, BidsInOrder, NEW t \in Ticks, TickStep(t)
  PROVE  AuctionBotTyped' /\ UNCHANGED <<store, endsSoon, setup>>
<1> USE DEF AuctionBotTyped
<1>0. /\ tick[t] \in TickType /\ tick[t].lot \in Nat /\ tick[t].bid \in Bids
      /\ cache.auction \in Nat /\ cache.bid \in Bids /\ cache.ending \in Nat
      /\ cache.reply \in Nat /\ glitches \in Nat /\ mishaps \in Nat
  <2>1. tick[t] \in TickType OBVIOUS
  <2> QED BY <2>1 DEF TickType
<1>1. CASE StartTick(t)
  <2>1. PICK new : new = [NoTick EXCEPT !.at = "asking",
                           !.cached = [auction |-> cache.auction, bid |-> cache.bid,
                                       ending |-> cache.ending]]
        OBVIOUS
  <2>2. new \in TickType BY <1>0, <2>1 DEF NoTick, TickType, TickPlaces, NoLot, Bids
  <2>3. tick' \in [Ticks -> TickType] BY <1>1, <2>1, <2>2 DEF StartTick
  <2>4. overlaps' \in Nat BY <1>1 DEF StartTick
  <2> QED BY <1>1, <2>3, <2>4 DEF StartTick, unread
<1>2. CASE Answered(t)
  <2>1. LastAuction(store) \in Nat /\ LastAuction(store) \in DOMAIN store.auctions BY StoreIs
  <2>2. LastBid(store, LastAuction(store)) \in Bids BY <2>1, LastBidIsLast DEF Bids
  <2>3. PICK lot \in Nat, bid \in Bids :
          lot = LastAuction(store) /\ bid = LastBid(store, LastAuction(store))
        BY <2>1, <2>2
  <2>4. tick' \in [Ticks -> TickType] /\ glitches' \in Nat
    <3>1. CASE tick' = [tick EXCEPT ![t].at = "answered", ![t].lot = lot, ![t].bid = bid]
               /\ UNCHANGED glitches
      <4>1. PICK old \in TickType : old = tick[t] BY <1>0
      <4>2. PICK new : new = [old EXCEPT !.at = "answered", !.lot = lot, !.bid = bid] OBVIOUS
      <4>3. new \in TickType BY <4>2 DEF TickType, TickPlaces
      <4>4. tick' = [tick EXCEPT ![t] = new] BY <3>1, <4>1, <4>2
      <4>5. tick' \in [Ticks -> TickType] BY <4>3, <4>4
      <4> QED BY <1>0, <3>1, <4>5
    <3>2. CASE Glitch /\ Ends(t) BY <3>2, TickEnds DEF Glitch
    <3> QED BY <1>2, <2>3, <3>1, <3>2 DEF Answered
  <2> QED BY <1>2, <2>4 DEF Answered, unread
<1>3. CASE CacheAuction(t)
  <2>1. cache' \in [auction : Nat, bid : Bids, ending : Nat, reply : Nat]
    <3>1. PICK lot \in Nat : lot = tick[t].lot BY <1>0
    <3>2. cache' = cache \/ cache' = [cache EXCEPT !.auction = lot]
          BY <1>3, <3>1 DEF CacheAuction
    <3> QED BY <3>2
  <2>2. tick' \in [Ticks -> TickType] BY <1>3, TickGoes, TickEnds DEF CacheAuction, TickPlaces
  <2>3. glitches' \in Nat
    <3>1. glitches' = glitches \/ glitches' = glitches + 1 BY <1>3 DEF CacheAuction, Glitch
    <3> QED BY <1>0, <3>1
  <2> QED BY <1>3, <2>1, <2>2, <2>3 DEF CacheAuction, unread
<1>4. CASE AnnounceAuction(t)
  <2>1. PICK reached \in SUBSET Media :
          /\ ReachingSilently(t, "counting", reached)
          /\ posts' = PostedOn(reached, "lot", tick[t].lot)
          /\ cache' = IF "twitter" \in reached THEN [cache EXCEPT !.reply = tick[t].lot]
                      ELSE cache
        BY <1>4 DEF AnnounceAuction
  <2>2. cache' \in [auction : Nat, bid : Bids, ending : Nat, reply : Nat]
    <3>1. PICK lot \in Nat : lot = tick[t].lot BY <1>0
    <3>2. cache' = cache \/ cache' = [cache EXCEPT !.reply = lot] BY <2>1, <3>1
    <3> QED BY <3>2
  <2>3. tick' \in [Ticks -> TickType]
        BY <2>1, TickGoes, TickEnds DEF ReachingSilently, Reaching, TickPlaces
  <2>4. mishaps' \in Nat BY <2>1 DEF ReachingSilently, Reaching, Mishap
  <2>5. posts' \in [Media \X Subjects -> 0 .. 2] BY <2>1, PostedMeans
  <2> QED BY <1>4, <2>2, <2>3, <2>4, <2>5 DEF AnnounceAuction, unread
<1>5. CASE CacheBid(t)
  <2>1. cache' \in [auction : Nat, bid : Bids, ending : Nat, reply : Nat]
    <3>1. PICK bid \in Bids : bid = tick[t].bid BY <1>0
    <3>2. cache' = cache \/ cache' = [cache EXCEPT !.bid = bid] BY <1>5, <3>1 DEF CacheBid
    <3> QED BY <3>2
  <2>2. tick' \in [Ticks -> TickType] BY <1>5, TickGoes, TickEnds DEF CacheBid, TickPlaces
  <2>3. glitches' \in Nat
    <3>1. glitches' = glitches \/ glitches' = glitches + 1 BY <1>5 DEF CacheBid, Glitch
    <3> QED BY <1>0, <3>1
  <2> QED BY <1>5, <2>1, <2>2, <2>3 DEF CacheBid, unread
<1>6. CASE AnnounceBid(t)
  <2>1. PICK reached \in SUBSET Media, media \in SUBSET Media :
          /\ Reaching(t, "announced bid", reached)
          /\ posts' = PostedOn(media, "bid", tick[t].bid)
        BY <1>6 DEF AnnounceBid
  <2>2. replies' \in [Hashes -> Nat]
    <3>1. PICK reply \in Nat : reply = cache.reply BY <1>0
    <3>2. replies' = replies \/ replies' = [replies EXCEPT ![tick[t].bid] = reply]
          BY <1>6, <3>1 DEF AnnounceBid
    <3> QED BY <3>2
  <2>3. tick' \in [Ticks -> TickType] BY <2>1, TickGoes, TickEnds DEF Reaching, TickPlaces
  <2>4. mishaps' \in Nat
    <3>1. mishaps' = mishaps \/ mishaps' = mishaps + 1 BY <2>1 DEF Reaching, Mishap
    <3> QED BY <1>0, <3>1
  <2>5. posts' \in [Media \X Subjects -> 0 .. 2] BY <2>1, PostedMeans
  <2> QED BY <1>6, <2>2, <2>3, <2>4, <2>5 DEF AnnounceBid, unread
<1>7. CASE CacheEnding(t)
  <2>1. cache' \in [auction : Nat, bid : Bids, ending : Nat, reply : Nat]
    <3>1. PICK lot \in Nat : lot = tick[t].lot BY <1>0
    <3>2. cache' = cache \/ cache' = [cache EXCEPT !.ending = lot]
          BY <1>7, <3>1 DEF CacheEnding
    <3> QED BY <3>2
  <2>2. tick' \in [Ticks -> TickType] BY <1>7, TickGoes, TickEnds DEF CacheEnding, TickPlaces
  <2> QED BY <1>7, <2>1, <2>2 DEF CacheEnding, unread
<1>8. CASE AnnounceEnding(t)
  <2>1. tick' \in [Ticks -> TickType] BY <1>8, TickEnds DEF AnnounceEnding
  <2>2. posts' \in [Media \X Subjects -> 0 .. 2] BY <1>8, PostedMeans DEF AnnounceEnding
  <2>3. mishaps' \in Nat
    <3>1. mishaps' = mishaps \/ mishaps' = mishaps + 1 BY <1>8 DEF AnnounceEnding, Mishap
    <3> QED BY <1>0, <3>1
  <2> QED BY <1>8, <2>1, <2>2, <2>3 DEF AnnounceEnding, unread
<1> QED BY <1>1, <1>2, <1>3, <1>4, <1>5, <1>6, <1>7, <1>8 DEF TickStep

------------------------------------------------------------
(* One tick at a time: what is announced is in the caches                  *)

\* Every subject is a number.
LEMMA SubjectsAreNumbers ==
  \A p \in Media \X Subjects : p[2] \in Subjects /\ p[2].of \in Nat
<1> SUFFICES ASSUME NEW p \in Media \X Subjects
             PROVE  p[2] \in Subjects /\ p[2].of \in Nat
    OBVIOUS
<1>1. p[2] \in Subjects OBVIOUS
<1>2. PICK subject \in Subjects : subject = p[2] BY <1>1
<1>3. subject.of \in 1 .. MaxLot \/ subject.of \in Hashes BY DEF Subjects
<1>5. (1 .. MaxLot) \cup Hashes \subseteq Nat BY AuctionBotConstants
<1>4. subject.of \in Nat BY <1>3, <1>5
<1> QED BY <1>1, <1>2, <1>4

\* The caches move forward.
LEMMA CachesMoveForward ==
  ASSUME PostedIsCached, posts' = posts,
         cache.auction \in Nat, cache'.auction \in Nat, cache.auction <= cache'.auction,
         cache.ending \in Nat, cache'.ending \in Nat, cache.ending <= cache'.ending,
         \A g : NotLater(g, cache.bid) => NotLater(g, cache.bid)'
  PROVE  PostedIsCached'
<1> SUFFICES ASSUME NEW p \in Media \X Subjects
             PROVE  /\ posts[p] <= 1
                    /\ posts[p] > 0 =>
                         /\ p[2].kind = "lot" => p[2].of <= cache'.auction
                         /\ p[2].kind = "ending" => p[2].of <= cache'.ending
                         /\ p[2].kind = "bid" => NotLater(p[2].of, cache.bid)'
    BY DEF PostedIsCached
<1>1. PICK of \in Nat : of = p[2].of BY SubjectsAreNumbers
<1>2. /\ posts[p] <= 1
      /\ posts[p] > 0 => /\ p[2].kind = "lot" => of <= cache.auction
                         /\ p[2].kind = "ending" => of <= cache.ending
                         /\ p[2].kind = "bid" => NotLater(of, cache.bid)
      BY <1>1 DEF PostedIsCached
<1>3. of <= cache.auction => of <= cache'.auction OBVIOUS
<1>4. of <= cache.ending => of <= cache'.ending OBVIOUS
<1> QED BY <1>1, <1>2, <1>3, <1>4

\* What is in the caches is announced.
LEMMA CachedIsPosted ==
  ASSUME PostedIsCached, posts \in [Media \X Subjects -> 0 .. 2],
         NEW media, NEW kind, NEW subject,
         Unposted(kind, subject), posts' = PostedOn(media, kind, subject),
         cache'.auction = cache.auction, cache'.ending = cache.ending, cache'.bid = cache.bid,
         store' = store,
         kind = "lot" => subject <= cache.auction,
         kind = "ending" => subject <= cache.ending,
         kind = "bid" => NotLater(subject, cache.bid)
  PROVE  PostedIsCached'
<1>1. \A g : NotLater(g, cache.bid)' <=> NotLater(g, cache.bid) BY DEF NotLater, Later
<1>4. \A p \in Media \X Subjects :
        /\ p[2] # [kind |-> kind, of |-> subject] => posts'[p] = posts[p]
        /\ posts[p] = 0 => posts'[p] <= 1
      BY PostedMeans
<1> SUFFICES ASSUME NEW p \in Media \X Subjects
             PROVE  /\ posts'[p] <= 1
                    /\ posts'[p] > 0 =>
                         /\ p[2].kind = "lot" => p[2].of <= cache.auction
                         /\ p[2].kind = "ending" => p[2].of <= cache.ending
                         /\ p[2].kind = "bid" => NotLater(p[2].of, cache.bid)
    BY <1>1 DEF PostedIsCached
<1>2. CASE p[2] = [kind |-> kind, of |-> subject]
  <2>1. posts'[p] <= 1 BY <1>2, <1>4 DEF Unposted
  <2>2. p[2].kind = kind /\ p[2].of = subject BY <1>2
  <2> QED BY <2>1, <2>2
<1>3. CASE p[2] # [kind |-> kind, of |-> subject]
  <2>1. posts'[p] = posts[p] BY <1>3, <1>4
  <2> QED BY <2>1 DEF PostedIsCached
<1> QED BY <1>2, <1>3

\* A tick that starts before its turn is counted.
LEMMA OverlapsAreCounted ==
  ASSUME AuctionBotTyped, NEW t \in Ticks, TickStep(t), overlaps' = 0
  PROVE  Single /\ (StartTick(t) => setup.at = "done" /\ \A u \in Ticks : At(u, "idle"))
<1>1. StartTick(t) => /\ overlaps' = overlaps \/ overlaps' = overlaps + 1
                      /\ \/ setup.at = "done" /\ (\A u \in Ticks : At(u, "idle"))
                         \/ overlaps' = overlaps + 1
      BY DEF StartTick
<1>2. ~StartTick(t) => overlaps' = overlaps
      BY DEF TickStep, Answered, CacheAuction, AnnounceAuction, CacheBid, AnnounceBid,
             CacheEnding, AnnounceEnding
<1>3. overlaps \in Nat BY DEF AuctionBotTyped
<1> QED BY <1>1, <1>2, <1>3 DEF Single

\* A step of one tick is none of another.
LEMMA OthersStayPut ==
  ASSUME tick \in [Ticks -> TickType], NEW t \in Ticks, TickStep(t)
  PROVE  \A u \in Ticks \ {t} : tick'[u] = tick[u]
<1>1. \A where \in TickPlaces : Goes(t, where) => \A u \in Ticks \ {t} : tick'[u] = tick[u]
      BY TickGoes
<1>2. Ends(t) => \A u \in Ticks \ {t} : tick'[u] = tick[u] BY TickEnds
<1>3. CASE StartTick(t) BY <1>3 DEF StartTick
<1>4. CASE Answered(t)
  <2>1. tick' = [tick EXCEPT ![t].at = "answered", ![t].lot = LastAuction(store),
                             ![t].bid = LastBid(store, LastAuction(store))]
          => \A u \in Ticks \ {t} : tick'[u] = tick[u]
        OBVIOUS
  <2> QED BY <1>2, <1>4, <2>1 DEF Answered
<1>5. CASE CacheAuction(t) BY <1>1, <1>2, <1>5 DEF CacheAuction, TickPlaces
<1>6. CASE AnnounceAuction(t)
      BY <1>1, <1>2, <1>6 DEF AnnounceAuction, ReachingSilently, Reaching, TickPlaces
<1>7. CASE CacheBid(t) BY <1>1, <1>2, <1>7 DEF CacheBid, TickPlaces
<1>8. CASE AnnounceBid(t) BY <1>1, <1>2, <1>8 DEF AnnounceBid, Reaching, TickPlaces
<1>9. CASE CacheEnding(t) BY <1>1, <1>2, <1>9 DEF CacheEnding, TickPlaces
<1>10. CASE AnnounceEnding(t) BY <1>1, <1>2, <1>10 DEF AnnounceEnding
<1> QED BY <1>3, <1>4, <1>5, <1>6, <1>7, <1>8, <1>9, <1>10 DEF TickStep

\* A step of the only tick.
LEMMA TickStaysSingle ==
  ASSUME AuctionBotTyped, StoreTyped, BidsInOrder, SingleInv,
         NEW t \in Ticks, TickStep(t), overlaps' = 0
  PROVE  OneTick' /\ CacheIsPast' /\ PostedIsCached' /\ \A u \in Ticks : TickKnows(u)'
<1>1. Single /\ (StartTick(t) => setup.at = "done" /\ \A u \in Ticks : At(u, "idle"))
      BY OverlapsAreCounted
<1>2. OneTick /\ CacheIsPast /\ PostedIsCached /\ TickKnows(t) BY <1>1 DEF SingleInv
<1>3. AuctionBotTyped' /\ UNCHANGED <<store, endsSoon, setup>> BY TickStaysTyped
<1>4. /\ tick \in [Ticks -> TickType] /\ posts \in [Media \X Subjects -> 0 .. 2]
      /\ cache \in [auction : Nat, bid : Bids, ending : Nat, reply : Nat]
      /\ cache' \in [auction : Nat, bid : Bids, ending : Nat, reply : Nat]
      BY <1>3 DEF AuctionBotTyped
<1>5. /\ cache.auction \in Nat /\ cache'.auction \in Nat
      /\ cache.ending \in Nat /\ cache'.ending \in Nat
      BY <1>4
<1>6. /\ tick[t].lot \in Nat /\ tick[t].bid \in Bids
      /\ tick[t].cached.auction \in Nat /\ tick[t].cached.ending \in Nat
  <2>1. tick[t] \in TickType BY <1>4
  <2> QED BY <2>1 DEF TickType
<1>7. PICK last \in Nat : last = LastAuction(store) /\ last \in DOMAIN store.auctions
      BY StoreIs
<1>8. /\ LastAuction(store') = last
      /\ \A g, h : NotLater(g, h)' <=> NotLater(g, h)
      /\ \A l : BidsOn(store', l) = BidsOn(store, l)
      BY <1>3, <1>7 DEF NotLater, Later
<1>9. \A u \in Ticks \ {t} : tick'[u] = tick[u] BY <1>4, OthersStayPut
<1>10. /\ ~At(t, "idle") \/ \A u \in Ticks : At(u, "idle")
       /\ setup.at = "done"
  <2>1. ~StartTick(t) => ~At(t, "idle")
        BY DEF TickStep, Answered, CacheAuction, AnnounceAuction, CacheBid, AnnounceBid,
               CacheEnding, AnnounceEnding, At
  <2> QED BY <1>1, <1>2, <2>1 DEF OneTick
<1>11. ASSUME TickKnows(t)'
       PROVE  OneTick' /\ \A u \in Ticks : TickKnows(u)'
       BY <1>2, <1>3, <1>9, <1>10, <1>11, OneTickStays
<1>12. ASSUME tick'[t].at = "idle"
       PROVE  TickKnows(t)'
       BY <1>12 DEF TickKnows
<1>13. ASSUME cache'.auction = cache.auction, cache'.bid = cache.bid
       PROVE  CacheIsPast'
       BY <1>2, <1>3, <1>8, <1>13 DEF CacheIsPast
<1>14. ASSUME cache' = cache, posts' = posts
       PROVE  PostedIsCached'
       BY <1>2, <1>8, <1>14 DEF PostedIsCached
<1>15. CASE StartTick(t)
  <2>1. cache' = cache /\ posts' = posts BY <1>15 DEF StartTick
  <2>2. PICK new : new = [NoTick EXCEPT !.at = "asking",
                           !.cached = [auction |-> cache.auction, bid |-> cache.bid,
                                       ending |-> cache.ending]]
        OBVIOUS
  <2>3. /\ new.at = "asking" /\ new.cached.auction = cache.auction
        /\ new.cached.bid = cache.bid /\ new.cached.ending = cache.ending
        BY <2>2 DEF NoTick
  <2>4. tick'[t] = new BY <1>4, <1>15, <2>2 DEF StartTick
  <2>5. TickKnows(t)' BY <2>1, <2>3, <2>4 DEF TickKnows
  <2> QED BY <1>11, <1>13, <1>14, <2>1, <2>5
<1>16. CASE Answered(t)
  <2>1. cache' = cache /\ posts' = posts BY <1>16 DEF Answered
  <2>2. TickKnows(t)'
    <3>1. CASE Ends(t) BY <1>4, <1>12, <3>1, TickEnds
    <3>2. CASE ~Ends(t)
      <4>1. PICK bid : bid = LastBid(store, last) OBVIOUS
      <4>2. tick' = [tick EXCEPT ![t].at = "answered", ![t].lot = last, ![t].bid = bid]
            BY <1>7, <1>16, <3>2, <4>1 DEF Answered
      <4>3. /\ tick'[t].at = "answered" /\ tick'[t].lot = last /\ tick'[t].bid = bid
            /\ tick'[t].cached = tick[t].cached
            BY <1>4, <4>2 DEF TickType
      <4>4. At(t, "asking") BY <1>16 DEF Answered
      <4>5. /\ tick[t].cached.auction = cache.auction /\ tick[t].cached.bid = cache.bid
            /\ tick[t].cached.ending = cache.ending
            BY <1>2, <4>4 DEF TickKnows, At
      <4>6. cache.auction <= last /\ (cache.bid # NoBid => cache.bid \in DOMAIN store.bids)
            BY <1>2, <1>7 DEF CacheIsPast
      <4>7. bid # NoBid => bid \in BidsOn(store, last) BY <1>7, <4>1, LastBidIsLast
      <4>8. bid # NoBid /\ cache.bid # NoBid => NotLater(cache.bid, bid)
            BY <1>7, <4>1, <4>6, LastBidIsLast
      <4> QED BY <1>7, <1>8, <2>1, <4>3, <4>5, <4>6, <4>7, <4>8 DEF TickKnows
    <3> QED BY <3>1, <3>2
  <2> QED BY <1>11, <1>13, <1>14, <2>1, <2>2
<1>17. CASE CacheAuction(t)
  <2>1. posts' = posts /\ At(t, "answered") BY <1>17 DEF CacheAuction
  <2>2. PICK lot \in Nat, auction \in Nat, bid \in Bids :
          lot = tick[t].lot /\ bid = tick[t].bid /\ auction = cache.auction
        BY <1>5, <1>6
  <2>3. /\ tick[t].cached.auction = auction /\ tick[t].cached.bid = cache.bid
        /\ tick[t].cached.ending = cache.ending
        /\ lot <= last /\ auction <= lot
        /\ bid # NoBid => bid \in BidsOn(store, lot)
        /\ bid # NoBid /\ cache.bid # NoBid => NotLater(cache.bid, bid)
        BY <1>2, <1>7, <2>1, <2>2 DEF TickKnows, At
  <2>4. CASE ~NewLot(t) /\ Goes(t, "counting") /\ UNCHANGED cache
    <3>1. auction = lot
      <4>1. ~(auction < lot) BY <2>2, <2>3, <2>4 DEF NewLot
      <4> QED BY <2>3, <4>1
    <3>2. /\ tick'[t].at = "counting" /\ tick'[t].lot = lot /\ tick'[t].bid = bid
          /\ tick'[t].cached = tick[t].cached
          BY <1>4, <2>2, <2>4, TickGoes DEF TickPlaces
    <3>3. TickKnows(t)' BY <1>7, <1>8, <2>2, <2>3, <2>4, <3>1, <3>2 DEF TickKnows
    <3> QED BY <1>11, <1>13, <1>14, <2>1, <2>4, <3>3
  <2>5. CASE NewLot(t) /\ cache' = [cache EXCEPT !.auction = tick[t].lot]
             /\ Goes(t, "cached lot")
    <3>1. auction < lot BY <2>2, <2>3, <2>5 DEF NewLot
    <3>2. /\ tick'[t].at = "cached lot" /\ tick'[t].lot = lot /\ tick'[t].bid = bid
          /\ tick'[t].cached = tick[t].cached
          BY <1>4, <2>2, <2>5, TickGoes DEF TickPlaces
    <3>3. /\ cache'.auction = lot /\ cache'.bid = cache.bid /\ cache'.ending = cache.ending
          BY <1>4, <2>2, <2>5
    <3>4. Unposted("lot", lot)'
      <4> SUFFICES ASSUME NEW p \in Media \X Subjects, p[2] = [kind |-> "lot", of |-> lot]
                   PROVE  posts[p] = 0
          BY <2>1 DEF Unposted
      <4>1. p[2].kind = "lot" /\ p[2].of = lot OBVIOUS
      <4>2. posts[p] > 0 => lot <= auction BY <1>2, <2>2, <4>1 DEF PostedIsCached
      <4>3. ~(lot <= auction) BY <3>1
      <4>4. posts[p] \in 0 .. 2 BY <1>4
      <4> QED BY <4>2, <4>3, <4>4
    <3>8. /\ tick'[t].cached.bid = cache'.bid /\ tick'[t].cached.ending = cache'.ending
          /\ lot <= LastAuction(store') /\ cache'.auction <= lot
          /\ bid # NoBid => bid \in BidsOn(store', lot)
      <4>1. lot <= LastAuction(store') BY <1>7, <1>8, <2>3
      <4>2. BidsOn(store', lot) = BidsOn(store, lot) BY <1>8
      <4>3. lot <= lot OBVIOUS
      <4> QED BY <2>3, <3>2, <3>3, <4>1, <4>2, <4>3
    <3>9. bid # NoBid /\ cache'.bid # NoBid => NotLater(cache.bid, tick[t].bid)'
          BY <1>8, <2>3, <3>2, <3>3
    <3>5. TickKnows(t)' BY <3>2, <3>3, <3>4, <3>8, <3>9 DEF TickKnows
    <3>6. CacheIsPast'
          BY <1>2, <1>3, <1>7, <1>8, <1>10, <2>3, <3>3 DEF CacheIsPast
    <3>7. PostedIsCached'
      <4>1. \A g : NotLater(g, cache.bid) => NotLater(g, cache.bid)' BY <1>8, <3>3
      <4>2. cache.auction <= cache'.auction /\ cache.ending <= cache'.ending
            BY <1>5, <2>2, <2>3, <3>3
      <4> QED BY <1>2, <1>5, <2>1, <4>1, <4>2, CachesMoveForward
    <3> QED BY <1>11, <3>5, <3>6, <3>7
  <2>6. CASE Ends(t) /\ UNCHANGED cache
    <3>1. tick'[t].at = "idle" BY <1>4, <2>6, TickEnds
    <3> QED BY <1>11, <1>12, <1>13, <1>14, <2>1, <2>6, <3>1
  <2> QED BY <1>17, <2>4, <2>5, <2>6 DEF CacheAuction
<1>18. CASE AnnounceAuction(t)
  <2>1. PICK reached \in SUBSET Media :
          /\ ReachingSilently(t, "counting", reached)
          /\ posts' = PostedOn(reached, "lot", tick[t].lot)
          /\ cache' = IF "twitter" \in reached THEN [cache EXCEPT !.reply = tick[t].lot]
                      ELSE cache
        BY <1>18 DEF AnnounceAuction
  <2>2. /\ cache'.auction = cache.auction /\ cache'.bid = cache.bid
        /\ cache'.ending = cache.ending
        BY <1>4, <2>1
  <2>3. At(t, "cached lot") BY <1>18 DEF AnnounceAuction
  <2>4. TickKnows(t)'
    <3>1. CASE Ends(t) BY <1>4, <1>12, <3>1, TickEnds
    <3>2. CASE Goes(t, "counting")
      <4>1. /\ tick'[t].at = "counting" /\ tick'[t].lot = tick[t].lot
            /\ tick'[t].bid = tick[t].bid /\ tick'[t].cached = tick[t].cached
            BY <1>4, <3>2, TickGoes DEF TickPlaces
      <4> QED BY <1>2, <1>7, <1>8, <2>2, <2>3, <4>1 DEF TickKnows, At
    <3> QED BY <2>1, <3>1, <3>2 DEF ReachingSilently, Reaching
  <2>5. PostedIsCached'
    <3>1. Unposted("lot", tick[t].lot) /\ cache.auction = tick[t].lot
          BY <1>2, <2>3 DEF TickKnows, At
    <3>2. tick[t].lot <= cache.auction BY <1>5, <3>1
    <3> QED BY <1>2, <1>3, <1>4, <2>1, <2>2, <3>1, <3>2, CachedIsPosted
  <2> QED BY <1>11, <1>13, <2>2, <2>4, <2>5
<1>19. CASE CacheBid(t)
  <2>1. posts' = posts /\ At(t, "counting") BY <1>19 DEF CacheBid
  <2>2. PICK lot \in Nat, bid \in Bids : lot = tick[t].lot /\ bid = tick[t].bid BY <1>6
  <2>3. /\ tick[t].cached.bid = cache.bid /\ tick[t].cached.ending = cache.ending
        /\ lot <= last /\ cache.auction = lot
        /\ bid # NoBid => bid \in BidsOn(store, lot)
        /\ bid # NoBid /\ cache.bid # NoBid => NotLater(cache.bid, bid)
        BY <1>2, <1>7, <2>1, <2>2 DEF TickKnows, At
  <2>4. CASE NewBid(t) /\ Goes(t, "cached bid") /\ cache' = [cache EXCEPT !.bid = tick[t].bid]
    <3>1. bid # NoBid /\ bid # cache.bid BY <2>2, <2>3, <2>4 DEF NewBid
    <3>2. /\ tick'[t].at = "cached bid" /\ tick'[t].lot = lot /\ tick'[t].bid = bid
          /\ tick'[t].cached = tick[t].cached
          BY <1>4, <2>2, <2>4, TickGoes DEF TickPlaces
    <3>3. /\ cache'.bid = bid /\ cache'.auction = cache.auction
          /\ cache'.ending = cache.ending
          BY <1>4, <2>2, <2>4
    <3>4. Unposted("bid", bid)'
      <4> SUFFICES ASSUME NEW p \in Media \X Subjects, p[2] = [kind |-> "bid", of |-> bid],
                          posts[p] > 0
                   PROVE  FALSE
        <5>1. \A p \in Media \X Subjects : posts[p] > 0 \/ posts[p] = 0 BY <1>4
        <5> QED BY <2>1, <5>1 DEF Unposted
      <4>1. p[2].kind = "bid" /\ p[2].of = bid OBVIOUS
      <4>2. NotLater(bid, cache.bid) BY <1>2, <4>1 DEF PostedIsCached
      <4>3. cache.bid # NoBid BY <4>2, StoreIs, AuctionBotConstants DEF NotLater
      <4>4. NotLater(cache.bid, bid) BY <2>3, <3>1, <4>3
      <4>5. bid = cache.bid
        <5>1. PICK was : was = cache.bid OBVIOUS
        <5> QED BY <4>2, <4>4, <5>1, LaterIsOrder
      <4> QED BY <3>1, <4>5
    <3>8. /\ tick'[t].cached.ending = cache'.ending
          /\ lot <= LastAuction(store') /\ cache'.auction = lot /\ cache'.auction <= lot
          /\ bid # NoBid => bid \in BidsOn(store', lot)
      <4>1. lot <= LastAuction(store') BY <1>7, <1>8, <2>3
      <4>2. BidsOn(store', lot) = BidsOn(store, lot) BY <1>8
      <4>3. lot <= lot OBVIOUS
      <4> QED BY <2>3, <3>2, <3>3, <4>1, <4>2, <4>3
    <3>5. TickKnows(t)' BY <3>1, <3>2, <3>3, <3>4, <3>8 DEF TickKnows
    <3>6. CacheIsPast'
      <4>1. bid \in DOMAIN store.bids BY <2>3, <3>1 DEF BidsOn
      <4> QED BY <1>2, <1>3, <1>8, <3>3, <4>1 DEF CacheIsPast
    <3>7. PostedIsCached'
      <4>1. ASSUME NEW g, NotLater(g, cache.bid)
            PROVE  NotLater(g, cache.bid)'
        <5>1. PICK was : was = cache.bid OBVIOUS
        <5>2. was # NoBid BY <4>1, <5>1, StoreIs, AuctionBotConstants DEF NotLater
        <5>3. NotLater(g, was) /\ NotLater(was, bid) BY <2>3, <3>1, <4>1, <5>1, <5>2
        <5>4. NotLater(g, bid) BY <5>3, LaterIsOrder
        <5> QED BY <1>8, <3>3, <5>4
      <4>2. cache.auction <= cache'.auction /\ cache.ending <= cache'.ending
            BY <1>5, <3>3
      <4> QED BY <1>2, <1>5, <2>1, <4>1, <4>2, CachesMoveForward
    <3> QED BY <1>11, <3>5, <3>6, <3>7
  <2>5. CASE Goes(t, "announced bid") /\ UNCHANGED cache
    <3>1. /\ tick'[t].at = "announced bid" /\ tick'[t].lot = lot /\ tick'[t].bid = bid
          /\ tick'[t].cached = tick[t].cached
          BY <1>4, <2>2, <2>5, TickGoes DEF TickPlaces
    <3>3. /\ tick'[t].cached.ending = cache'.ending
          /\ lot <= LastAuction(store') /\ cache'.auction = lot /\ cache'.auction <= lot
          /\ bid # NoBid => bid \in BidsOn(store', lot)
      <4>1. lot <= LastAuction(store') BY <1>7, <1>8, <2>3
      <4>2. BidsOn(store', lot) = BidsOn(store, lot) BY <1>8
      <4>3. lot <= lot OBVIOUS
      <4> QED BY <2>3, <2>5, <3>1, <4>1, <4>2, <4>3
    <3>2. TickKnows(t)' BY <3>1, <3>3 DEF TickKnows
    <3> QED BY <1>11, <1>13, <1>14, <2>1, <2>5, <3>2
  <2>6. CASE Ends(t) /\ UNCHANGED cache
    <3>1. tick'[t].at = "idle" BY <1>4, <2>6, TickEnds
    <3> QED BY <1>11, <1>12, <1>13, <1>14, <2>1, <2>6, <3>1
  <2> QED BY <1>19, <2>4, <2>5, <2>6 DEF CacheBid
<1>20. CASE AnnounceBid(t)
  <2>1. PICK reached \in SUBSET Media, media \in SUBSET Media :
          /\ Reaching(t, "announced bid", reached)
          /\ posts' = PostedOn(media, "bid", tick[t].bid)
        BY <1>20 DEF AnnounceBid
  <2>2. cache' = cache /\ At(t, "cached bid") BY <1>20 DEF AnnounceBid
  <2>3. TickKnows(t)'
    <3>1. CASE Ends(t) BY <1>4, <1>12, <3>1, TickEnds
    <3>2. CASE Goes(t, "announced bid")
      <4>1. /\ tick'[t].at = "announced bid" /\ tick'[t].lot = tick[t].lot
            /\ tick'[t].bid = tick[t].bid /\ tick'[t].cached = tick[t].cached
            BY <1>4, <3>2, TickGoes DEF TickPlaces
      <4> QED BY <1>2, <1>7, <1>8, <2>2, <4>1 DEF TickKnows, At
    <3> QED BY <2>1, <3>1, <3>2 DEF Reaching
  <2>4. PostedIsCached'
    <3>1. PICK bid : bid = tick[t].bid OBVIOUS
    <3>2. /\ Unposted("bid", bid) /\ cache.bid = bid
          /\ bid \in BidsOn(store, tick[t].lot)
          BY <1>2, <2>2, <3>1 DEF TickKnows, At
    <3>3. NotLater(bid, cache.bid) BY <3>2 DEF BidsOn, NotLater
    <3>4. posts' = PostedOn(media, "bid", bid) BY <2>1, <3>1
    <3> QED BY <1>2, <1>3, <1>4, <2>2, <3>2, <3>3, <3>4, CachedIsPosted
  <2> QED BY <1>11, <1>13, <2>2, <2>3, <2>4
<1>21. CASE CacheEnding(t)
  <2>1. posts' = posts /\ At(t, "announced bid") BY <1>21 DEF CacheEnding
  <2>2. CASE Goes(t, "cached ending") /\ cache' = [cache EXCEPT !.ending = tick[t].lot]
             /\ tick[t].cached.ending < tick[t].lot
    <3>1. PICK lot \in Nat, ending \in Nat :
            lot = tick[t].lot /\ ending = cache.ending
          BY <1>5, <1>6
    <3>2. ending < lot BY <1>2, <2>1, <2>2, <3>1 DEF TickKnows, At
    <3>3. /\ tick'[t].at = "cached ending" /\ tick'[t].lot = lot
          /\ tick'[t].bid = tick[t].bid /\ tick'[t].cached = tick[t].cached
          BY <1>4, <2>2, <3>1, TickGoes DEF TickPlaces
    <3>4. /\ cache'.bid = cache.bid /\ cache'.auction = cache.auction
          /\ cache'.ending = lot
          BY <1>4, <2>2, <3>1
    <3>5. Unposted("ending", lot)'
      <4> SUFFICES ASSUME NEW p \in Media \X Subjects, p[2] = [kind |-> "ending", of |-> lot]
                   PROVE  posts[p] = 0
          BY <2>1 DEF Unposted
      <4>1. p[2].kind = "ending" /\ p[2].of = lot OBVIOUS
      <4>2. posts[p] > 0 => lot <= ending BY <1>2, <3>1, <4>1 DEF PostedIsCached
      <4>3. ~(lot <= ending) BY <3>2
      <4>4. posts[p] \in 0 .. 2 BY <1>4
      <4> QED BY <4>2, <4>3, <4>4
    <3>6. TickKnows(t)'
          BY <1>2, <1>7, <1>8, <2>1, <3>1, <3>3, <3>4, <3>5 DEF TickKnows, At
    <3>7. PostedIsCached'
      <4>1. \A g : NotLater(g, cache.bid) => NotLater(g, cache.bid)' BY <1>8, <3>4
      <4>2. cache.auction <= cache'.auction /\ cache.ending <= cache'.ending
            BY <1>5, <3>1, <3>2, <3>4
      <4> QED BY <1>2, <1>5, <2>1, <4>1, <4>2, CachesMoveForward
    <3> QED BY <1>11, <1>13, <3>4, <3>6, <3>7
  <2>3. CASE Ends(t) /\ UNCHANGED cache
    <3>1. tick'[t].at = "idle" BY <1>4, <2>3, TickEnds
    <3> QED BY <1>11, <1>12, <1>13, <1>14, <2>1, <2>3, <3>1
  <2> QED BY <1>21, <2>2, <2>3 DEF CacheEnding
<1>22. CASE AnnounceEnding(t)
  <2>1. cache' = cache /\ At(t, "cached ending") /\ Ends(t) BY <1>22 DEF AnnounceEnding
  <2>2. tick'[t].at = "idle" BY <1>4, <2>1, TickEnds
  <2>3. PostedIsCached'
    <3>1. CASE posts' = posts BY <1>14, <2>1, <3>1
    <3>2. CASE posts' # posts
      <4>1. PICK media : posts' = PostedOn(media, "ending", tick[t].lot)
            BY <1>22, <3>2 DEF AnnounceEnding
      <4>2. Unposted("ending", tick[t].lot) /\ cache.ending = tick[t].lot
            BY <1>2, <2>1 DEF TickKnows, At
      <4>3. tick[t].lot <= cache.ending BY <1>5, <4>2
      <4> QED BY <1>2, <1>3, <1>4, <2>1, <4>1, <4>2, <4>3, CachedIsPosted
    <3> QED BY <3>1, <3>2
  <2> QED BY <1>11, <1>12, <1>13, <2>1, <2>2, <2>3
<1> QED BY <1>15, <1>16, <1>17, <1>18, <1>19, <1>20, <1>21, <1>22 DEF TickStep

\* The house moves on: what the ticks know stays true.
LEMMA HouseStaysSingle ==
  ASSUME AuctionBotTyped, StoreTyped, BidsInOrder, SingleInv, HouseStep
  PROVE  SingleInv'
<1> SUFFICES ASSUME Single'
             PROVE  OneTick' /\ CacheIsPast' /\ PostedIsCached' /\ \A t \in Ticks : TickKnows(t)'
    BY DEF SingleInv
<1>1. UNCHANGED houseUnseen /\ StoreTyped' BY HouseMovesOn
<1>2. /\ OneTick /\ CacheIsPast /\ PostedIsCached
      /\ \A t \in Ticks : TickKnows(t)
      BY <1>1 DEF SingleInv, Single, houseUnseen
<1>3. PICK last \in Nat, next \in Nat :
        last = LastAuction(store) /\ next = LastAuction(store') /\ last <= next
  <2>1. LastAuction(store) \in Nat BY StoreIs
  <2>2. LastAuction(store') \in Nat
    <3>1. PICK n \in Nat \ {0} : store'.auctions \in [1 .. n -> AuctionType]
          BY <1>1 DEF StoreTyped
    <3>2. DOMAIN store'.auctions = 1 .. n BY <3>1
    <3> QED BY <1>1, <3>2, LotsOnSale DEF StoreTyped
  <2> QED BY <2>1, <2>2, HouseMovesOn
<1>4. \A h \in DOMAIN store.bids : h \in DOMAIN store'.bids /\ store'.bids[h] = store.bids[h]
      BY HouseMovesOn
<1>5. \A g, h : NotLater(g, h) => NotLater(g, h)' BY <1>4 DEF NotLater, Later
<1>6. \A lot : BidsOn(store, lot) \subseteq BidsOn(store', lot) BY <1>4 DEF BidsOn
<1>7. \A l \in Nat : l <= last => l <= next BY <1>3
<1>8. /\ cache' = cache /\ tick' = tick /\ setup' = setup /\ posts' = posts
      BY <1>1 DEF houseUnseen
<1>9. cache.auction \in Nat /\ setup.lot \in Nat BY DEF AuctionBotTyped
<1>10. CacheIsPast'
  <2>1. cache.auction <= next BY <1>2, <1>3, <1>7, <1>9 DEF CacheIsPast
  <2>2. setup.at = "asked" => cache.auction <= setup.lot /\ setup.lot <= next
        BY <1>2, <1>3, <1>7, <1>9 DEF CacheIsPast
  <2>3. cache.bid # NoBid => cache.bid \in DOMAIN store'.bids
        BY <1>2, <1>4 DEF CacheIsPast
  <2> QED BY <1>3, <1>8, <2>1, <2>2, <2>3 DEF CacheIsPast
<1>11. PostedIsCached' BY <1>2, <1>5, <1>8 DEF PostedIsCached
<1>12. OneTick' BY <1>2, <1>8 DEF OneTick, At
<1>13. ASSUME NEW t \in Ticks
       PROVE  TickKnows(t)'
  <2>1. tick[t].lot \in Nat
    <3>1. tick[t] \in TickType BY DEF AuctionBotTyped
    <3> QED BY <3>1 DEF TickType
  <2>2. tick[t].lot <= last => tick[t].lot <= next BY <1>7, <2>1
  <2>3. \A kind, of : Unposted(kind, of) => Unposted(kind, of)' BY <1>8 DEF Unposted
  <2>4. NotLater(cache.bid, tick[t].bid) => NotLater(cache.bid, tick[t].bid)'
        BY <1>5, <1>8
  <2>5. tick[t].bid \in BidsOn(store, tick[t].lot)
          => tick[t].bid \in BidsOn(store', tick[t].lot)
        BY <1>6
  <2>6. TickKnows(t) BY <1>2
  <2>7. LastAuction(store) = last /\ LastAuction(store') = next BY <1>3
  <2> QED BY <1>8, <2>2, <2>3, <2>4, <2>5, <2>6, <2>7 DEF TickKnows
<1> QED BY <1>10, <1>11, <1>12, <1>13

\* The setup, and a restart.
LEMMA ProcessStaysSingle ==
  ASSUME AuctionBotTyped, StoreTyped, BidsInOrder, SingleInv, SetupStep \/ RestartAuctionBot
  PROVE  AuctionBotTyped' /\ UNCHANGED store /\ SingleInv'
<1> USE DEF AuctionBotTyped
<1>1. /\ UNCHANGED <<store, endsSoon, posts, replies, overlaps>>
      BY DEF SetupStep, SetupAsks, SetupStores, SetupFails, RestartAuctionBot
<1>2. LastAuction(store) \in Nat BY StoreIs
<1>3. AuctionBotTyped'
  <2>1. CASE SetupAsks
    <3>1. setup' \in [at : {"start", "asked", "done"}, lot : Nat] BY <1>2, <2>1 DEF SetupAsks
    <3> QED BY <1>1, <2>1, <3>1 DEF SetupAsks
  <2>2. CASE SetupStores
    <3>1. setup' \in [at : {"start", "asked", "done"}, lot : Nat]
          BY <2>2 DEF SetupStores, NoLot
    <3>2. PICK lot \in Nat : lot = setup.lot OBVIOUS
    <3>3. cache' \in [auction : Nat, bid : Bids, ending : Nat, reply : Nat]
          BY <2>2, <3>2 DEF SetupStores
    <3> QED BY <1>1, <2>2, <3>1, <3>3 DEF SetupStores
  <2>3. CASE SetupFails
    <3>1. setup' \in [at : {"start", "asked", "done"}, lot : Nat]
          BY <2>3 DEF SetupFails, NoLot
    <3>2. glitches' \in Nat BY <2>3 DEF SetupFails, Glitch
    <3> QED BY <1>1, <2>3, <3>1, <3>2 DEF SetupFails
  <2>4. CASE RestartAuctionBot
    <3>1. setup' \in [at : {"start", "asked", "done"}, lot : Nat]
          BY <2>4 DEF RestartAuctionBot, NoLot
    <3>2. NoTick \in TickType BY DEF NoTick, TickType, Bids, NoLot, TickPlaces
    <3>3. tick' \in [Ticks -> TickType] BY <2>4, <3>2 DEF RestartAuctionBot
    <3>4. mishaps' \in Nat BY <2>4 DEF RestartAuctionBot, Mishap
    <3> QED BY <1>1, <2>4, <3>1, <3>3, <3>4 DEF RestartAuctionBot
  <2> QED BY <2>1, <2>2, <2>3, <2>4 DEF SetupStep
<1>4. ASSUME Single'
      PROVE  OneTick' /\ CacheIsPast' /\ PostedIsCached' /\ \A t \in Ticks : TickKnows(t)'
  <2>1. /\ OneTick /\ CacheIsPast /\ PostedIsCached
        /\ \A t \in Ticks : TickKnows(t)
        BY <1>1, <1>4 DEF SingleInv, Single
  <2>2. \A t \in Ticks : At(t, "idle")'
    <3>1. CASE SetupStep
      <4>1. setup.at # "done" /\ tick' = tick
            BY <3>1 DEF SetupStep, SetupAsks, SetupStores, SetupFails
      <4> QED BY <2>1, <4>1 DEF OneTick, At
    <3>2. CASE RestartAuctionBot BY <3>2 DEF RestartAuctionBot, NoTick, At
    <3> QED BY <3>1, <3>2
  <2>3. OneTick' BY <2>2 DEF OneTick
  <2>4. \A t \in Ticks : TickKnows(t)' BY <2>2 DEF TickKnows, At
  <2>5. /\ \A g, h : NotLater(g, h)' <=> NotLater(g, h)
        /\ LastAuction(store') = LastAuction(store)
        BY <1>1 DEF NotLater, Later
  <2>6. PICK last \in Nat : last = LastAuction(store) BY <1>2
  <2>7. CASE cache' = cache
    <3>1. PostedIsCached' BY <1>1, <2>1, <2>5, <2>7 DEF PostedIsCached
    <3>2. CASE SetupAsks
      <4>1. setup'.lot = last BY <2>6, <3>2 DEF SetupAsks
      <4>2. cache.auction <= last /\ last <= last BY <2>1, <2>6 DEF CacheIsPast
      <4> QED BY <1>1, <2>1, <2>3, <2>4, <2>5, <2>6, <2>7, <3>1, <4>1, <4>2 DEF CacheIsPast
    <3>3. CASE ~SetupAsks
      <4>1. setup'.at # "asked"
            BY <3>3 DEF SetupStep, SetupStores, SetupFails, RestartAuctionBot
      <4>2. CacheIsPast' BY <1>1, <2>1, <2>5, <2>7, <4>1 DEF CacheIsPast
      <4> QED BY <2>3, <2>4, <3>1, <4>2
    <3> QED BY <3>2, <3>3
  <2>8. CASE cache' # cache
    <3>1. SetupStores
          BY <2>8 DEF SetupStep, SetupAsks, SetupFails, RestartAuctionBot
    <3>2. /\ cache'.auction = setup.lot /\ cache'.bid = cache.bid
          /\ cache'.ending = cache.ending /\ setup'.at = "done" /\ setup.at = "asked"
          BY <3>1 DEF SetupStores
    <3>3. CacheIsPast' BY <1>1, <2>1, <2>5, <3>2 DEF CacheIsPast
    <3>4. PostedIsCached'
      <4>1. cache.auction <= cache'.auction /\ cache'.auction \in Nat
            /\ cache.auction \in Nat
            BY <2>1, <3>2 DEF CacheIsPast
      <4>2. cache.ending <= cache'.ending /\ cache.ending \in Nat /\ cache'.ending \in Nat
            BY <3>2
      <4>3. \A g : NotLater(g, cache.bid) => NotLater(g, cache.bid)' BY <2>5, <3>2
      <4> QED BY <1>1, <2>1, <4>1, <4>2, <4>3, CachesMoveForward
    <3> QED BY <2>3, <2>4, <3>3, <3>4
  <2> QED BY <2>7, <2>8
<1>5. SingleInv' BY <1>4 DEF SingleInv
<1> QED BY <1>1, <1>3, <1>5

------------------------------------------------------------
(* The thread of a lot                                                     *)

\* A step of the only tick keeps the replies in their threads.
LEMMA TickKeepsThread ==
  ASSUME AuctionBotTyped, StoreTyped, BidsInOrder, SingleInv, ThreadInv,
         NEW t \in Ticks, TickStep(t)
  PROVE  ThreadInv'
<1>1. AuctionBotTyped' /\ UNCHANGED <<store, endsSoon, setup>> BY TickStaysTyped
<1>2. SUFFICES ASSUME overlaps' = 0
               PROVE  ThreadInv'
      BY DEF ThreadInv, Single
<1>3. Single /\ (StartTick(t) => setup.at = "done" /\ \A u \in Ticks : At(u, "idle"))
      BY <1>2, OverlapsAreCounted
<1>4. OneTick /\ TickKnows(t) BY <1>3 DEF SingleInv
<1>5. /\ tick \in [Ticks -> TickType]
      /\ cache \in [auction : Nat, bid : Bids, ending : Nat, reply : Nat]
      /\ replies \in [Hashes -> Nat]
      BY DEF AuctionBotTyped
<1>6. \A u \in Ticks \ {t} : tick'[u] = tick[u] BY <1>5, OthersStayPut
<1>7. setup.at = "done" /\ \A u \in Ticks \ {t} : At(u, "idle")
  <2>1. ~StartTick(t) => ~At(t, "idle")
        BY DEF TickStep, Answered, CacheAuction, AnnounceAuction, CacheBid, AnnounceBid,
               CacheEnding, AnnounceEnding, At
  <2> QED BY <1>3, <1>4, <2>1 DEF OneTick
<1>8. mishaps' = 0 => mishaps = 0
  <2>1. mishaps' = mishaps \/ mishaps' = mishaps + 1
        BY DEF TickStep, StartTick, Answered, CacheAuction, AnnounceAuction, ReachingSilently,
               CacheBid, AnnounceBid, Reaching, CacheEnding, AnnounceEnding, Mishap
  <2>2. mishaps \in Nat BY DEF AuctionBotTyped
  <2> QED BY <2>1, <2>2
<1>9. ~At(t, "cached lot") => ThreadIsOpen BY <1>7 DEF ThreadIsOpen, At
<1>10. ASSUME mishaps' = 0, ThreadIsOpen'
       PROVE  cache'.reply \in {NoLot, cache'.auction}
  <2>1. CASE At(t, "cached lot")
    <3>1. AnnounceAuction(t)
          BY <2>1 DEF TickStep, At, StartTick, Answered, CacheAuction, CacheBid, AnnounceBid,
                      CacheEnding, AnnounceEnding
    <3>2. PICK reached \in SUBSET Media :
            /\ ReachingSilently(t, "counting", reached)
            /\ cache' = IF "twitter" \in reached THEN [cache EXCEPT !.reply = tick[t].lot]
                        ELSE cache
          BY <3>1 DEF AnnounceAuction
    <3>3. ~Mishap
      <4>1. mishaps \in Nat /\ mishaps = 0 BY <1>8, <1>10 DEF AuctionBotTyped
      <4> QED BY <1>10, <4>1 DEF Mishap
    <3>4. reached = Media BY <3>2, <3>3 DEF ReachingSilently, Reaching
    <3>5. cache' = [cache EXCEPT !.reply = tick[t].lot] BY <3>2, <3>4 DEF Media
    <3>6. cache.auction = tick[t].lot BY <1>4, <2>1 DEF TickKnows, At
    <3> QED BY <1>5, <3>5, <3>6
  <2>2. CASE ~At(t, "cached lot")
    <3>1. cache.reply \in {NoLot, cache.auction} BY <1>3, <1>8, <1>9, <1>10, <2>2 DEF ThreadInv
    <3>2. CASE CacheAuction(t)
      <4>1. ~Goes(t, "cached lot")
        <5> SUFFICES ASSUME Goes(t, "cached lot")
                     PROVE  FALSE
            OBVIOUS
        <5>1. tick'[t].at = "cached lot" BY <1>5, TickGoes DEF TickPlaces
        <5> QED BY <1>10, <5>1 DEF ThreadIsOpen, At
      <4>2. cache' = cache BY <3>2, <4>1 DEF CacheAuction
      <4> QED BY <3>1, <4>2
    <3>3. CASE ~CacheAuction(t)
      <4>1. cache'.reply = cache.reply /\ cache'.auction = cache.auction
        <5>1. CASE CacheBid(t)
          <6>1. cache' = cache \/ cache' = [cache EXCEPT !.bid = tick[t].bid]
                BY <5>1 DEF CacheBid
          <6> QED BY <1>5, <6>1
        <5>2. CASE CacheEnding(t)
          <6>1. cache' = cache \/ cache' = [cache EXCEPT !.ending = tick[t].lot]
                BY <5>2 DEF CacheEnding
          <6> QED BY <1>5, <6>1
        <5>3. CASE ~CacheBid(t) /\ ~CacheEnding(t)
              BY <2>2, <3>3, <5>3 DEF TickStep, StartTick, Answered, AnnounceAuction,
                                      AnnounceBid, AnnounceEnding
        <5> QED BY <5>1, <5>2, <5>3
      <4> QED BY <3>1, <4>1
    <3> QED BY <3>2, <3>3
  <2> QED BY <2>1, <2>2
<1>11. /\ \A h \in Hashes : replies'[h] # NoLot => h \in DOMAIN store.bids
       /\ mishaps' = 0 =>
            \A h \in DOMAIN store.bids : replies'[h] \in {NoLot, store.bids[h].auction}
  <2>1. /\ \A h \in Hashes : replies[h] # NoLot => h \in DOMAIN store.bids
        /\ mishaps' = 0 =>
             \A h \in DOMAIN store.bids : replies[h] \in {NoLot, store.bids[h].auction}
        BY <1>3, <1>8 DEF ThreadInv
  <2>2. CASE replies' = replies BY <2>1, <2>2
  <2>3. CASE replies' # replies
    <3>1. AnnounceBid(t)
          BY <2>3 DEF TickStep, StartTick, Answered, CacheAuction, AnnounceAuction, CacheBid,
                      CacheEnding, AnnounceEnding
    <3>2. PICK bid, reply : bid = tick[t].bid /\ reply = cache.reply OBVIOUS
    <3>3. replies' = [replies EXCEPT ![bid] = reply] /\ At(t, "cached bid")
          BY <2>3, <3>1, <3>2 DEF AnnounceBid
    <3>4. bid \in BidsOn(store, tick[t].lot) /\ cache.auction = tick[t].lot
          BY <1>4, <3>2, <3>3 DEF TickKnows, At
    <3>5. bid \in DOMAIN store.bids /\ store.bids[bid].auction = cache.auction
          BY <3>4 DEF BidsOn
    <3>6. mishaps' = 0 => reply \in {NoLot, cache.auction}
      <4>1. ThreadIsOpen BY <1>9, <3>3 DEF At
      <4> QED BY <1>3, <1>8, <3>2, <4>1 DEF ThreadInv
    <3>7. \A h \in Hashes : replies'[h] = IF h = bid THEN reply ELSE replies[h]
          BY <1>5, <3>3
    <3>8. DOMAIN store.bids \subseteq Hashes BY StoreIs
    <3> QED BY <2>1, <3>5, <3>6, <3>7, <3>8
  <2> QED BY <2>2, <2>3
<1> QED BY <1>1, <1>7, <1>10, <1>11 DEF ThreadInv

\* So do the house, the setup and a restart.
LEMMA OthersKeepThread ==
  ASSUME AuctionBotTyped, StoreTyped, BidsInOrder, SingleInv, ThreadInv,
         HouseStep \/ SetupStep \/ RestartAuctionBot
  PROVE  ThreadInv'
<1>1. CASE HouseStep
  <2>1. /\ tick' = tick /\ setup' = setup /\ cache' = cache /\ replies' = replies
        /\ mishaps' = mishaps /\ overlaps' = overlaps /\ StoreTyped'
        BY <1>1, HouseMovesOn DEF houseUnseen
  <2>2. \A h \in DOMAIN store.bids :
          h \in DOMAIN store'.bids /\ store'.bids[h] = store.bids[h]
        BY <1>1, HouseMovesOn
  <2>3. \A h \in DOMAIN store'.bids : h \in Hashes
    <3>1. PICK S \in SUBSET Hashes : store'.bids \in [S -> BidType] BY <2>1 DEF StoreTyped
    <3> QED BY <3>1
  <2>4. ThreadIsOpen' <=> ThreadIsOpen BY <2>1 DEF ThreadIsOpen, At
  <2>5. Single => \A h \in Hashes : replies[h] # NoLot => h \in DOMAIN store'.bids
        BY <2>2 DEF ThreadInv
  <2>6. ASSUME Single, mishaps = 0, NEW h \in DOMAIN store'.bids
        PROVE  replies[h] \in {NoLot, store'.bids[h].auction}
    <3>1. CASE h \in DOMAIN store.bids BY <2>2, <2>6, <3>1 DEF ThreadInv
    <3>2. CASE h \notin DOMAIN store.bids BY <2>3, <2>6, <3>2 DEF ThreadInv
    <3> QED BY <3>1, <3>2
  <2> QED BY <2>1, <2>4, <2>5, <2>6 DEF ThreadInv, Single
<1>2. CASE SetupStep
  <2>1. /\ tick' = tick /\ replies' = replies /\ mishaps' = mishaps /\ overlaps' = overlaps
        /\ store' = store /\ setup.at # "done"
        BY <1>2 DEF SetupStep, SetupAsks, SetupStores, SetupFails
  <2>2. CASE SetupStores
    <3>1. cache \in [auction : Nat, bid : Bids, ending : Nat, reply : Nat]
          BY DEF AuctionBotTyped
    <3>2. cache'.reply = cache.reply /\ setup'.at = "done" BY <2>2, <3>1 DEF SetupStores
    <3> QED BY <2>1, <3>2 DEF ThreadInv, Single
  <2>3. CASE ~SetupStores
    <3>1. cache' = cache BY <1>2, <2>3 DEF SetupStep, SetupAsks, SetupFails
    <3> QED BY <2>1, <3>1 DEF ThreadInv, Single, ThreadIsOpen, At
  <2> QED BY <2>2, <2>3
<1>3. CASE RestartAuctionBot
  <2>1. mishaps' # 0
    <3>1. mishaps \in Nat /\ mishaps' = mishaps + 1
          BY <1>3 DEF AuctionBotTyped, RestartAuctionBot, Mishap
    <3> QED BY <3>1
  <2>2. store' = store /\ replies' = replies /\ overlaps' = overlaps
        BY <1>3 DEF RestartAuctionBot
  <2> QED BY <2>1, <2>2 DEF ThreadInv, Single
<1> QED BY <1>1, <1>2, <1>3

------------------------------------------------------------
(* The invariant                                                           *)

\* The bots are started for the first time with the first lot on sale.
LEMMA AuctionBotInitially == AuctionBotInit => AuctionBotInv
<1> SUFFICES ASSUME AuctionBotInit
             PROVE  AuctionBotInv
    OBVIOUS
<1>1. AuctionBotTyped
  <2>1. NoTick \in TickType BY DEF NoTick, TickType, TickPlaces, NoLot, Bids
  <2>2. cache \in [auction : Nat, bid : Bids, ending : Nat, reply : Nat]
        BY DEF AuctionBotInit, NoLot, Bids
  <2>3. tick \in [Ticks -> TickType] BY <2>1 DEF AuctionBotInit
  <2>4. setup \in [at : {"start", "asked", "done"}, lot : Nat] BY DEF AuctionBotInit, NoLot
  <2>5. posts \in [Media \X Subjects -> 0 .. 2]
    <3>1. 0 \in 0 .. 2 OBVIOUS
    <3> QED BY <3>1 DEF AuctionBotInit
  <2>6. replies \in [Hashes -> Nat] BY DEF AuctionBotInit, NoLot
  <2> QED BY <2>2, <2>3, <2>4, <2>5, <2>6 DEF AuctionBotInit, AuctionBotTyped
<1>2. PICK none : none = EmptyAuctionIndex.bids OBVIOUS
<1>3. PICK auction \in AuctionType :
        auction = [amount |-> 0, bidder |-> NoBid, startTime |-> 1, endTime |-> 2,
                   settled |-> FALSE]
      BY DEF AuctionType, Bids
<1>4. PICK auctions \in [1 .. 1 -> AuctionType] :
        auctions = [key \in 1 .. 1 |-> auction]
      OBVIOUS
<1>5. store = [nouns |-> {1}, auctions |-> auctions, bids |-> <<>>]
  <2>1. Saved(<<>>, 1, auction) = auctions
    <3>1. DOMAIN <<>> \cup {1} = 1 .. 1 OBVIOUS
    <3> QED BY <1>4, <3>1 DEF Saved
  <2> QED BY <1>3, <2>1 DEF AuctionBotInit, handleAuctionCreated, NounMinted,
                            EmptyAuctionIndex
<1>6. DOMAIN store.bids = {} BY <1>5
<1>7. StoreTyped
  <2>1. <<>> \in [{} -> BidType] OBVIOUS
  <2>2. Blocks = 1 .. 0 BY <1>6 DEF Blocks
  <2>3. auctions[1].startTime = 1 BY <1>3, <1>4
  <2>4. store.auctions = auctions /\ store.bids = <<>> /\ store.nouns = {1} BY <1>5
  <2>5. auctions \in UNION {[1 .. n -> AuctionType] : n \in Nat \ {0}}
    <3>1. 1 \in Nat \ {0} OBVIOUS
    <3> QED BY <3>1
  <2>6. <<>> \in UNION {[S -> BidType] : S \in SUBSET Hashes} BY <2>1
  <2>7. {1} \in SUBSET Nat OBVIOUS
  <2>8. store \in [nouns : SUBSET Nat,
                   auctions : UNION {[1 .. n -> AuctionType] : n \in Nat \ {0}},
                   bids : UNION {[S -> BidType] : S \in SUBSET Hashes}]
        BY <1>5, <2>5, <2>6, <2>7
  <2>9. \A lot \in DOMAIN store.auctions : store.auctions[lot].startTime = lot
    <3>1. DOMAIN auctions = {1} OBVIOUS
    <3> QED BY <2>3, <2>4, <3>1
  <2>10. 0 \in Nat OBVIOUS
  <2> QED BY <2>2, <2>8, <2>9, <2>10 DEF StoreTyped
<1>8. BidsInOrder BY <1>6 DEF BidsInOrder, BidsOn
<1>9. SingleInv
  <2>1. LastAuction(store) \in Nat BY <1>7, StoreIs
  <2>2. \A t \in Ticks : tick[t].at = "idle" BY DEF AuctionBotInit, NoTick
  <2>3. OneTick BY <2>2 DEF OneTick, At
  <2>4. \A t \in Ticks : TickKnows(t) BY <2>2 DEF TickKnows
  <2>5. \A p \in Media \X Subjects : posts[p] = 0 BY DEF AuctionBotInit
  <2>6. PostedIsCached BY <2>5 DEF PostedIsCached
  <2>7. CacheIsPast BY <2>1 DEF CacheIsPast, AuctionBotInit, NoLot
  <2> QED BY <2>3, <2>4, <2>6, <2>7 DEF SingleInv
<1>10. ThreadInv BY <1>6 DEF ThreadInv, AuctionBotInit
<1> QED BY <1>1, <1>7, <1>8, <1>9, <1>10 DEF AuctionBotInv

\* What is said of the subgraph is said of nothing else.
LEMMA StoreStays ==
  ASSUME StoreTyped, BidsInOrder, store' = store
  PROVE  StoreTyped' /\ BidsInOrder'
<1>1. StoreTyped' BY DEF StoreTyped, Blocks
<1>2. BidsInOrder' BY DEF BidsInOrder, BidsOn, Later
<1> QED BY <1>1, <1>2

\* Every step keeps the invariant.
LEMMA AuctionBotStepKeeps ==
  AuctionBotInv /\ [AuctionBotNext]_auctionBotVars => AuctionBotInv'
<1> SUFFICES ASSUME AuctionBotInv, [AuctionBotNext]_auctionBotVars
             PROVE  AuctionBotInv'
    OBVIOUS
<1> USE DEF AuctionBotInv
<1>1. CASE HouseStep
  <2>1. AuctionBotTyped'
    <3>1. UNCHANGED houseUnseen /\ endsSoon' \in BOOLEAN
          BY <1>1, HouseMovesOn DEF AuctionBotTyped
    <3> QED BY <3>1 DEF AuctionBotTyped, houseUnseen
  <2>2. StoreTyped' /\ BidsInOrder' BY <1>1, HouseMovesOn
  <2> QED BY <1>1, <2>1, <2>2, HouseStaysSingle, OthersKeepThread
<1>2. ASSUME NEW t \in Ticks, TickStep(t)
      PROVE  AuctionBotInv'
  <2>1. AuctionBotTyped' /\ store' = store BY <1>2, TickStaysTyped
  <2>2. StoreTyped' /\ BidsInOrder' BY <2>1, StoreStays
  <2>3. SingleInv' BY <1>2, TickStaysSingle DEF SingleInv, Single
  <2> QED BY <1>2, <2>1, <2>2, <2>3, TickKeepsThread
<1>3. CASE SetupStep \/ RestartAuctionBot
  <2>1. AuctionBotTyped' /\ store' = store /\ SingleInv' BY <1>3, ProcessStaysSingle
  <2>2. StoreTyped' /\ BidsInOrder' BY <2>1, StoreStays
  <2> QED BY <1>3, <2>1, <2>2, OthersKeepThread
<1>4. CASE UNCHANGED auctionBotVars
  <2>1. AuctionBotTyped' BY <1>4 DEF auctionBotVars, AuctionBotTyped
  <2>2. StoreTyped' /\ BidsInOrder' BY <1>4, StoreStays DEF auctionBotVars
  <2>3. SingleInv'
        BY <1>4 DEF auctionBotVars, SingleInv, Single, OneTick, At, CacheIsPast, PostedIsCached,
                    TickKnows, NotLater, Later, Unposted
  <2>4. ThreadInv' BY <1>4 DEF auctionBotVars, ThreadInv, Single, ThreadIsOpen, At
  <2> QED BY <2>1, <2>2, <2>3, <2>4
<1> QED BY <1>1, <1>2, <1>3, <1>4 DEF AuctionBotNext, HouseStep

\* AnnouncedOnce: every lot, bid and warning is announced at most once on each
\* medium, whatever fails and however often the bots are restarted, as long as
\* no tick starts before its turn: the caches are written before the
\* announcements are made (auction.ts).
THEOREM LotsAnnouncedOnce ==
  AuctionBotInit /\ [][AuctionBotNext]_auctionBotVars => []AnnouncedOnce
<1>1. AuctionBotInv => AnnouncedOnce
  <2> SUFFICES ASSUME AuctionBotInv, ~(overlaps > 0)
               PROVE  \A p \in DOMAIN posts : posts[p] <= 1
      BY DEF AnnouncedOnce
  <2>1. overlaps \in Nat /\ DOMAIN posts = Media \X Subjects
        BY DEF AuctionBotInv, AuctionBotTyped
  <2>2. Single BY <2>1 DEF Single
  <2> QED BY <2>1, <2>2 DEF AuctionBotInv, SingleInv, PostedIsCached
<1> QED BY <1>1, AuctionBotInitially, AuctionBotStepKeeps, PTL

\* RepliesStayInThread: a bid is tweeted in the thread of its own lot, unless an
\* announcement failed, the bots were restarted or ticks overlapped.
THEOREM BidsInTheirThread ==
  AuctionBotInit /\ [][AuctionBotNext]_auctionBotVars => []RepliesStayInThread
<1>1. AuctionBotInv => RepliesStayInThread
  <2> SUFFICES ASSUME AuctionBotInv, ~(mishaps > 0), ~(overlaps > 0)
               PROVE  \A h \in DOMAIN store.bids :
                        replies[h] \in {NoLot, store.bids[h].auction}
      BY DEF RepliesStayInThread
  <2>1. overlaps \in Nat /\ mishaps \in Nat BY DEF AuctionBotInv, AuctionBotTyped
  <2>2. Single /\ mishaps = 0 BY <2>1 DEF Single
  <2> QED BY <2>2 DEF AuctionBotInv, ThreadInv
<1> QED BY <1>1, AuctionBotInitially, AuctionBotStepKeeps, PTL

------------------------------------------------------------
(* THE GOVERNANCE HALF                                                     *)

(* Types.  The bots read the status and the votes; the parameters of the   *)
(* quorum play no part, so that the entity keeps the quorum of its event.  *)

VoteType == [voter : Voters, votes : Nat, support : {1}]

NoParams == [min |-> 0, max |-> 0, coefficient |-> 0]

EntityType ==
  [status : Statuses, proposer : {"proposer"}, createdBlock : {1}, startBlock : {2},
   endBlock : {3}, executionETA : {0, 4}, quorumVotes : {1}, tally : [0 .. 2 -> Nat],
   votes : SUBSET VoteType, totalSupply : {1}, params : {NoParams}]

StoreType ==
  [proposals : Seq(EntityType), proposalsQueued : Int, params : {NoParams},
   dynamicQuorumStartBlock : {NoBlock}]

Snapshot == [status : Statuses \cup {"NONE"}, votes : SUBSET VoteType]

Announcing == {"at risk", "warned", "done"}   \* the status and the votes have been seen to

JobType ==
  [at : {"idle", "fetched", "new", "changed"} \cup Announcing, old : Snapshot, new : Snapshot]

BotTyped ==
  /\ proposals \in StoreType /\ Len(proposals.proposals) <= 1
  /\ copy \in Snapshot /\ warned \in BOOLEAN /\ job \in [Jobs -> JobType]
  /\ seeding \in [at : {"start", "fetched", "done"}, new : Snapshot]
  /\ statusPosts \in [Statuses -> 0 .. 2] /\ votePosts \in [Voters -> 0 .. 2]
  /\ warningPosts \in 0 .. 2 /\ underWay \in SUBSET [vote : VoteType, by : Jobs]
  /\ unposted \in SUBSET VoteType /\ seeded \in SUBSET (Statuses \cup {"NONE"})
  /\ failures \in Nat /\ collisions \in Nat

------------------------------------------------------------
(* What has been read is past                                              *)

\* a proposal's statuses come in this order
Rank(s) ==
  CASE s = "NONE"     -> 0
    [] s = "PENDING"  -> 1
    [] s = "ACTIVE"   -> 2
    [] s = "QUEUED"   -> 3
    [] s = "EXECUTED" -> 4
    [] s = "CANCELLED" -> 5
    [] s = "VETOED"   -> 6

VotesNow == IF Proposed THEN proposals.proposals[1].votes ELSE {}

Past(p) == p.votes \subseteq VotesNow /\ Rank(p.status) <= Rank(Status)

OneVoteEach == \A v, w \in VotesNow : v.voter = w.voter => v = w

ReadIsPast ==
  /\ OneVoteEach /\ Past(copy) /\ Past(seeding.new)
  /\ \A j \in Jobs :
       /\ Past(job[j].old) /\ Past(job[j].new)
       /\ job[j].at # "idle" => job[j].new.status # "NONE"
  /\ \A post \in underWay : post.vote \in VotesNow

------------------------------------------------------------
(* What is copied has been seen to                                         *)

Handled(vote) ==
  \/ votePosts[vote.voter] > 0
  \/ \E post \in underWay : post.vote = vote
  \/ vote \in unposted

VotesHandled(p) == \A vote \in Counting(p) : Handled(vote)

StatusHandled(p) ==
  p.status \in seeded \/ (p.status \in Statuses /\ statusPosts[p.status] > 0)

CopiedIsDealtWith ==
  /\ StatusHandled(copy) /\ VotesHandled(copy)
  /\ \A j \in Jobs :
       /\ job[j].at \in Announcing => StatusHandled(job[j].new) /\ VotesHandled(job[j].new)
       /\ job[j].at = "changed" => VotesHandled(job[j].old)

------------------------------------------------------------
(* While nothing goes wrong                                                *)

Calm == failures + collisions = 0

\* what a job past its announcements has seen counts as copied
SeenStatus(s) ==
  \/ Rank(s) <= Rank(copy.status)
  \/ \E j \in Jobs : job[j].at \in Announcing /\ Rank(s) <= Rank(job[j].new.status)

SeenVoter(v) ==
  \/ \E vote \in copy.votes : vote.voter = v
  \/ \E j \in Jobs : job[j].at \in Announcing /\ \E vote \in job[j].new.votes : vote.voter = v

\* one job at a time, none before the setup has ended
Alone ==
  /\ \A j, k \in Jobs : job[j].at # "idle" /\ job[k].at # "idle" => j = k
  /\ \A j \in Jobs : job[j].at # "idle" => seeding.at = "done"
  /\ seeding.at # "done" =>
       /\ copy = NoProposal /\ underWay = {}
       /\ \A s \in Statuses : statusPosts[s] = 0
       /\ \A v \in Voters : votePosts[v] = 0

\* the copy is what the job will replace
CopyIsOlder ==
  \A j \in Jobs :
    /\ job[j].at # "idle" =>
         copy.votes \subseteq job[j].new.votes /\ Rank(copy.status) <= Rank(job[j].new.status)
    /\ job[j].at = "new" => copy = NoProposal
    /\ job[j].at = "changed" => job[j].old = copy /\ copy.status # job[j].new.status

StatusesOnce ==
  \A s \in Statuses : statusPosts[s] <= 1 /\ (statusPosts[s] = 1 => SeenStatus(s))

VotesOnce ==
  /\ \A v \in Voters : votePosts[v] <= 1 /\ (votePosts[v] = 1 => SeenVoter(v))
  /\ \A post \in underWay :
       /\ SeenVoter(post.vote.voter) /\ votePosts[post.vote.voter] = 0
       /\ \A other \in underWay : other.vote.voter = post.vote.voter => other = post

WarningOnce ==
  /\ warningPosts <= 1
  /\ warningPosts = 1 => warned \/ \E j \in Jobs : job[j].at = "warned"

CalmInv == Calm => Alone /\ CopyIsOlder /\ StatusesOnce /\ VotesOnce /\ WarningOnce

BotInv == BotTyped /\ ReadIsPast /\ CopiedIsDealtWith /\ CalmInv

------------------------------------------------------------
(* The steps of the governor, and those of the bots                        *)

GovernorStep ==
  \/ Create \/ \E v \in Voters, votes \in Votes : Ballot(v, votes)
  \/ Decide \/ Stop \/ Wait

BotStep ==
  \/ SeedStep
  \/ \E j \in Jobs : JobStep(j)
  \/ RestartGovernanceBot
  \/ \E post \in underWay : AnnounceVote(post)

\* The ranks are numbers, and no two statuses share one.
LEMMA RankIsNumber ==
  /\ \A s \in Statuses \cup {"NONE"} : Rank(s) \in 0 .. 6
  /\ \A s, t \in Statuses \cup {"NONE"} : Rank(s) = Rank(t) => s = t
  /\ \A s \in Statuses : Rank(s) > 0
  /\ Rank("NONE") = 0
<1>1. /\ Rank("NONE") = 0 /\ Rank("PENDING") = 1 /\ Rank("ACTIVE") = 2 /\ Rank("QUEUED") = 3
      /\ Rank("EXECUTED") = 4 /\ Rank("CANCELLED") = 5 /\ Rank("VETOED") = 6
      BY DEF Rank
<1>2. \A s \in Statuses \cup {"NONE"} : Rank(s) \in 0 .. 6 BY <1>1 DEF Statuses
<1>3. \A s \in Statuses : Rank(s) > 0 BY <1>1 DEF Statuses
<1>4. \A s, t \in Statuses \cup {"NONE"} : Rank(s) = Rank(t) => s = t
  <2> SUFFICES ASSUME NEW s \in Statuses \cup {"NONE"}, NEW t \in Statuses \cup {"NONE"},
                      Rank(s) = Rank(t)
               PROVE  s = t
      OBVIOUS
  <2>1. \/ s = "NONE" \/ s = "PENDING" \/ s = "ACTIVE" \/ s = "QUEUED"
        \/ s = "EXECUTED" \/ s = "CANCELLED" \/ s = "VETOED"
        BY DEF Statuses
  <2>2. \/ t = "NONE" \/ t = "PENDING" \/ t = "ACTIVE" \/ t = "QUEUED"
        \/ t = "EXECUTED" \/ t = "CANCELLED" \/ t = "VETOED"
        BY DEF Statuses
  <2> QED BY <1>1, <2>1, <2>2
<1> QED BY <1>1, <1>2, <1>3, <1>4

\* What the subgraph holds of the proposal, and what a tick reads of it.
LEMMA WhatIsRead ==
  ASSUME BotTyped
  PROVE  /\ Status \in Statuses \cup {"NONE"} /\ VotesNow \in SUBSET VoteType
         /\ Proposed => /\ Len(proposals.proposals) = 1
                        /\ proposals.proposals[1] \in EntityType
                        /\ Status \in Statuses /\ Status # "NONE"
                        /\ [status |-> Status, votes |-> proposals.proposals[1].votes]
                             \in Snapshot
                        /\ proposals.proposals[1].votes = VotesNow
         /\ ~Proposed => Len(proposals.proposals) = 0 /\ Status = "NONE"
<1>1. proposals.proposals \in Seq(EntityType) /\ Len(proposals.proposals) <= 1
      BY DEF BotTyped, StoreType
<1>2. CASE Proposed
  <2>1. Len(proposals.proposals) = 1 /\ proposals.proposals[1] \in EntityType
    <3>1. Len(proposals.proposals) \in Nat \ {0} BY <1>1, <1>2, EmptySeq DEF Proposed
    <3>2. PICK n \in Nat \ {0} : n = Len(proposals.proposals) BY <3>1
    <3>3. n <= 1 BY <1>1, <3>2
    <3>4. n = 1 BY <3>3
    <3>5. Len(proposals.proposals) = 1 BY <3>2, <3>4
    <3> QED BY <1>1, <3>5, ElementOfSeq
  <2> QED BY <1>2, <2>1 DEF Status, VotesNow, EntityType, Snapshot, Statuses
<1>3. CASE ~Proposed
      BY <1>1, <1>3 DEF Status, VotesNow, Proposed
<1> QED BY <1>2, <1>3

\* The events of the governor: votes are only added, one for each voter, the
\* status moves on, and the bots see nothing of it before they ask.
LEMMA GovernorMovesOn ==
  ASSUME BotTyped, OneVoteEach, GovernorStep
  PROVE  /\ proposals' \in StoreType /\ Len(proposals'.proposals) <= 1
         /\ VotesNow \subseteq VotesNow' /\ Rank(Status) <= Rank(Status')
         /\ OneVoteEach' /\ UNCHANGED botSide
<1> USE RankIsNumber
<1>1. proposals \in StoreType /\ Len(proposals.proposals) <= 1 BY DEF BotTyped
<1>2. CASE Create
  <2>1. PICK entity \in EntityType :
          /\ proposals' = [proposals EXCEPT !.proposals = Append(@, entity)]
          /\ entity.votes = {} /\ entity.status = "PENDING"
    <3>1. PICK entity : entity =
            [status |-> "PENDING", proposer |-> "proposer", createdBlock |-> 1,
             startBlock |-> 2, endBlock |-> 3, executionETA |-> 0, quorumVotes |-> 1,
             tally |-> [support \in 0 .. 2 |-> 0], votes |-> {}, totalSupply |-> 1,
             params |-> proposals.params]
          OBVIOUS
    <3>2. proposals.params = NoParams BY <1>1 DEF StoreType
    <3>3. [support \in 0 .. 2 |-> 0] \in [0 .. 2 -> Nat] OBVIOUS
    <3>4. entity \in EntityType BY <3>1, <3>2, <3>3 DEF EntityType, Statuses
    <3>5. proposals' = [proposals EXCEPT !.proposals = Append(@, entity)]
          BY <1>2, <3>1 DEF Create, handleProposalCreatedWithRequirements, NullEta
    <3> QED BY <3>1, <3>4, <3>5
  <2>2. proposals.proposals = <<>> BY <1>2 DEF Create, Proposed
  <2>3. proposals' \in StoreType /\ proposals'.proposals = <<entity>>
    <3>1. Append(proposals.proposals, entity) = <<entity>> BY <2>2
    <3>2. <<entity>> \in Seq(EntityType) OBVIOUS
    <3> QED BY <1>1, <2>1, <3>1, <3>2 DEF StoreType
  <2>4. Status = "NONE" /\ VotesNow = {} BY <2>2 DEF Status, VotesNow, Proposed
  <2>5. Status' = "PENDING" /\ VotesNow' = {} BY <2>1, <2>3 DEF Status, VotesNow, Proposed
  <2>6. Rank("NONE") <= Rank("PENDING") BY DEF Rank
  <2>7. Len(<<entity>>) = 1 OBVIOUS
  <2>8. UNCHANGED botSide BY <1>2 DEF Create
  <2>9. Rank(Status) <= Rank(Status') BY <2>4, <2>5, <2>6
  <2>10. Len(proposals'.proposals) <= 1 BY <2>3, <2>7
  <2> QED BY <2>3, <2>4, <2>5, <2>8, <2>9, <2>10 DEF OneVoteEach
<1>3. ASSUME NEW entity \in EntityType, NEW queued \in Int, Proposed,
             proposals' = [proposals EXCEPT !.proposals[1] = entity, !.proposalsQueued = queued],
             VotesNow \subseteq entity.votes, Rank(Status) <= Rank(entity.status)
      PROVE  /\ proposals' \in StoreType /\ Len(proposals'.proposals) <= 1
             /\ VotesNow \subseteq VotesNow' /\ Rank(Status) <= Rank(Status')
             /\ VotesNow' = entity.votes
  <2>1. Len(proposals.proposals) = 1 BY <1>3, WhatIsRead
  <2>2. proposals' \in StoreType /\ Len(proposals'.proposals) = 1
        /\ proposals'.proposals[1] = entity
    <3>1. PICK s \in Seq(EntityType) : s = proposals.proposals /\ Len(s) = 1
          BY <1>1, <2>1 DEF StoreType
    <3>2. /\ [s EXCEPT ![1] = entity] \in Seq(EntityType)
          /\ Len([s EXCEPT ![1] = entity]) = 1
          /\ [s EXCEPT ![1] = entity][1] = entity
          BY <3>1, ExceptSeq
    <3> QED BY <1>1, <1>3, <3>1, <3>2 DEF StoreType
  <2>3. proposals'.proposals # <<>> BY <2>2, EmptySeq DEF StoreType
  <2>4. Status' = entity.status /\ VotesNow' = entity.votes
        BY <2>2, <2>3 DEF Status, VotesNow, Proposed
  <2>5. Len(proposals'.proposals) <= 1 BY <2>2
  <2>6. VotesNow \subseteq VotesNow' BY <1>3, <2>4
  <2>7. Rank(Status) <= Rank(Status') BY <1>3, <2>4
  <2> QED BY <2>2, <2>4, <2>5, <2>6, <2>7
<1>4. ASSUME Proposed, NEW p, p = proposals.proposals[1]
      PROVE  /\ p \in EntityType /\ Status = p.status /\ VotesNow = p.votes
             /\ proposals.proposalsQueued \in Int /\ Len(proposals.proposals) = 1
      BY <1>1, <1>4, WhatIsRead DEF Status, VotesNow, StoreType
<1>5. ASSUME NEW v \in Voters, NEW votes \in Votes, Ballot(v, votes)
      PROVE  /\ proposals' \in StoreType /\ Len(proposals'.proposals) <= 1
             /\ VotesNow \subseteq VotesNow' /\ Rank(Status) <= Rank(Status')
             /\ OneVoteEach' /\ UNCHANGED botSide
  <2>1. Proposed /\ UNCHANGED botSide /\ Status \in {"PENDING", "ACTIVE"} BY <1>5 DEF Ballot
  <2>2. PICK p : p = proposals.proposals[1] OBVIOUS
  <2>3. p \in EntityType /\ Status = p.status /\ VotesNow = p.votes
        /\ proposals.proposalsQueued \in Int /\ Len(proposals.proposals) = 1
        BY <2>1, <2>2, <1>4
  <2>4. PICK queued \in Int : queued = proposals.proposalsQueued BY <2>3
  <2>5. PICK vote : vote = [voter |-> v, votes |-> votes, support |-> 1] OBVIOUS
  <2>6. vote \in VoteType BY <2>5, GovernanceBotConstants DEF VoteType
  <2>7. PICK tally \in [0 .. 2 -> Nat] : tally = [p.tally EXCEPT ![1] = @ + votes]
    <3>1. p.tally \in [0 .. 2 -> Nat] /\ votes \in Nat
          BY <2>3, GovernanceBotConstants DEF EntityType
    <3>2. PICK old \in [0 .. 2 -> Nat] : old = p.tally BY <3>1
    <3>3. [old EXCEPT ![1] = @ + votes] \in [0 .. 2 -> Nat] BY <3>1, <3>2
    <3> QED BY <3>2, <3>3
  <2>8. PICK status \in Statuses :
          status = IF p.status = "PENDING" THEN "ACTIVE" ELSE p.status
        BY <2>3 DEF EntityType, Statuses
  <2>9. PICK entity :
          entity = [p EXCEPT !.tally = tally, !.votes = @ \cup {vote}, !.status = status]
        OBVIOUS
  <2>10. entity \in EntityType /\ entity.votes = p.votes \cup {vote}
         /\ entity.status = status
         BY <2>3, <2>6, <2>9 DEF EntityType
  <2>11. proposals.dynamicQuorumStartBlock = NoBlock BY <1>1 DEF StoreType
  <2>12. proposals' = [proposals EXCEPT !.proposals[1] = entity]
    <3>1. proposals' = handleVoteCast(proposals, 1, v, 1, votes) BY <1>5 DEF Ballot
    <3>2. handleVoteCast(proposals, 1, v, 1, votes) =
            [proposals EXCEPT !.proposals[1] =
               [[p EXCEPT !.tally[1] = @ + votes, !.votes = @ \cup {vote}]
                  EXCEPT !.quorumVotes = @,
                         !.status = IF @ = "PENDING" THEN "ACTIVE" ELSE @]]
          BY <2>2, <2>5, <2>11 DEF handleVoteCast
    <3>3. [[p EXCEPT !.tally[1] = @ + votes, !.votes = @ \cup {vote}]
             EXCEPT !.quorumVotes = @,
                    !.status = IF @ = "PENDING" THEN "ACTIVE" ELSE @] = entity
          BY <2>3, <2>7, <2>8, <2>9 DEF EntityType
    <3> QED BY <3>1, <3>2, <3>3
  <2>13. proposals' = [proposals EXCEPT !.proposals[1] = entity, !.proposalsQueued = queued]
         BY <2>4, <2>12, <1>1 DEF StoreType
  <2>14. Rank(Status) <= Rank(entity.status) BY <2>1, <2>3, <2>8, <2>10 DEF Rank
  <2>15. /\ proposals' \in StoreType /\ Len(proposals'.proposals) <= 1
         /\ VotesNow \subseteq VotesNow' /\ Rank(Status) <= Rank(Status')
         /\ VotesNow' = VotesNow \cup {vote}
         BY <1>3, <2>1, <2>3, <2>10, <2>13, <2>14
  <2>16. \A other \in VotesNow : other.voter # v BY <1>5, <2>2, <2>3 DEF Ballot
  <2>17. OneVoteEach' BY <2>5, <2>15, <2>16 DEF OneVoteEach
  <2> QED BY <2>1, <2>15, <2>17
<1>6. ASSUME NEW status \in Statuses, NEW eta \in {0, 4}, NEW queued \in Int, Proposed,
             proposals' = [proposals EXCEPT !.proposals[1].status = status,
                                            !.proposals[1].executionETA = eta,
                                            !.proposalsQueued = queued],
             Rank(Status) <= Rank(status), UNCHANGED botSide
      PROVE  /\ proposals' \in StoreType /\ Len(proposals'.proposals) <= 1
             /\ VotesNow \subseteq VotesNow' /\ Rank(Status) <= Rank(Status')
             /\ OneVoteEach' /\ UNCHANGED botSide
  <2>1. PICK p : p = proposals.proposals[1] OBVIOUS
  <2>2. p \in EntityType /\ Status = p.status /\ VotesNow = p.votes
        /\ Len(proposals.proposals) = 1
        BY <1>6, <2>1, <1>4
  <2>3. PICK entity : entity = [p EXCEPT !.status = status, !.executionETA = eta] OBVIOUS
  <2>4. entity \in EntityType /\ entity.votes = p.votes /\ entity.status = status
        BY <1>6, <2>2, <2>3 DEF EntityType
  <2>5. proposals' = [proposals EXCEPT !.proposals[1] = entity, !.proposalsQueued = queued]
    <3>1. PICK s \in Seq(EntityType) : s = proposals.proposals /\ s[1] = p /\ Len(s) = 1
          BY <1>1, <2>1, <2>2 DEF StoreType
    <3>2. [[s EXCEPT ![1].status = status] EXCEPT ![1].executionETA = eta]
            = [s EXCEPT ![1] = entity]
          BY <2>2, <2>3, <3>1 DEF EntityType
    <3> QED BY <1>1, <1>6, <3>1, <3>2 DEF StoreType
  <2>6. /\ proposals' \in StoreType /\ Len(proposals'.proposals) <= 1
        /\ VotesNow \subseteq VotesNow' /\ Rank(Status) <= Rank(Status')
        /\ VotesNow' = VotesNow
        BY <1>3, <1>6, <2>2, <2>4, <2>5
  <2> QED BY <1>6, <2>6 DEF OneVoteEach
<1>7. ASSUME Proposed
      PROVE  \E p \in EntityType :
               /\ p = proposals.proposals[1] /\ Status = p.status
               /\ proposals.proposalsQueued \in Int
               /\ Len(proposals.proposals) = 1
               /\ p.executionETA \in {0, 4}
  <2>1. PICK p : p = proposals.proposals[1] OBVIOUS
  <2>2. p \in EntityType /\ Status = p.status /\ proposals.proposalsQueued \in Int
        /\ Len(proposals.proposals) = 1
        BY <1>7, <2>1, <1>4
  <2> QED BY <2>1, <2>2 DEF EntityType
<1>8. CASE Decide
  <2>1. Proposed /\ UNCHANGED botSide BY <1>8 DEF Decide
  <2>2. PICK p \in EntityType :
               /\ p = proposals.proposals[1] /\ Status = p.status
               /\ proposals.proposalsQueued \in Int
               /\ Len(proposals.proposals) = 1
               /\ p.executionETA \in {0, 4}
        BY <1>7, <2>1
  <2>3. CASE Status = "ACTIVE" /\ proposals' = handleProposalQueued(proposals, 1, 4)
    <3>1. PICK queued \in Int : queued = proposals.proposalsQueued + 1 BY <2>2
    <3>2. proposals' = [proposals EXCEPT !.proposals[1].status = "QUEUED",
                                         !.proposals[1].executionETA = 4,
                                         !.proposalsQueued = queued]
          BY <2>3, <3>1, <1>1 DEF handleProposalQueued, StoreType
    <3>3. Rank(Status) <= Rank("QUEUED") BY <2>3 DEF Rank
    <3> QED BY <1>6, <2>1, <3>2, <3>3 DEF Statuses
  <2>4. CASE Status = "QUEUED" /\ proposals' = handleProposalExecuted(proposals, 1)
    <3>1. PICK queued \in Int : queued = proposals.proposalsQueued - 1 BY <2>2
    <3>2. proposals' = [proposals EXCEPT !.proposals[1].status = "EXECUTED",
                                         !.proposals[1].executionETA = 0,
                                         !.proposalsQueued = queued]
          BY <2>4, <3>1, <1>1 DEF handleProposalExecuted, StoreType, NullEta
    <3>3. Rank(Status) <= Rank("EXECUTED") BY <2>4 DEF Rank
    <3> QED BY <1>6, <2>1, <3>2, <3>3 DEF Statuses
  <2> QED BY <1>8, <2>3, <2>4 DEF Decide
<1>9. CASE Stop
  <2>1. Proposed /\ UNCHANGED botSide /\ Status \notin {"EXECUTED", "VETOED"} BY <1>9 DEF Stop
  <2>2. PICK p \in EntityType :
               /\ p = proposals.proposals[1] /\ Status = p.status
               /\ proposals.proposalsQueued \in Int
               /\ Len(proposals.proposals) = 1
               /\ p.executionETA \in {0, 4}
        BY <1>7, <2>1
  <2>3. PICK queued \in Int : queued = proposals.proposalsQueued BY <2>2
  <2>4. PICK eta \in {0, 4} : eta = p.executionETA BY <2>2
  <2>5. ASSUME NEW status \in Statuses,
               proposals' = [proposals EXCEPT !.proposals[1].status = status]
        PROVE  proposals' = [proposals EXCEPT !.proposals[1].status = status,
                                         !.proposals[1].executionETA = eta,
                                         !.proposalsQueued = queued]
    <3>1. [p EXCEPT !.status = status] = [p EXCEPT !.status = status, !.executionETA = eta]
          BY <2>4 DEF EntityType
    <3>2. PICK s \in Seq(EntityType) : s = proposals.proposals /\ s[1] = p /\ Len(s) = 1
          BY <1>1, <2>2 DEF StoreType
    <3>3. [[s EXCEPT ![1].status = status] EXCEPT ![1].executionETA = eta]
            = [s EXCEPT ![1].status = status]
          BY <3>1, <3>2
    <3> QED BY <1>1, <2>3, <2>5, <3>2, <3>3 DEF StoreType
  <2>6. CASE Status # "CANCELLED" /\ proposals' = handleProposalCanceled(proposals, 1)
    <3>1. Rank(Status) <= Rank("CANCELLED") /\ "CANCELLED" \in Statuses
          BY <2>1, <2>6, WhatIsRead DEF Rank, Statuses
    <3>2. proposals' = [proposals EXCEPT !.proposals[1].status = "CANCELLED"]
          BY <2>6 DEF handleProposalCanceled
    <3> QED BY <1>6, <2>1, <2>5, <3>1, <3>2
  <2>7. CASE proposals' = handleProposalVetoed(proposals, 1)
    <3>1. Rank(Status) <= Rank("VETOED") /\ "VETOED" \in Statuses
          BY <2>1, WhatIsRead DEF Rank, Statuses
    <3>2. proposals' = [proposals EXCEPT !.proposals[1].status = "VETOED"]
          BY <2>7 DEF handleProposalVetoed
    <3> QED BY <1>6, <2>1, <2>5, <3>1, <3>2
  <2> QED BY <1>9, <2>6, <2>7 DEF Stop
<1>10. CASE Wait
  <2>1. UNCHANGED <<proposals, botSide>> BY <1>10 DEF Wait
  <2>2. Status \in Statuses \cup {"NONE"} BY WhatIsRead
  <2>3. Rank(Status) <= Rank(Status) BY <2>2
  <2> QED BY <1>1, <2>1, <2>3 DEF OneVoteEach, VotesNow, Status, Proposed
<1> QED BY <1>2, <1>5, <1>8, <1>9, <1>10 DEF GovernorStep

------------------------------------------------------------
(* What a step of a bot does to its job                                    *)

Places == {"idle", "fetched", "new", "changed"} \cup Announcing

\* More counts up to two.
LEMMA MoreCounts ==
  \A n \in 0 .. 2 : /\ More(n) \in 0 .. 2 /\ More(n) > 0 /\ (n = 0 => More(n) = 1)
                    /\ n <= 1 /\ n # 1 => n = 0
BY DEF More

\* A job that moves on keeps what it has read.
LEMMA MovesToMeans ==
  ASSUME job \in [Jobs -> JobType], NEW j \in Jobs, NEW where \in Places, MovesTo(j, where)
  PROVE  /\ job' \in [Jobs -> JobType]
         /\ job'[j] = [at |-> where, old |-> job[j].old, new |-> job[j].new]
         /\ \A k \in Jobs : k # j => job'[k] = job[k]
BY DEF MovesTo, JobType, Places

\* A job that ends forgets what it has read.
LEMMA DropsMeans ==
  ASSUME job \in [Jobs -> JobType], NEW j \in Jobs, Drops(j)
  PROVE  /\ job' \in [Jobs -> JobType]
         /\ job'[j] = NoJob
         /\ \A k \in Jobs : k # j => job'[k] = job[k]
<1>1. NoJob \in JobType BY DEF NoJob, JobType, Snapshot, NoProposal
<1> QED BY <1>1 DEF Drops

\* The announcements of the votes are those of the votes the copy lacks.
LEMMA StartVotesMeans ==
  ASSUME BotTyped, NEW j \in Jobs, NEW old \in Snapshot, StartVotes(j, old)
  PROVE  /\ job' \in [Jobs -> JobType]
         /\ \E where \in {"at risk", "done"} :
              job'[j] = [at |-> where, old |-> NoProposal, new |-> job[j].new]
         /\ \A k \in Jobs : k # j => job'[k] = job[k]
         /\ underWay' \in SUBSET [vote : VoteType, by : Jobs]
         /\ underWay \subseteq underWay'
         /\ \A vote \in extractNewVotes(old, job[j].new) :
              [vote |-> vote, by |-> j] \in underWay'
         /\ \A post \in underWay' \ underWay :
              post.vote \in extractNewVotes(old, job[j].new) /\ post.by = j
<1>1. job \in [Jobs -> JobType] /\ underWay \in SUBSET [vote : VoteType, by : Jobs]
      BY DEF BotTyped
<1>2. PICK where \in {"at risk", "done"} :
        where = IF isAtRiskOfExpiry(job[j].new) THEN "at risk" ELSE "done"
      OBVIOUS
<1>3. job' = [job EXCEPT ![j].at = where, ![j].old = NoProposal]
      BY <1>2 DEF StartVotes
<1>4. NoProposal \in Snapshot BY DEF NoProposal, Snapshot
<1>5. job[j] \in JobType BY <1>1
<1>6. [at |-> where, old |-> NoProposal, new |-> job[j].new] \in JobType
      BY <1>4, <1>5 DEF JobType, Announcing
<1>7. job'[j] = [at |-> where, old |-> NoProposal, new |-> job[j].new]
      BY <1>1, <1>3, <1>5 DEF JobType
<1>8. \A k \in Jobs : k # j => job'[k] = job[k] BY <1>1, <1>3
<1>9. job' \in [Jobs -> JobType] BY <1>1, <1>3, <1>6, <1>7, <1>8
<1>10. underWay' =
         underWay \cup {[vote |-> v, by |-> j] : v \in extractNewVotes(old, job[j].new)}
       BY DEF StartVotes
<1>11. extractNewVotes(old, job[j].new) \subseteq VoteType
       BY <1>5 DEF extractNewVotes, JobType, Snapshot
<1>12. /\ underWay' \in SUBSET [vote : VoteType, by : Jobs] /\ underWay \subseteq underWay'
       /\ \A vote \in extractNewVotes(old, job[j].new) :
            [vote |-> vote, by |-> j] \in underWay'
       /\ \A post \in underWay' \ underWay :
            post.vote \in extractNewVotes(old, job[j].new) /\ post.by = j
  <2>1. PICK fresh \in SUBSET VoteType : fresh = extractNewVotes(old, job[j].new) BY <1>11
  <2>2. underWay' = underWay \cup {[vote |-> v, by |-> j] : v \in fresh} BY <1>10, <2>1
  <2>3. \A v \in fresh : [vote |-> v, by |-> j] \in underWay' BY <2>2
  <2>4. \A post \in underWay' \ underWay : \E v \in fresh : post = [vote |-> v, by |-> j]
        BY <2>2
  <2>5. underWay' \in SUBSET [vote : VoteType, by : Jobs]
    <3>1. \A v \in fresh : [vote |-> v, by |-> j] \in [vote : VoteType, by : Jobs]
          BY <2>1
    <3> QED BY <1>1, <2>2, <3>1
  <2>6. underWay \subseteq underWay' BY <2>2
  <2>7. ASSUME NEW post \in underWay' \ underWay
        PROVE  post.vote \in fresh /\ post.by = j
    <3>1. PICK v \in fresh : post = [vote |-> v, by |-> j] BY <2>4
    <3> QED BY <3>1
  <2> QED BY <2>1, <2>3, <2>5, <2>6, <2>7
<1> QED BY <1>7, <1>8, <1>9, <1>12

\* A tick reads the proposal as it is.
LEMMA FetchMeans ==
  ASSUME BotTyped, NEW j \in Jobs, Fetch(j)
  PROVE  /\ job' \in [Jobs -> JobType] /\ Proposed
         /\ job'[j] = [at |-> "fetched", old |-> NoProposal,
                       new |-> [status |-> Status, votes |-> VotesNow]]
         /\ \A k \in Jobs : k # j => job'[k] = job[k]
         /\ [status |-> Status, votes |-> VotesNow] \in Snapshot /\ Status # "NONE"
         /\ collisions' \in Nat
<1>1. job \in [Jobs -> JobType] /\ collisions \in Nat BY DEF BotTyped
<1>2. Proposed /\ Status # "NONE" /\ proposals.proposals[1].votes = VotesNow
      /\ [status |-> Status, votes |-> VotesNow] \in Snapshot
      BY WhatIsRead DEF Fetch
<1>3. PICK new \in Snapshot : new = [status |-> Status, votes |-> VotesNow] BY <1>2
<1>4. [NoJob EXCEPT !.at = "fetched", !.new = new]
        = [at |-> "fetched", old |-> NoProposal, new |-> new]
  <2>1. PICK none : none = NoProposal OBVIOUS
  <2>2. NoJob = [at |-> "idle", old |-> none, new |-> none] BY <2>1 DEF NoJob
  <2>3. PICK r : r = [at |-> "fetched", old |-> none, new |-> none] OBVIOUS
  <2>4. [NoJob EXCEPT !.at = "fetched"] = r BY <2>2, <2>3
  <2>5. [r EXCEPT !.new = new] = [at |-> "fetched", old |-> none, new |-> new]
        BY <2>3
  <2> QED BY <2>1, <2>4, <2>5
<1>5. [at |-> "fetched", old |-> NoProposal, new |-> new] \in JobType
      BY DEF JobType, Snapshot, NoProposal
<1>6. job' = [job EXCEPT ![j] = [at |-> "fetched", old |-> NoProposal, new |-> new]]
      BY <1>2, <1>3, <1>4 DEF Fetch
<1>7. collisions' \in Nat BY <1>1 DEF Fetch
<1> QED BY <1>1, <1>2, <1>3, <1>5, <1>6, <1>7

------------------------------------------------------------
(* Types                                                                   *)

\* Every step of the bots keeps the types.
LEMMA BotsStayTyped ==
  ASSUME BotTyped, BotStep
  PROVE  BotTyped'
<1> USE MoreCounts
<1>1. /\ proposals \in StoreType /\ Len(proposals.proposals) <= 1
      /\ copy \in Snapshot /\ warned \in BOOLEAN /\ job \in [Jobs -> JobType]
      /\ seeding \in [at : {"start", "fetched", "done"}, new : Snapshot]
      /\ statusPosts \in [Statuses -> 0 .. 2] /\ votePosts \in [Voters -> 0 .. 2]
      /\ warningPosts \in 0 .. 2 /\ underWay \in SUBSET [vote : VoteType, by : Jobs]
      /\ unposted \in SUBSET VoteType /\ seeded \in SUBSET (Statuses \cup {"NONE"})
      /\ failures \in Nat /\ collisions \in Nat
      BY DEF BotTyped
<1>2. NoProposal \in Snapshot BY DEF NoProposal, Snapshot
<1>3. \A p \in Snapshot : Counting(p) \in SUBSET VoteType BY DEF Snapshot, Counting
<1>4. ASSUME NEW j \in Jobs
      PROVE  job[j].at \in Places /\ job[j].old \in Snapshot /\ job[j].new \in Snapshot
      BY <1>1 DEF JobType, Places
<1>5. ASSUME NEW j \in Jobs, Fetch(j)
      PROVE  BotTyped'
  <2>1. job' \in [Jobs -> JobType] /\ collisions' \in Nat BY <1>5, FetchMeans
  <2> QED BY <1>1, <1>5, <2>1
          DEF BotTyped, Fetch, governorSide, redis, announced
<1>6. ASSUME NEW j \in Jobs, ReadCopy(j)
      PROVE  BotTyped'
  <2>1. job' \in [Jobs -> JobType] /\ underWay' \in SUBSET [vote : VoteType, by : Jobs]
    <3>1. CASE MovesTo(j, "new") /\ UNCHANGED underWay
          BY <1>1, <3>1, MovesToMeans DEF Places
    <3>2. CASE job' = [job EXCEPT ![j].old = copy, ![j].at = "changed"] /\ UNCHANGED underWay
          BY <1>1, <3>2 DEF JobType
    <3>3. CASE StartVotes(j, copy)
          BY <1>1, <3>3, StartVotesMeans
    <3> QED BY <1>6, <3>1, <3>2, <3>3 DEF ReadCopy, Compare
  <2> QED BY <1>1, <1>6, <2>1 DEF BotTyped, ReadCopy, governorSide, redis, announced, history
<1>7. ASSUME NEW j \in Jobs, AnnounceStatus(j)
      PROVE  BotTyped'
  <2>1. job[j].new.status \in Statuses \cup {"NONE"} BY <1>4 DEF Snapshot
  <2>2. [statusPosts EXCEPT ![job[j].new.status] = More(@)] \in [Statuses -> 0 .. 2]
        BY <1>1, <2>1
  <2>3. statusPosts' \in [Statuses -> 0 .. 2]
        BY <1>1, <1>7, <2>2 DEF AnnounceStatus
  <2>4. /\ job' \in [Jobs -> JobType]
        /\ underWay' \in SUBSET [vote : VoteType, by : Jobs]
        /\ unposted' \in SUBSET VoteType /\ failures' \in Nat
    <3>1. CASE MovesTo(j, "done") /\ unposted' = unposted \cup Counting(job[j].new)
               /\ UNCHANGED <<underWay, failures>>
          BY <1>1, <1>3, <1>4, <3>1, MovesToMeans DEF Places, Announcing
    <3>2. CASE StartVotes(j, job[j].old) /\ UNCHANGED <<unposted, failures>>
          BY <1>1, <1>4, <3>2, StartVotesMeans
    <3>3. CASE Failure /\ Drops(j) /\ UNCHANGED <<underWay, unposted>>
          BY <1>1, <3>3, DropsMeans DEF Failure
    <3> QED BY <1>7, <3>1, <3>2, <3>3 DEF AnnounceStatus
  <2> QED BY <1>1, <1>7, <2>3, <2>4 DEF BotTyped, AnnounceStatus, governorSide, redis
<1>8. ASSUME NEW post \in underWay, AnnounceVote(post)
      PROVE  BotTyped'
  <2>1. post.vote \in VoteType /\ post.vote.voter \in Voters BY <1>1 DEF VoteType
  <2>2. votePosts' \in [Voters -> 0 .. 2]
        BY <1>1, <1>8, <2>1 DEF AnnounceVote
  <2>3. unposted' \in SUBSET VoteType /\ failures' \in Nat
        BY <1>1, <1>8, <2>1 DEF AnnounceVote, Failure
  <2>4. underWay' \in SUBSET [vote : VoteType, by : Jobs]
        BY <1>1, <1>8 DEF AnnounceVote
  <2> QED BY <1>1, <1>8, <2>2, <2>3, <2>4 DEF BotTyped, AnnounceVote, governorSide, redis
<1>9. ASSUME NEW j \in Jobs, Warn(j)
      PROVE  BotTyped'
  <2>1. job' \in [Jobs -> JobType]
        BY <1>1, <1>9, MovesToMeans, DropsMeans DEF Warn, Places, Announcing
  <2>2. /\ warningPosts' = warningPosts \/ warningPosts' = More(warningPosts)
        /\ failures' = failures \/ failures' = failures + 1
        BY <1>9 DEF Warn, Failure
  <2>4. failures' \in Nat BY <1>1, <2>2
  <2>3. warningPosts' \in 0 .. 2 BY <1>1, <2>2
  <2> QED BY <1>1, <1>9, <2>1, <2>3, <2>4 DEF BotTyped, Warn, governorSide, redis
<1>10. ASSUME NEW j \in Jobs, NoteWarning(j)
       PROVE  BotTyped'
  <2>1. job' \in [Jobs -> JobType]
        BY <1>1, <1>10, MovesToMeans DEF NoteWarning, Places, Announcing
  <2> QED BY <1>1, <1>10, <2>1 DEF BotTyped, NoteWarning, governorSide, announced, history
<1>11. ASSUME NEW j \in Jobs, StoreCopy(j)
       PROVE  BotTyped'
  <2>1. job' \in [Jobs -> JobType] BY <1>1, <1>11, DropsMeans DEF StoreCopy
  <2> QED BY <1>1, <1>4, <1>11, <2>1 DEF BotTyped, StoreCopy, governorSide, announced, history
<1>12. CASE SeedFetch
  <2>1. seeding' \in [at : {"start", "fetched", "done"}, new : Snapshot]
        BY <1>2, <1>12, WhatIsRead DEF SeedFetch
  <2> QED BY <1>1, <1>12, <2>1 DEF BotTyped, SeedFetch, governorSide, redis, announced, history
<1>13. CASE SeedStore
  <2>1. seeding.new \in Snapshot /\ seeding.new.status \in Statuses \cup {"NONE"}
        BY <1>1 DEF Snapshot
  <2>2. copy' \in Snapshot /\ seeded' \in SUBSET (Statuses \cup {"NONE"})
        /\ unposted' \in SUBSET VoteType
        /\ seeding' \in [at : {"start", "fetched", "done"}, new : Snapshot]
        BY <1>1, <1>2, <1>3, <1>13, <2>1 DEF SeedStore
  <2> QED BY <1>1, <1>13, <2>2 DEF BotTyped, SeedStore, governorSide, announced
<1>14. CASE RestartGovernanceBot
  <2>1. NoJob \in JobType BY <1>2 DEF NoJob, JobType
  <2>2. job' \in [Jobs -> JobType] /\ failures' \in Nat
        /\ underWay' \in SUBSET [vote : VoteType, by : Jobs]
        /\ seeding' \in [at : {"start", "fetched", "done"}, new : Snapshot]
        BY <1>1, <1>2, <1>14, <2>1 DEF RestartGovernanceBot, Failure
  <2>3. unposted' \in SUBSET VoteType
        BY <1>1, <1>14 DEF RestartGovernanceBot
  <2> QED BY <1>1, <1>14, <2>2, <2>3
          DEF BotTyped, RestartGovernanceBot, governorSide, redis, announced
<1> QED BY <1>5, <1>6, <1>7, <1>8, <1>9, <1>10, <1>11, <1>12, <1>13, <1>14
        DEF BotStep, JobStep, SeedStep

------------------------------------------------------------
(* What has been read stays past                                           *)

\* Every step of the bots keeps what they have read in the past.
LEMMA BotsReadThePast ==
  ASSUME BotTyped, ReadIsPast, BotStep
  PROVE  ReadIsPast'
<1>1. /\ copy \in Snapshot /\ job \in [Jobs -> JobType]
      /\ seeding \in [at : {"start", "fetched", "done"}, new : Snapshot]
      /\ underWay \in SUBSET [vote : VoteType, by : Jobs]
      BY DEF BotTyped
<1>2. /\ OneVoteEach /\ Past(copy) /\ Past(seeding.new)
      /\ \A j \in Jobs :
           /\ Past(job[j].old) /\ Past(job[j].new)
           /\ job[j].at # "idle" => job[j].new.status # "NONE"
      /\ \A post \in underWay : post.vote \in VotesNow
      BY DEF ReadIsPast
<1>3. ASSUME UNCHANGED governorSide
      PROVE  /\ VotesNow' = VotesNow /\ Status' = Status
             /\ OneVoteEach' /\ \A p : Past(p) => Past(p)'
      BY <1>2, <1>3 DEF governorSide, VotesNow, Status, Proposed, OneVoteEach, Past
<1>4. UNCHANGED governorSide
      BY DEF BotStep, JobStep, SeedStep, Fetch, ReadCopy, AnnounceStatus, Warn, NoteWarning,
             StoreCopy, AnnounceVote, SeedFetch, SeedStore, RestartGovernanceBot, governorSide
<1>5. /\ VotesNow' = VotesNow /\ Status' = Status /\ OneVoteEach'
      /\ \A p \in Snapshot : p.votes \subseteq VotesNow /\ Rank(p.status) <= Rank(Status)
                               => Past(p)'
      BY <1>3, <1>4 DEF Past
<1>6. ASSUME NEW p, Past(p)
      PROVE  p.votes \subseteq VotesNow /\ Rank(p.status) <= Rank(Status)
      BY <1>6 DEF Past
<1> DEFINE IsPast(p) == p.votes \subseteq VotesNow /\ Rank(p.status) <= Rank(Status)
           JobIsPast(x) == /\ IsPast(x.old) /\ IsPast(x.new)
                           /\ (x.at # "idle" => x.new.status # "NONE")
<1>7. /\ IsPast(NoProposal) /\ NoProposal \in Snapshot /\ NoProposal.status = "NONE"
  <2>1. Rank("NONE") = 0 /\ Rank(Status) \in 0 .. 6 BY WhatIsRead, RankIsNumber
  <2> QED BY <2>1 DEF NoProposal, Snapshot
<1>8. JobIsPast(NoJob) BY <1>7 DEF NoJob
<1>9. /\ IsPast(copy) /\ IsPast(seeding.new) /\ \A j \in Jobs : JobIsPast(job[j])
      BY <1>2, <1>6
<1>10. ASSUME IsPast(copy'), IsPast(seeding'.new), \A j \in Jobs : JobIsPast(job'[j]),
              \A post \in underWay' : post.vote \in VotesNow
       PROVE  ReadIsPast'
  <2>1. BotTyped' BY BotsStayTyped
  <2>2. /\ copy' \in Snapshot /\ seeding'.new \in Snapshot
        /\ \A j \in Jobs : job'[j].old \in Snapshot /\ job'[j].new \in Snapshot
        BY <2>1 DEF BotTyped, JobType
  <2>3. VotesNow' = VotesNow /\ Status' = Status /\ OneVoteEach' BY <1>5
  <2>4. Past(copy)' /\ Past(seeding.new)' BY <1>10, <2>3 DEF Past
  <2>5. \A j \in Jobs : Past(job[j].old)' /\ Past(job[j].new)'
        BY <1>10, <2>3 DEF Past
  <2> QED BY <1>10, <2>3, <2>4, <2>5 DEF ReadIsPast
<1> HIDE DEF IsPast
<1>11. ASSUME NEW j \in Jobs, NEW old \in Snapshot, StartVotes(j, old), job[j].at # "idle"
       PROVE  /\ \A k \in Jobs : JobIsPast(job'[k])
              /\ \A post \in underWay' : post.vote \in VotesNow
  <2>1. PICK where \in {"at risk", "done"} :
          job'[j] = [at |-> where, old |-> NoProposal, new |-> job[j].new]
        BY <1>11, StartVotesMeans
  <2>2. \A k \in Jobs : k # j => job'[k] = job[k] BY <1>11, StartVotesMeans
  <2>3. \A post \in underWay' \ underWay : post.vote \in extractNewVotes(old, job[j].new)
        BY <1>11, StartVotesMeans
  <2>4. extractNewVotes(old, job[j].new) \subseteq VotesNow
        BY <1>9 DEF extractNewVotes, IsPast
  <2>5. JobIsPast(job'[j])
    <3>1. job'[j].old = NoProposal /\ job'[j].new = job[j].new
      <4>1. PICK none, new : none = NoProposal /\ new = job[j].new OBVIOUS
      <4>2. job'[j] = [at |-> where, old |-> none, new |-> new] BY <2>1, <4>1
      <4>3. PICK x : x = [at |-> where, old |-> none, new |-> new] OBVIOUS
      <4>4. x.old = none /\ x.new = new BY <4>3
      <4> QED BY <4>1, <4>2, <4>3, <4>4
    <3>2. IsPast(job[j].new) /\ job[j].new.status # "NONE" BY <1>9, <1>11
    <3> QED BY <1>7, <3>1, <3>2
  <2> QED BY <1>2, <1>9, <2>2, <2>3, <2>4, <2>5
<1>12. ASSUME NEW j \in Jobs, NEW where \in Places, MovesTo(j, where),
              where = "idle" \/ job[j].at # "idle"
       PROVE  \A k \in Jobs : JobIsPast(job'[k])
  <2>1. /\ job'[j] = [at |-> where, old |-> job[j].old, new |-> job[j].new]
        /\ \A k \in Jobs : k # j => job'[k] = job[k]
        BY <1>1, <1>12, MovesToMeans
  <2>2. JobIsPast(job'[j]) BY <1>9, <1>12, <2>1
  <2> QED BY <1>9, <2>1, <2>2
<1>13. ASSUME NEW j \in Jobs, Drops(j)
       PROVE  \A k \in Jobs : JobIsPast(job'[k])
  <2>1. /\ job'[j] = NoJob /\ \A k \in Jobs : k # j => job'[k] = job[k]
        BY <1>1, <1>13, DropsMeans
  <2> QED BY <1>8, <1>9, <2>1
<1>14. ASSUME NEW j \in Jobs, Fetch(j)
       PROVE  ReadIsPast'
  <2>1. /\ job'[j] = [at |-> "fetched", old |-> NoProposal,
                      new |-> [status |-> Status, votes |-> VotesNow]]
        /\ \A k \in Jobs : k # j => job'[k] = job[k]
        /\ Status # "NONE"
        BY <1>14, FetchMeans
  <2>2. IsPast([status |-> Status, votes |-> VotesNow])
    <3>1. Rank(Status) \in 0 .. 6 BY WhatIsRead, RankIsNumber
    <3> QED BY <3>1 DEF IsPast
  <2>3. JobIsPast(job'[j]) BY <1>7, <2>1, <2>2
  <2>4. \A k \in Jobs : JobIsPast(job'[k]) BY <1>9, <2>1, <2>3
  <2> QED BY <1>2, <1>9, <1>10, <1>14, <2>4 DEF Fetch, redis
<1>15. ASSUME NEW j \in Jobs, ReadCopy(j)
       PROVE  ReadIsPast'
  <2>1. job[j].at = "fetched" /\ copy' = copy /\ seeding' = seeding
        BY <1>15 DEF ReadCopy, Is, redis
  <2>2. CASE MovesTo(j, "new") /\ UNCHANGED underWay
    <3>1. \A k \in Jobs : JobIsPast(job'[k]) BY <1>12, <2>1, <2>2 DEF Places
    <3> QED BY <1>2, <1>9, <1>10, <2>1, <2>2, <3>1
  <2>3. CASE job' = [job EXCEPT ![j].old = copy, ![j].at = "changed"] /\ UNCHANGED underWay
    <3>1. /\ job'[j] = [at |-> "changed", old |-> copy, new |-> job[j].new]
          /\ \A k \in Jobs : k # j => job'[k] = job[k]
          BY <1>1, <2>3 DEF JobType
    <3>2. JobIsPast(job'[j]) BY <1>9, <2>1, <3>1
    <3>3. \A k \in Jobs : JobIsPast(job'[k]) BY <1>9, <3>1, <3>2
    <3> QED BY <1>2, <1>9, <1>10, <2>1, <2>3, <3>3
  <2>4. CASE StartVotes(j, copy)
    <3>1. /\ \A k \in Jobs : JobIsPast(job'[k])
          /\ \A post \in underWay' : post.vote \in VotesNow
          BY <1>1, <1>11, <2>1, <2>4
    <3> QED BY <1>9, <1>10, <2>1, <3>1
  <2> QED BY <1>15, <2>2, <2>3, <2>4 DEF ReadCopy, Compare
<1>16. ASSUME NEW j \in Jobs, AnnounceStatus(j)
       PROVE  ReadIsPast'
  <2>1. copy' = copy /\ seeding' = seeding BY <1>16 DEF AnnounceStatus, redis
  <2>2. CASE Is(j, "new") /\ MovesTo(j, "done") /\ UNCHANGED underWay
    <3>1. \A k \in Jobs : JobIsPast(job'[k]) BY <1>12, <2>2 DEF Places, Announcing, Is
    <3> QED BY <1>2, <1>9, <1>10, <2>1, <2>2, <3>1
  <2>3. CASE Is(j, "changed") /\ StartVotes(j, job[j].old)
    <3>1. job[j].old \in Snapshot BY <1>1 DEF JobType
    <3>2. /\ \A k \in Jobs : JobIsPast(job'[k])
          /\ \A post \in underWay' : post.vote \in VotesNow
          BY <1>11, <2>3, <3>1 DEF Is
    <3> QED BY <1>9, <1>10, <2>1, <3>2
  <2>4. CASE Drops(j) /\ UNCHANGED underWay
    <3>1. \A k \in Jobs : JobIsPast(job'[k]) BY <1>13, <2>4
    <3> QED BY <1>2, <1>9, <1>10, <2>1, <2>4, <3>1
  <2> QED BY <1>16, <2>2, <2>3, <2>4 DEF AnnounceStatus
<1>17. ASSUME NEW post \in underWay, AnnounceVote(post)
       PROVE  ReadIsPast'
  <2>1. copy' = copy /\ seeding' = seeding /\ job' = job /\ underWay' \subseteq underWay
        BY <1>17 DEF AnnounceVote, redis
  <2> QED BY <1>2, <1>9, <1>10, <2>1
<1>18. ASSUME NEW j \in Jobs, Warn(j)
       PROVE  ReadIsPast'
  <2>1. copy' = copy /\ seeding' = seeding /\ underWay' = underWay /\ job[j].at = "at risk"
        BY <1>18 DEF Warn, redis, Is
  <2>2. MovesTo(j, "done") \/ MovesTo(j, "warned") \/ Drops(j) BY <1>18 DEF Warn
  <2>3. \A k \in Jobs : JobIsPast(job'[k])
        BY <1>12, <1>13, <2>1, <2>2 DEF Places, Announcing
  <2> QED BY <1>2, <1>9, <1>10, <2>1, <2>3
<1>19. ASSUME NEW j \in Jobs, NoteWarning(j)
       PROVE  ReadIsPast'
  <2>1. copy' = copy /\ seeding' = seeding /\ underWay' = underWay /\ job[j].at = "warned"
        /\ MovesTo(j, "done")
        BY <1>19 DEF NoteWarning, Is
  <2>2. \A k \in Jobs : JobIsPast(job'[k]) BY <1>12, <2>1 DEF Places, Announcing
  <2> QED BY <1>2, <1>9, <1>10, <2>1, <2>2
<1>20. ASSUME NEW j \in Jobs, StoreCopy(j)
       PROVE  ReadIsPast'
  <2>1. copy' = job[j].new /\ seeding' = seeding /\ underWay' = underWay /\ Drops(j)
        BY <1>20 DEF StoreCopy
  <2>2. \A k \in Jobs : JobIsPast(job'[k]) BY <1>13, <2>1
  <2> QED BY <1>2, <1>9, <1>10, <2>1, <2>2
<1>21. CASE SeedFetch
  <2>1. copy' = copy /\ job' = job /\ underWay' = underWay BY <1>21 DEF SeedFetch, redis
  <2>2. IsPast(seeding'.new)
    <3>1. CASE Proposed
      <4>1. seeding'.new = [status |-> Status, votes |-> VotesNow]
            BY <1>21, <3>1, WhatIsRead DEF SeedFetch
      <4>2. Rank(Status) \in 0 .. 6 BY WhatIsRead, RankIsNumber
      <4> QED BY <4>1, <4>2 DEF IsPast
    <3>2. CASE ~Proposed
      <4>1. seeding'.new = NoProposal BY <1>21, <3>2 DEF SeedFetch
      <4> QED BY <1>7, <4>1
    <3> QED BY <3>1, <3>2
  <2> QED BY <1>2, <1>9, <1>10, <2>1, <2>2
<1>22. CASE SeedStore
  <2>1. copy' = seeding.new /\ job' = job /\ underWay' = underWay /\ seeding'.new = NoProposal
        BY <1>22 DEF SeedStore
  <2> QED BY <1>2, <1>7, <1>9, <1>10, <2>1
<1>23. CASE RestartGovernanceBot
  <2>1. copy' = copy /\ underWay' = {} /\ seeding'.new = NoProposal
        /\ \A k \in Jobs : job'[k] = NoJob
        BY <1>23 DEF RestartGovernanceBot, redis
  <2>2. \A k \in Jobs : JobIsPast(job'[k]) BY <1>8, <2>1
  <2> QED BY <1>7, <1>9, <1>10, <2>1, <2>2
<1> QED BY <1>14, <1>15, <1>16, <1>17, <1>18, <1>19, <1>20, <1>21, <1>22, <1>23
        DEF BotStep, JobStep, SeedStep

------------------------------------------------------------
(* What is copied stays seen to                                            *)

\* Nothing that was announced, is being announced, or is lost is forgotten.
LEMMA HandledStays ==
  ASSUME BotTyped, BotStep
  PROVE  /\ \A vote \in VoteType : Handled(vote) => Handled(vote)'
         /\ \A s \in Statuses \cup {"NONE"} :
              s \in seeded \/ (s \in Statuses /\ statusPosts[s] > 0)
                => s \in seeded' \/ (s \in Statuses /\ statusPosts'[s] > 0)
<1> USE MoreCounts
<1>1. /\ statusPosts \in [Statuses -> 0 .. 2] /\ votePosts \in [Voters -> 0 .. 2]
      /\ underWay \in SUBSET [vote : VoteType, by : Jobs] /\ job \in [Jobs -> JobType]
      BY DEF BotTyped
<1>2. ASSUME \A v \in Voters : votePosts[v] > 0 => votePosts'[v] > 0,
             \A post \in underWay : post \in underWay' \/ Handled(post.vote)',
             unposted \subseteq unposted'
      PROVE  \A vote \in VoteType : Handled(vote) => Handled(vote)'
      BY <1>2 DEF Handled, VoteType
<1>3. ASSUME UNCHANGED <<votePosts, underWay, unposted>>
      PROVE  \A vote \in VoteType : Handled(vote) => Handled(vote)'
      BY <1>3 DEF Handled
<1>4. ASSUME UNCHANGED <<seeded, statusPosts>>
      PROVE  \A s \in Statuses \cup {"NONE"} :
              s \in seeded \/ (s \in Statuses /\ statusPosts[s] > 0)
                => s \in seeded' \/ (s \in Statuses /\ statusPosts'[s] > 0)
      BY <1>4
<1>5. ASSUME NEW j \in Jobs, NEW old \in Snapshot, StartVotes(j, old),
             UNCHANGED <<votePosts, unposted>>
      PROVE  \A vote \in VoteType : Handled(vote) => Handled(vote)'
  <2>1. underWay \subseteq underWay' BY <1>5, StartVotesMeans
  <2> QED BY <1>2, <1>5, <2>1
<1>6. ASSUME NEW j \in Jobs, Fetch(j) \/ Warn(j) \/ NoteWarning(j) \/ StoreCopy(j)
      PROVE  UNCHANGED <<votePosts, underWay, unposted, seeded, statusPosts>>
      BY <1>6 DEF Fetch, Warn, NoteWarning, StoreCopy, announced, history
<1>7. ASSUME NEW j \in Jobs, ReadCopy(j)
      PROVE  /\ UNCHANGED <<seeded, statusPosts>>
             /\ \A vote \in VoteType : Handled(vote) => Handled(vote)'
  <2>1. UNCHANGED <<votePosts, unposted, seeded, statusPosts>>
        BY <1>7 DEF ReadCopy, announced, history
  <2>2. UNCHANGED underWay \/ StartVotes(j, copy) BY <1>7 DEF ReadCopy, Compare
  <2>3. copy \in Snapshot BY DEF BotTyped
  <2> QED BY <1>3, <1>5, <2>1, <2>2, <2>3
<1>8. ASSUME NEW j \in Jobs, AnnounceStatus(j)
      PROVE  /\ \A vote \in VoteType : Handled(vote) => Handled(vote)'
             /\ \A s \in Statuses : statusPosts[s] > 0 => statusPosts'[s] > 0
             /\ seeded' = seeded
  <2>1. UNCHANGED <<votePosts, seeded>> BY <1>8 DEF AnnounceStatus
  <2>2. \A s \in Statuses : statusPosts[s] > 0 => statusPosts'[s] > 0
    <3>1. statusPosts' \in
            {statusPosts, [statusPosts EXCEPT ![job[j].new.status] = More(@)]}
          BY <1>8 DEF AnnounceStatus
    <3> QED BY <1>1, <3>1
  <2>3. job[j].old \in Snapshot BY <1>1 DEF JobType
  <2>4. \/ underWay' = underWay /\ unposted \subseteq unposted'
        \/ StartVotes(j, job[j].old) /\ unposted' = unposted
        BY <1>8 DEF AnnounceStatus
  <2>5. \A vote \in VoteType : Handled(vote) => Handled(vote)'
        BY <1>2, <1>5, <2>1, <2>3, <2>4
  <2> QED BY <2>1, <2>2, <2>5
<1>9. ASSUME NEW post \in underWay, AnnounceVote(post)
      PROVE  /\ \A vote \in VoteType : Handled(vote) => Handled(vote)'
             /\ UNCHANGED <<seeded, statusPosts>>
  <2>1. post.vote \in VoteType /\ post.vote.voter \in Voters BY <1>1 DEF VoteType
  <2>2. \A v \in Voters : votePosts[v] > 0 => votePosts'[v] > 0
        BY <1>1, <1>9 DEF AnnounceVote
  <2>3. votePosts'[post.vote.voter] > 0 \/ post.vote \in unposted'
        BY <1>1, <1>9, <2>1 DEF AnnounceVote
  <2>4. underWay' = underWay \ {post} /\ unposted \subseteq unposted'
        /\ UNCHANGED <<seeded, statusPosts>>
        BY <1>9 DEF AnnounceVote
  <2>5. Handled(post.vote)' BY <2>3 DEF Handled
  <2>6. \A other \in underWay : other \in underWay' \/ Handled(other.vote)'
        BY <2>4, <2>5
  <2> QED BY <1>2, <2>2, <2>4, <2>6
<1>10. CASE SeedFetch
       BY <1>3, <1>4, <1>10 DEF SeedFetch, announced, history
<1>11. CASE SeedStore
  <2>1. UNCHANGED <<votePosts, underWay, statusPosts>> /\ unposted \subseteq unposted'
        /\ seeded \subseteq seeded'
        BY <1>11 DEF SeedStore, announced
  <2> QED BY <1>2, <2>1
<1>12. CASE RestartGovernanceBot
  <2>1. UNCHANGED <<votePosts, statusPosts, seeded>>
        /\ unposted' = unposted \cup {post.vote : post \in underWay}
        BY <1>12 DEF RestartGovernanceBot, announced
  <2>2. \A post \in underWay : Handled(post.vote)' BY <2>1 DEF Handled
  <2> QED BY <1>2, <1>4, <2>1, <2>2
<1> QED BY <1>3, <1>4, <1>6, <1>7, <1>8, <1>9, <1>10, <1>11, <1>12
        DEF BotStep, JobStep, SeedStep

\* When the announcements of the votes start, all that count are seen to: the
\* new ones are under way, the others were in the copy.
LEMMA StartedAreHandled ==
  ASSUME BotTyped, ReadIsPast, NEW j \in Jobs, NEW old \in Snapshot,
         Past(old), VotesHandled(old), StartVotes(j, old), BotStep
  PROVE  \A vote \in Counting(job[j].new) : Handled(vote)'
<1> SUFFICES ASSUME NEW vote \in Counting(job[j].new)
             PROVE  Handled(vote)'
    OBVIOUS
<1>1. job[j].new \in Snapshot /\ Past(job[j].new) BY DEF BotTyped, JobType, ReadIsPast
<1>2. vote \in job[j].new.votes /\ vote.votes > 0 /\ vote \in VotesNow
      BY <1>1 DEF Counting, Past
<1>3. CASE vote \in extractNewVotes(old, job[j].new)
  <2>1. [vote |-> vote, by |-> j] \in underWay' BY <1>3, StartVotesMeans
  <2> QED BY <2>1 DEF Handled
<1>4. CASE vote \notin extractNewVotes(old, job[j].new)
  <2>1. PICK other \in old.votes : other.voter = vote.voter
        BY <1>2, <1>4 DEF extractNewVotes
  <2>2. other = vote BY <1>2, <2>1 DEF ReadIsPast, OneVoteEach, Past
  <2>3. vote \in Counting(old) /\ vote \in VoteType
        BY <1>2, <2>1, <2>2 DEF Counting, Snapshot
  <2> QED BY <2>3, HandledStays DEF VotesHandled
<1> QED BY <1>3, <1>4

\* Every step of the bots keeps it so that what is copied has been seen to.
LEMMA CopiedStaysDealtWith ==
  ASSUME BotTyped, ReadIsPast, CopiedIsDealtWith, BotStep
  PROVE  CopiedIsDealtWith'
<1> DEFINE StatusSeenTo(s) == s \in seeded \/ (s \in Statuses /\ statusPosts[s] > 0)
           VotesSeenTo(p) == \A vote \in p.votes : vote.votes > 0 => Handled(vote)
           JobSeenTo(x) ==
             /\ x.at \in Announcing => StatusSeenTo(x.new.status) /\ VotesSeenTo(x.new)
             /\ x.at = "changed" => VotesSeenTo(x.old)
<1>1. /\ copy \in Snapshot /\ job \in [Jobs -> JobType]
      /\ seeding.new \in Snapshot
      /\ \A p \in Snapshot : p.votes \in SUBSET VoteType /\ p.status \in Statuses \cup {"NONE"}
      BY DEF BotTyped, Snapshot
<1>2. \A j \in Jobs : job[j].old \in Snapshot /\ job[j].new \in Snapshot
      BY <1>1 DEF JobType
<1>3. /\ StatusSeenTo(copy.status) /\ VotesSeenTo(copy)
      /\ \A j \in Jobs : JobSeenTo(job[j])
      BY DEF CopiedIsDealtWith, StatusHandled, VotesHandled, Counting
<1>4. ASSUME NEW p \in Snapshot
      PROVE  /\ StatusSeenTo(p.status) => StatusSeenTo(p.status)'
             /\ VotesSeenTo(p) => VotesSeenTo(p)'
      BY <1>1, HandledStays
<1>5. ASSUME StatusSeenTo(copy.status)', VotesSeenTo(copy)',
             \A j \in Jobs : JobSeenTo(job[j])'
      PROVE  CopiedIsDealtWith'
      BY <1>5 DEF CopiedIsDealtWith, StatusHandled, VotesHandled, Counting
<1> HIDE DEF StatusSeenTo, VotesSeenTo
<1>6. (StatusSeenTo(copy.status)' /\ VotesSeenTo(copy)') \/ copy' # copy
  <2>1. StatusSeenTo(copy.status) /\ VotesSeenTo(copy) BY <1>3
  <2>2. PICK p \in Snapshot : p = copy BY <1>1
  <2>3. StatusSeenTo(p.status)' /\ VotesSeenTo(p)' BY <1>4, <2>1, <2>2
  <2> SUFFICES ASSUME copy' = copy
               PROVE  StatusSeenTo(copy.status)' /\ VotesSeenTo(copy)'
      OBVIOUS
  <2>4. copy' = p BY <2>2
  <2> QED BY <2>3, <2>4 DEF StatusSeenTo, VotesSeenTo
<1>7. ASSUME NEW k \in Jobs, job'[k] = job[k]
      PROVE  JobSeenTo(job[k])'
  <2>1. PICK x \in JobType : x = job[k] BY <1>1
  <2>2. x.new \in Snapshot /\ x.old \in Snapshot /\ JobSeenTo(x) BY <1>3, <2>1 DEF JobType
  <2>3. JobSeenTo(x)' BY <1>4, <2>2
  <2> QED BY <1>7, <2>1, <2>3
<1>8. ASSUME NEW k \in Jobs, job'[k].at \notin Announcing, job'[k].at # "changed"
      PROVE  JobSeenTo(job[k])'
      BY <1>8
<1>9. ASSUME NEW k \in Jobs, NEW p \in Snapshot, job'[k].new = p, job'[k].at \in Announcing,
             StatusSeenTo(p.status)', VotesSeenTo(p)'
      PROVE  JobSeenTo(job[k])'
      BY <1>9 DEF StatusSeenTo, VotesSeenTo, Announcing
<1>10. ASSUME NEW j \in Jobs, NEW where \in Places, MovesTo(j, where), job[j].at \in Announcing,
              where \in Announcing
       PROVE  \A k \in Jobs : JobSeenTo(job[k])'
  <2>1. /\ job'[j] = [at |-> where, old |-> job[j].old, new |-> job[j].new]
        /\ \A k \in Jobs : k # j => job'[k] = job[k]
        BY <1>1, <1>10, MovesToMeans
  <2>2. PICK p \in Snapshot : p = job[j].new BY <1>2
  <2>3. StatusSeenTo(p.status)' /\ VotesSeenTo(p)' BY <1>3, <1>4, <1>10, <2>2
  <2>4. job'[j].new = p /\ job'[j].at = where BY <2>1, <2>2
  <2>5. JobSeenTo(job[j])' BY <1>9, <1>10, <2>3, <2>4
  <2> QED BY <1>7, <2>1, <2>5
<1>11. ASSUME NEW j \in Jobs, Drops(j)
       PROVE  \A k \in Jobs : JobSeenTo(job[k])'
  <2>1. /\ job'[j] = NoJob /\ \A k \in Jobs : k # j => job'[k] = job[k]
        BY <1>1, <1>11, DropsMeans
  <2>2. job'[j].at \notin Announcing /\ job'[j].at # "changed"
        BY <2>1 DEF NoJob, Announcing
  <2> QED BY <1>7, <1>8, <2>1, <2>2
<1>12. ASSUME NEW j \in Jobs, NEW old \in Snapshot, StartVotes(j, old), Past(old),
              VotesSeenTo(old), StatusSeenTo(job[j].new.status)'
       PROVE  \A k \in Jobs : JobSeenTo(job[k])'
  <2>1. PICK where \in {"at risk", "done"} :
          job'[j] = [at |-> where, old |-> NoProposal, new |-> job[j].new]
        BY <1>12, StartVotesMeans
  <2>2. \A k \in Jobs : k # j => job'[k] = job[k] BY <1>12, StartVotesMeans
  <2>3. PICK p \in Snapshot : p = job[j].new BY <1>2
  <2>4. job'[j].new = p /\ job'[j].at = where
    <3>1. PICK none : none = NoProposal OBVIOUS
    <3>2. PICK x : x = [at |-> where, old |-> none, new |-> p] OBVIOUS
    <3>3. x.at = where /\ x.new = p BY <3>2
    <3> QED BY <2>1, <2>3, <3>1, <3>2, <3>3
  <2>5. VotesHandled(old) BY <1>12 DEF VotesHandled, VotesSeenTo, Counting
  <2>6. \A vote \in Counting(p) : Handled(vote)'
        BY <1>12, <2>3, <2>5, StartedAreHandled
  <2>7. VotesSeenTo(p)' BY <2>6 DEF VotesSeenTo, Counting
  <2>8. StatusSeenTo(p.status)'
    <3>1. job'[j].new = job[j].new BY <2>3, <2>4
    <3> QED BY <1>12, <2>3, <2>4 DEF StatusSeenTo
  <2>9. JobSeenTo(job[j])' BY <1>9, <2>4, <2>7, <2>8 DEF Announcing
  <2> QED BY <1>7, <2>2, <2>9
<1>13. ASSUME UNCHANGED job
       PROVE  \A k \in Jobs : JobSeenTo(job[k])'
       BY <1>7, <1>13
<1>14. ASSUME UNCHANGED copy
       PROVE  StatusSeenTo(copy.status)' /\ VotesSeenTo(copy)'
       BY <1>6, <1>14
<1>15. ASSUME NEW j \in Jobs, Fetch(j)
       PROVE  CopiedIsDealtWith'
  <2>1. job'[j] = [at |-> "fetched", old |-> NoProposal,
                   new |-> [status |-> Status, votes |-> VotesNow]]
        /\ (\A k \in Jobs : k # j => job'[k] = job[k])
        BY <1>15, FetchMeans
  <2>2. job'[j].at \notin Announcing /\ job'[j].at # "changed" BY <2>1 DEF Announcing
  <2>3. \A k \in Jobs : JobSeenTo(job[k])' BY <1>7, <1>8, <2>1, <2>2
  <2> QED BY <1>5, <1>14, <1>15, <2>3 DEF Fetch, redis
<1>16. ASSUME NEW j \in Jobs, ReadCopy(j)
       PROVE  CopiedIsDealtWith'
  <2>1. UNCHANGED copy BY <1>16 DEF ReadCopy, redis
  <2>2. CASE MovesTo(j, "new")
    <3>1. /\ job'[j] = [at |-> "new", old |-> job[j].old, new |-> job[j].new]
          /\ \A k \in Jobs : k # j => job'[k] = job[k]
          BY <1>1, <2>2, MovesToMeans DEF Places
    <3>2. job'[j].at \notin Announcing /\ job'[j].at # "changed" BY <3>1 DEF Announcing
    <3>3. \A k \in Jobs : JobSeenTo(job[k])' BY <1>7, <1>8, <3>1, <3>2
    <3> QED BY <1>5, <1>14, <2>1, <3>3
  <2>3. CASE job' = [job EXCEPT ![j].old = copy, ![j].at = "changed"]
    <3>1. PICK p \in Snapshot : p = copy BY <1>1
    <3>2. /\ job'[j].old = p /\ job'[j].at = "changed"
          /\ \A k \in Jobs : k # j => job'[k] = job[k]
          BY <1>1, <2>3, <3>1 DEF JobType
    <3>3. VotesSeenTo(p)' BY <1>3, <1>4, <3>1
    <3>4. JobSeenTo(job[j])'
      <4>1. "changed" \notin Announcing BY DEF Announcing
      <4> QED BY <3>2, <3>3, <4>1 DEF VotesSeenTo
    <3>5. \A k \in Jobs : JobSeenTo(job[k])' BY <1>7, <3>2, <3>4
    <3> QED BY <1>5, <1>14, <2>1, <3>5
  <2>4. CASE copy.status = job[j].new.status /\ StartVotes(j, copy)
    <3>1. PICK p \in Snapshot : p = copy BY <1>1
    <3>2. Past(p) /\ VotesSeenTo(p) /\ StatusSeenTo(p.status)'
          BY <1>3, <1>4, <3>1 DEF ReadIsPast
    <3>3. StatusSeenTo(job[j].new.status)'
      <4>1. job'[j].new = job[j].new
        <5>1. PICK where \in {"at risk", "done"} :
                job'[j] = [at |-> where, old |-> NoProposal, new |-> job[j].new]
              BY <1>1, <2>4, StartVotesMeans
        <5>2. PICK none, new : none = NoProposal /\ new = job[j].new OBVIOUS
        <5>3. PICK x : x = [at |-> where, old |-> none, new |-> new] OBVIOUS
        <5>4. x.new = new BY <5>3
        <5> QED BY <5>1, <5>2, <5>3, <5>4
      <4>2. job'[j].new.status = p.status BY <2>4, <3>1, <4>1
      <4> QED BY <3>2, <4>2 DEF StatusSeenTo
    <3>4. StartVotes(j, p) BY <2>4, <3>1
    <3>5. \A k \in Jobs : JobSeenTo(job[k])' BY <1>12, <3>2, <3>3, <3>4
    <3> QED BY <1>5, <1>14, <2>1, <3>5
  <2>5. \/ MovesTo(j, "new")
        \/ job' = [job EXCEPT ![j].old = copy, ![j].at = "changed"]
        \/ copy.status = job[j].new.status /\ StartVotes(j, copy)
        BY <1>16 DEF ReadCopy, Compare
  <2> QED BY <2>2, <2>3, <2>4, <2>5
<1>17. ASSUME NEW j \in Jobs, AnnounceStatus(j)
       PROVE  CopiedIsDealtWith'
  <2>1. UNCHANGED copy BY <1>17 DEF AnnounceStatus, redis
  <2>2. PICK p \in Snapshot : p = job[j].new BY <1>2
  <2>3. ASSUME statusPosts' = [statusPosts EXCEPT ![p.status] = More(@)], job[j].at # "idle"
        PROVE  StatusSeenTo(p.status)'
    <3>1. p.status \in Statuses BY <1>1, <2>2, <2>3 DEF ReadIsPast
    <3>2. statusPosts \in [Statuses -> 0 .. 2] BY DEF BotTyped
    <3>3. statusPosts'[p.status] > 0 BY <2>3, <3>1, <3>2, MoreCounts
    <3> QED BY <3>1, <3>3 DEF StatusSeenTo
  <2>4. CASE Is(j, "new") /\ MovesTo(j, "done")
             /\ unposted' = unposted \cup Counting(job[j].new)
             /\ statusPosts' = [statusPosts EXCEPT ![job[j].new.status] = More(@)]
    <3>1. /\ job'[j] = [at |-> "done", old |-> job[j].old, new |-> job[j].new]
          /\ \A k \in Jobs : k # j => job'[k] = job[k]
          BY <1>1, <2>4, MovesToMeans DEF Places, Announcing
    <3>2. StatusSeenTo(p.status)' BY <2>2, <2>3, <2>4 DEF Is
    <3>3. VotesSeenTo(p)'
          BY <2>2, <2>4 DEF VotesSeenTo, Counting, Handled
    <3>4. job'[j].new = p /\ job'[j].at \in Announcing BY <2>2, <3>1 DEF Announcing
    <3>5. JobSeenTo(job[j])' BY <1>9, <3>2, <3>3, <3>4
    <3>6. \A k \in Jobs : JobSeenTo(job[k])' BY <1>7, <3>1, <3>5
    <3> QED BY <1>5, <1>14, <2>1, <3>6
  <2>5. CASE Is(j, "changed") /\ StartVotes(j, job[j].old)
             /\ statusPosts' = [statusPosts EXCEPT ![job[j].new.status] = More(@)]
    <3>1. PICK old \in Snapshot : old = job[j].old BY <1>2
    <3>2. VotesSeenTo(old) /\ Past(old) BY <1>3, <2>5, <3>1 DEF Is, ReadIsPast
    <3>3. StatusSeenTo(p.status)' BY <2>2, <2>3, <2>5 DEF Is
    <3>4. StatusSeenTo(job[j].new.status)'
      <4>1. job'[j].new = job[j].new
        <5>1. PICK where \in {"at risk", "done"} :
                job'[j] = [at |-> where, old |-> NoProposal, new |-> job[j].new]
              BY <2>5, <3>1, StartVotesMeans
        <5>2. PICK none, new : none = NoProposal /\ new = job[j].new OBVIOUS
        <5>3. PICK x : x = [at |-> where, old |-> none, new |-> new] OBVIOUS
        <5>4. x.new = new BY <5>3
        <5> QED BY <5>1, <5>2, <5>3, <5>4
      <4>2. job'[j].new.status = p.status BY <2>2, <4>1
      <4> QED BY <3>3, <4>2 DEF StatusSeenTo
    <3>5. StartVotes(j, old) BY <2>5, <3>1
    <3>6. \A k \in Jobs : JobSeenTo(job[k])' BY <1>12, <3>2, <3>4, <3>5
    <3> QED BY <1>5, <1>14, <2>1, <3>6
  <2>6. CASE Drops(j)
        BY <1>5, <1>11, <1>14, <2>1, <2>6
  <2> QED BY <1>17, <2>4, <2>5, <2>6 DEF AnnounceStatus
<1>18. ASSUME NEW post \in underWay, AnnounceVote(post)
       PROVE  CopiedIsDealtWith'
       BY <1>5, <1>13, <1>14, <1>18 DEF AnnounceVote, redis
<1>19. ASSUME NEW j \in Jobs, Warn(j)
       PROVE  CopiedIsDealtWith'
  <2>1. UNCHANGED copy /\ job[j].at \in Announcing BY <1>19 DEF Warn, redis, Is, Announcing
  <2>2. MovesTo(j, "done") \/ MovesTo(j, "warned") \/ Drops(j) BY <1>19 DEF Warn
  <2>3. \A k \in Jobs : JobSeenTo(job[k])'
        BY <1>10, <1>11, <2>1, <2>2 DEF Places, Announcing
  <2> QED BY <1>5, <1>14, <2>1, <2>3
<1>20. ASSUME NEW j \in Jobs, NoteWarning(j)
       PROVE  CopiedIsDealtWith'
  <2>1. UNCHANGED copy /\ job[j].at \in Announcing /\ MovesTo(j, "done")
        BY <1>20 DEF NoteWarning, Is, Announcing
  <2>2. \A k \in Jobs : JobSeenTo(job[k])' BY <1>10, <2>1 DEF Places, Announcing
  <2> QED BY <1>5, <1>14, <2>1, <2>2
<1>21. ASSUME NEW j \in Jobs, StoreCopy(j)
       PROVE  CopiedIsDealtWith'
  <2>1. PICK p \in Snapshot : p = job[j].new BY <1>2
  <2>2. copy' = p /\ Drops(j) /\ job[j].at \in Announcing
        BY <1>21, <2>1 DEF StoreCopy, Is, Announcing
  <2>3. StatusSeenTo(p.status)' /\ VotesSeenTo(p)' BY <1>3, <1>4, <2>1, <2>2
  <2>4. StatusSeenTo(copy.status)' /\ VotesSeenTo(copy)'
        BY <2>2, <2>3 DEF StatusSeenTo, VotesSeenTo
  <2> QED BY <1>5, <1>11, <2>2, <2>4
<1>22. CASE SeedFetch
       BY <1>5, <1>13, <1>14, <1>22 DEF SeedFetch, redis
<1>23. CASE SeedStore
  <2>1. PICK p \in Snapshot : p = seeding.new BY <1>1
  <2>2. copy' = p /\ UNCHANGED job /\ p.status \in seeded' /\ Counting(p) \subseteq unposted'
        BY <1>23, <2>1 DEF SeedStore
  <2>3. StatusSeenTo(copy.status)' /\ VotesSeenTo(copy)'
        BY <2>2 DEF StatusSeenTo, VotesSeenTo, Counting, Handled
  <2> QED BY <1>5, <1>13, <2>2, <2>3
<1>24. CASE RestartGovernanceBot
  <2>1. UNCHANGED copy /\ \A k \in Jobs : job'[k] = NoJob
        BY <1>24 DEF RestartGovernanceBot, redis
  <2>2. NoJob.at \notin Announcing /\ NoJob.at # "changed" BY DEF NoJob, Announcing
  <2>3. \A k \in Jobs : JobSeenTo(job[k])' BY <1>8, <2>1, <2>2
  <2> QED BY <1>5, <1>14, <2>1, <2>3
<1> QED BY <1>15, <1>16, <1>17, <1>18, <1>19, <1>20, <1>21, <1>22, <1>23, <1>24
        DEF BotStep, JobStep, SeedStep

------------------------------------------------------------
(* While nothing goes wrong nothing is said twice                          *)

\* A step in which nothing goes wrong.
LEMMA CalmBefore ==
  ASSUME BotTyped, BotStep, Calm'
  PROVE  Calm /\ ~Failure /\ collisions' = collisions
<1>1. failures \in Nat /\ collisions \in Nat BY DEF BotTyped
<1>2. \/ UNCHANGED <<failures, collisions>>
      \/ failures' = failures + 1 /\ collisions' = collisions
      \/ collisions' = collisions + 1 /\ failures' = failures
      BY DEF BotStep, JobStep, SeedStep, Fetch, ReadCopy, AnnounceStatus, Warn, NoteWarning,
             StoreCopy, AnnounceVote, SeedFetch, SeedStore, RestartGovernanceBot, Failure, history
<1>3. UNCHANGED <<failures, collisions>> BY <1>1, <1>2 DEF Calm
<1>4. ~Failure BY <1>1, <1>3 DEF Failure
<1> QED BY <1>3, <1>4 DEF Calm

\* What is seen stays seen when the one job at work does not forget it.
LEMMA SeenStays ==
  ASSUME UNCHANGED copy,
         \A k \in Jobs : job[k].at \in Announcing =>
           job'[k].at \in Announcing /\ job'[k].new = job[k].new
  PROVE  /\ \A s : SeenStatus(s) => SeenStatus(s)'
         /\ \A v : SeenVoter(v) => SeenVoter(v)'
BY DEF SeenStatus, SeenVoter

\* While the announcements of the votes are started, nobody has announced the
\* votes that the copy lacks, and they are seen from then on.
LEMMA VotesStartOnce ==
  ASSUME BotTyped, ReadIsPast, Alone, VotesOnce, NEW j \in Jobs,
         job[j].at \notin Announcing, job[j].at # "idle",
         StartVotes(j, copy), UNCHANGED <<copy, votePosts>>
  PROVE  VotesOnce'
<1>1. /\ copy \in Snapshot /\ votePosts \in [Voters -> 0 .. 2]
      /\ underWay \in SUBSET [vote : VoteType, by : Jobs]
      BY DEF BotTyped
<1>2. PICK where \in {"at risk", "done"} :
        job'[j] = [at |-> where, old |-> NoProposal, new |-> job[j].new]
      BY <1>1, StartVotesMeans
<1>3. job'[j].new = job[j].new /\ job'[j].at \in Announcing
  <2>1. PICK none, new : none = NoProposal /\ new = job[j].new OBVIOUS
  <2>2. PICK x : x = [at |-> where, old |-> none, new |-> new] OBVIOUS
  <2>3. x.new = new /\ x.at = where BY <2>2
  <2> QED BY <1>2, <2>1, <2>2, <2>3 DEF Announcing
<1>4. \A k \in Jobs : k # j => job[k].at = "idle" BY DEF Alone
<1>5. \A k \in Jobs : job[k].at \notin Announcing BY <1>4 DEF Announcing
<1>6. \A v : SeenVoter(v) => \E vote \in copy.votes : vote.voter = v BY <1>5 DEF SeenVoter
<1>7. \A v : SeenVoter(v) => SeenVoter(v)' BY <1>5, SeenStays
<1> DEFINE fresh == extractNewVotes(copy, job[j].new)
<1>8. /\ underWay \subseteq underWay'
      /\ \A post \in underWay' \ underWay : post.vote \in fresh /\ post.by = j
      /\ underWay' \in SUBSET [vote : VoteType, by : Jobs]
      BY <1>1, StartVotesMeans
<1>9. \A vote \in fresh : /\ vote \in job[j].new.votes
                          /\ \A old \in copy.votes : old.voter # vote.voter
      BY DEF extractNewVotes
<1>10. \A vote, other \in fresh : vote.voter = other.voter => vote = other
       BY <1>9 DEF ReadIsPast, OneVoteEach, Past
<1>11. \A v \in Voters : votePosts'[v] <= 1 /\ (votePosts'[v] = 1 => SeenVoter(v)')
       BY <1>7 DEF VotesOnce
<1> HIDE DEF fresh
<1>12. \A vote \in fresh : SeenVoter(vote.voter)' BY <1>3, <1>9 DEF SeenVoter
<1>13. ASSUME NEW post \in underWay' \ underWay
       PROVE  votePosts[post.vote.voter] = 0
  <2>1. post.vote \in VoteType /\ post.vote.voter \in Voters BY <1>8 DEF VoteType
  <2>2. ~SeenVoter(post.vote.voter)
    <3>1. post.vote \in fresh BY <1>8
    <3>2. \A old \in copy.votes : old.voter # post.vote.voter BY <1>9, <3>1
    <3> QED BY <1>6, <3>2
  <2>3. PICK v \in Voters : v = post.vote.voter BY <2>1
  <2>4. PICK n \in 0 .. 2 : n = votePosts[v] BY <1>1
  <2>5. n <= 1 BY <2>4 DEF VotesOnce
  <2>6. n # 1 BY <2>2, <2>3, <2>4 DEF VotesOnce
  <2>7. n = 0 BY <2>5, <2>6, MoreCounts
  <2> QED BY <2>3, <2>4, <2>7
<1>14. ASSUME NEW post \in underWay', NEW other \in underWay',
              other.vote.voter = post.vote.voter
       PROVE  other = post
  <2>1. CASE post \in underWay /\ other \in underWay BY <1>14, <2>1 DEF VotesOnce
  <2>2. CASE post \notin underWay /\ other \notin underWay
    <3>1. post.vote = other.vote /\ post.by = other.by BY <1>8, <1>10, <1>14, <2>2
    <3>2. /\ post = [vote |-> post.vote, by |-> post.by]
          /\ other = [vote |-> other.vote, by |-> other.by]
          BY <1>8
    <3> QED BY <3>1, <3>2
  <2>3. ASSUME NEW a \in underWay, NEW b \in underWay' \ underWay, a.vote.voter = b.vote.voter
        PROVE  FALSE
    <3>1. SeenVoter(a.vote.voter) BY DEF VotesOnce
    <3>2. PICK vote \in copy.votes : vote.voter = b.vote.voter BY <1>6, <2>3, <3>1
    <3>3. b.vote \in fresh BY <1>8
    <3> QED BY <1>9, <3>2, <3>3
  <2> QED BY <1>14, <2>1, <2>2, <2>3
<1>15. ASSUME NEW post \in underWay'
       PROVE  SeenVoter(post.vote.voter)' /\ votePosts'[post.vote.voter] = 0
  <2>1. CASE post \in underWay BY <1>7, <2>1 DEF VotesOnce
  <2>2. CASE post \notin underWay BY <1>8, <1>12, <1>13, <2>2
  <2> QED BY <2>1, <2>2
<1> QED BY <1>11, <1>14, <1>15 DEF VotesOnce

\* A status is announced once: neither the copy nor a job has seen it before.
LEMMA StatusPostedOnce ==
  ASSUME BotTyped, Alone, StatusesOnce, NEW j \in Jobs, NEW s \in Statuses,
         job[j].at \notin Announcing, job[j].at # "idle", Rank(copy.status) < Rank(s),
         statusPosts' = [statusPosts EXCEPT ![s] = More(@)], UNCHANGED copy,
         job'[j].at \in Announcing, job'[j].new.status = s
  PROVE  StatusesOnce'
<1>1. statusPosts \in [Statuses -> 0 .. 2] /\ copy \in Snapshot BY DEF BotTyped
<1>2. \A k \in Jobs : k # j => job[k].at = "idle" BY DEF Alone
<1>3. \A k \in Jobs : job[k].at \notin Announcing BY <1>2 DEF Announcing
<1>4. Rank(s) \in Int /\ Rank(copy.status) \in Int BY <1>1, RankIsNumber DEF Snapshot
<1>5. ~SeenStatus(s) BY <1>3, <1>4 DEF SeenStatus
<1>6. statusPosts[s] = 0
  <2>1. statusPosts[s] \in 0 .. 2 /\ statusPosts[s] <= 1 /\ statusPosts[s] # 1
        BY <1>1, <1>5 DEF StatusesOnce
  <2> QED BY <2>1
<1>7. statusPosts'[s] = 1 BY <1>1, <1>6, MoreCounts
<1>8. SeenStatus(s)' BY <1>4 DEF SeenStatus
<1>9. \A t : SeenStatus(t) => SeenStatus(t)' BY <1>3, SeenStays
<1>10. \A t \in Statuses : t # s => statusPosts'[t] = statusPosts[t] BY <1>1
<1>11. ASSUME NEW t \in Statuses
       PROVE  statusPosts'[t] <= 1 /\ (statusPosts'[t] = 1 => SeenStatus(t)')
       BY <1>7, <1>8, <1>9, <1>10 DEF StatusesOnce
<1> QED BY <1>11 DEF StatusesOnce

\* Calm steps keep everything said once.
LEMMA BotsStayCalm ==
  ASSUME BotTyped, ReadIsPast, CalmInv, BotStep
  PROVE  CalmInv'
<1> SUFFICES ASSUME Calm'
             PROVE  Alone' /\ CopyIsOlder' /\ StatusesOnce' /\ VotesOnce' /\ WarningOnce'
    BY DEF CalmInv
<1>1. Calm /\ ~Failure /\ collisions' = collisions BY CalmBefore
<1>2. Alone /\ CopyIsOlder /\ StatusesOnce /\ VotesOnce /\ WarningOnce BY <1>1 DEF CalmInv
<1>3. /\ copy \in Snapshot /\ job \in [Jobs -> JobType] /\ seeding.new \in Snapshot
      /\ statusPosts \in [Statuses -> 0 .. 2] /\ votePosts \in [Voters -> 0 .. 2]
      /\ warningPosts \in 0 .. 2 /\ underWay \in SUBSET [vote : VoteType, by : Jobs]
      /\ collisions \in Nat
      BY DEF BotTyped
<1>4. \A j \in Jobs : job[j].new \in Snapshot /\ job[j].old \in Snapshot BY <1>3 DEF JobType
<1>5. ASSUME NEW j \in Jobs, job[j].at # "idle"
      PROVE  /\ \A k \in Jobs : k # j => job[k].at = "idle"
             /\ seeding.at = "done"
      BY <1>2, <1>5 DEF Alone
\* a job that goes on leaves the others idle
<1>6. ASSUME NEW j \in Jobs, \A k \in Jobs : k # j => job[k].at = "idle" /\ job'[k] = job[k],
             seeding.at = "done", UNCHANGED seeding
      PROVE  Alone'
      BY <1>6 DEF Alone
<1>7. ASSUME NEW j \in Jobs, \A k \in Jobs : k # j => job[k].at = "idle" /\ job'[k] = job[k],
             UNCHANGED copy, NEW p \in Snapshot, job'[j].new = p,
             copy.votes \subseteq p.votes, Rank(copy.status) <= Rank(p.status),
             job'[j].at # "new", job'[j].at # "changed"
      PROVE  CopyIsOlder'
  <2> SUFFICES ASSUME NEW k \in Jobs
               PROVE  /\ job'[k].at # "idle" =>
                           copy'.votes \subseteq job'[k].new.votes
                           /\ Rank(copy'.status) <= Rank(job'[k].new.status)
                      /\ job'[k].at = "new" => copy' = NoProposal
                      /\ job'[k].at = "changed" =>
                           job'[k].old = copy' /\ copy'.status # job'[k].new.status
      BY DEF CopyIsOlder
  <2>1. CASE k = j BY <1>7, <2>1
  <2>2. CASE k # j BY <1>7, <2>2
  <2> QED BY <2>1, <2>2
<1>8. ASSUME UNCHANGED <<votePosts, underWay>>, \A v : SeenVoter(v) => SeenVoter(v)'
      PROVE  VotesOnce'
      BY <1>2, <1>8 DEF VotesOnce
<1>9. ASSUME UNCHANGED statusPosts, \A s : SeenStatus(s) => SeenStatus(s)'
      PROVE  StatusesOnce'
      BY <1>2, <1>9 DEF StatusesOnce
<1>10. ASSUME UNCHANGED <<warningPosts, warned>>, \A k \in Jobs : job[k].at # "warned"
       PROVE  WarningOnce'
       BY <1>2, <1>10 DEF WarningOnce
<1>11. ASSUME NEW j \in Jobs, Fetch(j)
       PROVE  Alone' /\ CopyIsOlder' /\ StatusesOnce' /\ VotesOnce' /\ WarningOnce'
  <2>1. /\ job'[j] = [at |-> "fetched", old |-> NoProposal,
                      new |-> [status |-> Status, votes |-> VotesNow]]
        /\ \A k \in Jobs : k # j => job'[k] = job[k]
        /\ [status |-> Status, votes |-> VotesNow] \in Snapshot
        BY <1>11, FetchMeans
  <2>2. PICK p \in Snapshot : p = [status |-> Status, votes |-> VotesNow] BY <2>1
  <2>3. job'[j].at = "fetched" /\ job'[j].new = p
    <3>1. PICK none : none = NoProposal OBVIOUS
    <3>2. PICK x : x = [at |-> "fetched", old |-> none, new |-> p] OBVIOUS
    <3>3. x.at = "fetched" /\ x.new = p BY <3>2
    <3> QED BY <2>1, <2>2, <3>1, <3>2, <3>3
  <2>4. seeding.at = "done" /\ \A k \in Jobs : job[k].at = "idle"
        BY <1>1, <1>3, <1>11 DEF Fetch, Is
  <2>5. copy.votes \subseteq p.votes /\ Rank(copy.status) <= Rank(p.status)
        BY <2>2 DEF ReadIsPast, Past
  <2>6. UNCHANGED <<copy, warned, seeding, statusPosts, votePosts, warningPosts, underWay>>
        BY <1>11 DEF Fetch, redis, announced
  <2>7. Alone' BY <1>6, <2>1, <2>4, <2>6
  <2>8. CopyIsOlder' BY <1>7, <2>1, <2>3, <2>4, <2>5, <2>6
  <2>9. /\ \A s : SeenStatus(s) => SeenStatus(s)'
        /\ \A v : SeenVoter(v) => SeenVoter(v)'
        BY <2>4, <2>6, SeenStays DEF Announcing
  <2>10. StatusesOnce' /\ VotesOnce' BY <1>8, <1>9, <2>6, <2>9
  <2>11. WarningOnce' BY <1>10, <2>4, <2>6
  <2> QED BY <2>7, <2>8, <2>10, <2>11
<1>12. ASSUME NEW j \in Jobs, ReadCopy(j)
       PROVE  Alone' /\ CopyIsOlder' /\ StatusesOnce' /\ VotesOnce' /\ WarningOnce'
  <2>1. /\ job[j].at = "fetched"
        /\ UNCHANGED <<copy, warned, seeding, statusPosts, votePosts, warningPosts>>
        BY <1>12 DEF ReadCopy, redis, announced, Is
  <2>2. (\A k \in Jobs : k # j => job[k].at = "idle") /\ seeding.at = "done"
        BY <1>5, <2>1
  <2>3. \A k \in Jobs : job[k].at \notin Announcing BY <2>1, <2>2 DEF Announcing
  <2>4. /\ \A s : SeenStatus(s) => SeenStatus(s)'
        /\ \A v : SeenVoter(v) => SeenVoter(v)'
        BY <2>1, <2>3, SeenStays
  <2>5. StatusesOnce' /\ WarningOnce'
        BY <1>9, <1>10, <2>1, <2>2, <2>4
  <2>6. PICK p \in Snapshot : p = job[j].new BY <1>4
  <2>7. copy.votes \subseteq p.votes /\ Rank(copy.status) <= Rank(p.status)
        BY <1>2, <2>1, <2>6 DEF CopyIsOlder
  <2>8. CASE copy = NoProposal /\ MovesTo(j, "new") /\ UNCHANGED underWay
    <3>1. /\ job'[j] = [at |-> "new", old |-> job[j].old, new |-> job[j].new]
          /\ \A k \in Jobs : k # j => job'[k] = job[k]
          BY <1>3, <2>8, MovesToMeans DEF Places
    <3>2. Alone' BY <1>6, <2>1, <2>2, <3>1
    <3>3. VotesOnce' BY <1>8, <2>1, <2>4, <2>8
    <3>4. CopyIsOlder' BY <2>1, <2>2, <2>6, <2>7, <2>8, <3>1 DEF CopyIsOlder
    <3> QED BY <2>5, <3>2, <3>3, <3>4
  <2>9. CASE copy.status # job[j].new.status /\ UNCHANGED underWay
             /\ job' = [job EXCEPT ![j].old = copy, ![j].at = "changed"]
    <3>1. /\ job'[j].old = copy /\ job'[j].at = "changed" /\ job'[j].new = p
          /\ \A k \in Jobs : k # j => job'[k] = job[k]
          BY <1>3, <2>6, <2>9 DEF JobType
    <3>2. Alone' BY <1>6, <2>1, <2>2, <3>1
    <3>3. VotesOnce' BY <1>8, <2>1, <2>4, <2>9
    <3>4. CopyIsOlder' BY <2>1, <2>2, <2>6, <2>7, <2>9, <3>1 DEF CopyIsOlder
    <3> QED BY <2>5, <3>2, <3>3, <3>4
  <2>10. CASE StartVotes(j, copy)
    <3>1. VotesOnce' BY <1>2, <2>1, <2>3, <2>10, VotesStartOnce
    <3>2. PICK where \in {"at risk", "done"} :
            job'[j] = [at |-> where, old |-> NoProposal, new |-> job[j].new]
          BY <1>3, <2>10, StartVotesMeans
    <3>3. \A k \in Jobs : k # j => job'[k] = job[k] BY <1>3, <2>10, StartVotesMeans
    <3>4. job'[j].at = where /\ job'[j].new = p
      <4>1. PICK none : none = NoProposal OBVIOUS
      <4>2. PICK x : x = [at |-> where, old |-> none, new |-> p] OBVIOUS
      <4>3. x.at = where /\ x.new = p BY <4>2
      <4> QED BY <2>6, <3>2, <4>1, <4>2, <4>3
    <3>5. Alone' BY <1>6, <2>1, <2>2, <3>3
    <3>6. CopyIsOlder' BY <1>7, <2>1, <2>2, <2>7, <3>3, <3>4
    <3> QED BY <2>5, <3>1, <3>5, <3>6
  <2> QED BY <1>12, <2>8, <2>9, <2>10 DEF ReadCopy, Compare
<1>13. ASSUME NEW j \in Jobs, AnnounceStatus(j)
       PROVE  Alone' /\ CopyIsOlder' /\ StatusesOnce' /\ VotesOnce' /\ WarningOnce'
  <2>1. UNCHANGED <<copy, warned, seeding, votePosts, warningPosts>>
        BY <1>13 DEF AnnounceStatus, redis
  <2>2. /\ \/ Is(j, "new") /\ MovesTo(j, "done") /\ UNCHANGED underWay
           \/ Is(j, "changed") /\ StartVotes(j, job[j].old)
        /\ statusPosts' = [statusPosts EXCEPT ![job[j].new.status] = More(@)]
        BY <1>1, <1>13 DEF AnnounceStatus
  <2>3. job[j].at \in {"new", "changed"} BY <2>2 DEF Is
  <2>4. (\A k \in Jobs : k # j => job[k].at = "idle") /\ seeding.at = "done"
        BY <1>5, <2>3
  <2>5. job[j].at \notin Announcing /\ job[j].at # "idle" BY <2>3 DEF Announcing
  <2>6. \A k \in Jobs : job[k].at \notin Announcing BY <2>4, <2>5 DEF Announcing
  <2>7. \A v : SeenVoter(v) => SeenVoter(v)' BY <2>1, <2>6, SeenStays
  <2>8. PICK p \in Snapshot : p = job[j].new BY <1>4
  <2>9. copy.votes \subseteq p.votes /\ Rank(copy.status) <= Rank(p.status)
        BY <1>2, <2>3, <2>8 DEF CopyIsOlder
  <2>10. p.status \in Statuses BY <2>3, <2>8 DEF ReadIsPast, Snapshot
  <2>11. Rank(copy.status) < Rank(p.status)
    <3>1. copy.status # p.status
      <4>1. CASE job[j].at = "new"
        <5>1. copy = NoProposal BY <1>2, <4>1 DEF CopyIsOlder
        <5> QED BY <2>10, <5>1 DEF NoProposal, Statuses
      <4>2. CASE job[j].at = "changed" BY <1>2, <2>8, <4>2 DEF CopyIsOlder
      <4> QED BY <2>3, <4>1, <4>2
    <3>2. copy.status \in Statuses \cup {"NONE"} BY <1>3 DEF Snapshot
    <3>3. PICK a \in Int, b \in Int : a = Rank(copy.status) /\ b = Rank(p.status)
          BY <2>10, <3>2, RankIsNumber
    <3>4. a # b BY <2>10, <3>1, <3>2, <3>3, RankIsNumber
    <3>5. a <= b BY <2>9, <3>3
    <3>6. a < b BY <3>4, <3>5
    <3> QED BY <3>3, <3>6
  <2>12. /\ job'[j].at \in {"done", "at risk"} /\ job'[j].new = p
         /\ \A k \in Jobs : k # j => job'[k] = job[k]
    <3>1. CASE MovesTo(j, "done")
      <4>1. /\ job'[j] = [at |-> "done", old |-> job[j].old, new |-> job[j].new]
            /\ \A k \in Jobs : k # j => job'[k] = job[k]
            BY <1>3, <3>1, MovesToMeans DEF Places, Announcing
      <4> QED BY <2>8, <4>1
    <3>2. CASE StartVotes(j, job[j].old)
      <4>1. PICK where \in {"at risk", "done"} :
              job'[j] = [at |-> where, old |-> NoProposal, new |-> job[j].new]
            BY <1>4, <3>2, StartVotesMeans
      <4>2. PICK none : none = NoProposal OBVIOUS
      <4>3. PICK x : x = [at |-> where, old |-> none, new |-> p] OBVIOUS
      <4>4. x.at = where /\ x.new = p BY <4>3
      <4>5. \A k \in Jobs : k # j => job'[k] = job[k] BY <1>4, <3>2, StartVotesMeans
      <4> QED BY <2>8, <4>1, <4>2, <4>3, <4>4, <4>5
    <3> QED BY <2>2, <3>1, <3>2
  <2>13. Alone' BY <1>6, <2>1, <2>4, <2>12
  <2>14. CopyIsOlder' BY <1>7, <2>1, <2>4, <2>9, <2>12
  <2>15. WarningOnce' BY <1>10, <2>1, <2>3, <2>4
  <2>16. StatusesOnce'
    <3>1. statusPosts' = [statusPosts EXCEPT ![p.status] = More(@)] BY <2>2, <2>8
    <3>2. job'[j].at \in Announcing /\ job'[j].new.status = p.status BY <2>12 DEF Announcing
    <3> QED BY <1>2, <2>1, <2>5, <2>10, <2>11, <3>1, <3>2, StatusPostedOnce
  <2>17. VotesOnce'
    <3>1. CASE Is(j, "new") /\ UNCHANGED underWay BY <1>8, <2>1, <2>7, <3>1
    <3>2. CASE Is(j, "changed") /\ StartVotes(j, job[j].old)
      <4>1. job[j].old = copy BY <1>2, <3>2 DEF CopyIsOlder, Is
      <4> QED BY <1>2, <2>1, <2>5, <3>2, <4>1, VotesStartOnce
    <3> QED BY <2>2, <3>1, <3>2
  <2> QED BY <2>13, <2>14, <2>15, <2>16, <2>17
<1>14. ASSUME NEW post \in underWay, AnnounceVote(post)
       PROVE  Alone' /\ CopyIsOlder' /\ StatusesOnce' /\ VotesOnce' /\ WarningOnce'
  <2>1. /\ UNCHANGED <<copy, warned, seeding, job, statusPosts, warningPosts>>
        /\ underWay' = underWay \ {post}
        /\ votePosts' = [votePosts EXCEPT ![post.vote.voter] = More(@)]
        BY <1>1, <1>14 DEF AnnounceVote, redis
  <2>2. PICK v \in Voters : v = post.vote.voter BY <1>3 DEF VoteType
  <2>3. votePosts[v] = 0 /\ SeenVoter(v) BY <1>2, <2>2 DEF VotesOnce
  <2>4. votePosts'[v] = 1 /\ \A w \in Voters : w # v => votePosts'[w] = votePosts[w]
        BY <1>3, <2>1, <2>2, <2>3, MoreCounts
  <2>5. /\ \A s : SeenStatus(s) => SeenStatus(s)'
        /\ \A w : SeenVoter(w) => SeenVoter(w)'
        BY <2>1, SeenStays
  <2>6. Alone' /\ CopyIsOlder' /\ WarningOnce'
    <3>1. seeding.at # "done" => FALSE
          BY <1>2 DEF Alone
    <3>2. Alone' BY <1>2, <2>1, <3>1 DEF Alone
    <3> QED BY <1>2, <2>1, <3>2 DEF CopyIsOlder, WarningOnce
  <2>7. StatusesOnce' BY <1>9, <2>1, <2>5
  <2>8. \A w \in Voters : votePosts'[w] <= 1 /\ (votePosts'[w] = 1 => SeenVoter(w)')
        BY <1>2, <2>3, <2>4, <2>5 DEF VotesOnce
  <2>9. ASSUME NEW other \in underWay'
        PROVE  /\ SeenVoter(other.vote.voter)' /\ votePosts'[other.vote.voter] = 0
               /\ \A another \in underWay' :
                    another.vote.voter = other.vote.voter => another = other
    <3>1. other \in underWay /\ other # post BY <2>1
    <3>2. other.vote.voter # v BY <1>2, <2>2, <3>1 DEF VotesOnce
    <3>3. other.vote.voter \in Voters BY <1>3, <3>1 DEF VoteType
    <3>4. SeenVoter(other.vote.voter)' BY <1>2, <2>5, <3>1 DEF VotesOnce
    <3> QED BY <1>2, <2>1, <2>4, <3>1, <3>2, <3>3, <3>4 DEF VotesOnce
  <2>10. VotesOnce' BY <2>8, <2>9 DEF VotesOnce
  <2> QED BY <2>6, <2>7, <2>10
<1>15. ASSUME NEW j \in Jobs, NEW where \in {"done", "warned"}, MovesTo(j, where),
              job[j].at \in Announcing,
              UNCHANGED <<copy, seeding, statusPosts, votePosts, underWay>>
       PROVE  /\ Alone' /\ CopyIsOlder' /\ StatusesOnce' /\ VotesOnce'
              /\ job'[j].at = where
  <2>1. /\ job'[j] = [at |-> where, old |-> job[j].old, new |-> job[j].new]
        /\ \A k \in Jobs : k # j => job'[k] = job[k]
        BY <1>3, <1>15, MovesToMeans DEF Places, Announcing
  <2>2. PICK p \in Snapshot : p = job[j].new BY <1>4
  <2>3. job'[j].at = where /\ job'[j].new = p BY <2>1, <2>2
  <2>4. (\A k \in Jobs : k # j => job[k].at = "idle") /\ seeding.at = "done"
        BY <1>5, <1>15 DEF Announcing
  <2>5. copy.votes \subseteq p.votes /\ Rank(copy.status) <= Rank(p.status)
        BY <1>2, <1>15, <2>2 DEF CopyIsOlder, Announcing
  <2>6. Alone' BY <1>6, <1>15, <2>1, <2>4
  <2>7. CopyIsOlder' BY <1>7, <1>15, <2>1, <2>3, <2>4, <2>5
  <2>8. where \in Announcing BY DEF Announcing
  <2>9. /\ \A s : SeenStatus(s) => SeenStatus(s)'
        /\ \A v : SeenVoter(v) => SeenVoter(v)'
        BY <1>15, <2>1, <2>2, <2>3, <2>8, SeenStays
  <2> QED BY <1>8, <1>9, <1>15, <2>3, <2>6, <2>7, <2>9
<1>16. ASSUME NEW j \in Jobs, Warn(j)
       PROVE  Alone' /\ CopyIsOlder' /\ StatusesOnce' /\ VotesOnce' /\ WarningOnce'
  <2>1. /\ UNCHANGED <<copy, warned, seeding, statusPosts, votePosts, underWay>>
        /\ job[j].at = "at risk"
        BY <1>16 DEF Warn, redis, Is
  <2>2. \/ MovesTo(j, "done") /\ UNCHANGED warningPosts
        \/ ~warned /\ MovesTo(j, "warned") /\ warningPosts' = More(warningPosts)
        BY <1>1, <1>16 DEF Warn
  <2>3. \A k \in Jobs : job[k].at # "warned"
        BY <1>5, <2>1
  <2>4. Alone' /\ CopyIsOlder' /\ StatusesOnce' /\ VotesOnce'
        BY <1>15, <2>1, <2>2 DEF Announcing
  <2>5. CASE MovesTo(j, "done") /\ UNCHANGED warningPosts
        BY <1>10, <2>1, <2>3, <2>4, <2>5
  <2>6. CASE ~warned /\ MovesTo(j, "warned") /\ warningPosts' = More(warningPosts)
    <3>1. PICK n \in 0 .. 2 : n = warningPosts BY <1>3
    <3>2. n <= 1 /\ n # 1 BY <1>2, <2>3, <2>6, <3>1 DEF WarningOnce
    <3>3. n = 0 BY <3>2
    <3>4. warningPosts' = 1 BY <2>6, <3>1, <3>3, MoreCounts
    <3>5. job'[j].at = "warned" BY <1>15, <2>1, <2>6 DEF Announcing
    <3>6. WarningOnce' BY <3>4, <3>5 DEF WarningOnce
    <3> QED BY <2>4, <3>6
  <2> QED BY <2>2, <2>5, <2>6
<1>17. ASSUME NEW j \in Jobs, NoteWarning(j)
       PROVE  Alone' /\ CopyIsOlder' /\ StatusesOnce' /\ VotesOnce' /\ WarningOnce'
  <2>1. /\ UNCHANGED <<copy, seeding, statusPosts, votePosts, warningPosts, underWay>>
        /\ job[j].at = "warned" /\ MovesTo(j, "done") /\ warned'
        BY <1>17 DEF NoteWarning, announced, Is
  <2>2. Alone' /\ CopyIsOlder' /\ StatusesOnce' /\ VotesOnce'
        BY <1>15, <2>1 DEF Announcing
  <2>3. WarningOnce' BY <1>2, <2>1 DEF WarningOnce
  <2> QED BY <2>2, <2>3
<1>18. ASSUME NEW j \in Jobs, StoreCopy(j)
       PROVE  Alone' /\ CopyIsOlder' /\ StatusesOnce' /\ VotesOnce' /\ WarningOnce'
  <2>1. PICK p \in Snapshot : p = job[j].new BY <1>4
  <2>2. /\ UNCHANGED <<warned, seeding, statusPosts, votePosts, warningPosts, underWay>>
        /\ job[j].at = "done" /\ Drops(j) /\ copy' = p
        BY <1>18, <2>1 DEF StoreCopy, announced, Is
  <2>3. job'[j] = NoJob /\ \A k \in Jobs : k # j => job'[k] = job[k]
        BY <1>3, <2>2, DropsMeans
  <2>4. (\A k \in Jobs : k # j => job[k].at = "idle") /\ seeding.at = "done"
        BY <1>5, <2>2
  <2>5. \A k \in Jobs : job'[k].at = "idle" BY <2>3, <2>4 DEF NoJob
  <2>6. Alone' /\ CopyIsOlder' BY <2>2, <2>4, <2>5 DEF Alone, CopyIsOlder
  <2>7. copy.votes \subseteq p.votes /\ Rank(copy.status) <= Rank(p.status)
        BY <1>2, <2>1, <2>2 DEF CopyIsOlder
  <2>8. \A k \in Jobs : job[k].at \in Announcing => job[k].new = p
        BY <2>1, <2>4 DEF Announcing
  <2>9. ASSUME NEW s \in Statuses, SeenStatus(s)
        PROVE  SeenStatus(s)'
    <3>1. Rank(s) <= Rank(copy.status) \/ Rank(s) <= Rank(p.status)
          BY <2>8, <2>9 DEF SeenStatus
    <3>2. Rank(s) \in Int /\ Rank(copy.status) \in Int /\ Rank(p.status) \in Int
          BY <1>3, RankIsNumber DEF Snapshot
    <3>3. PICK a \in Int, b \in Int, c \in Int :
            a = Rank(s) /\ b = Rank(copy.status) /\ c = Rank(p.status)
          BY <3>2
    <3>4. (a <= b \/ a <= c) /\ b <= c BY <2>7, <3>1, <3>3
    <3>5. a <= c BY <3>4
    <3> QED BY <2>2, <3>3, <3>5 DEF SeenStatus
  <2>10. ASSUME NEW v, SeenVoter(v)
         PROVE  SeenVoter(v)'
    <3>1. \E vote \in p.votes : vote.voter = v BY <2>7, <2>8, <2>10 DEF SeenVoter
    <3> QED BY <2>2, <3>1 DEF SeenVoter
  <2>11. StatusesOnce' BY <1>2, <2>2, <2>9 DEF StatusesOnce
  <2>12. VotesOnce' BY <1>8, <2>2, <2>10
  <2>13. WarningOnce' BY <1>10, <2>2, <2>4
  <2> QED BY <2>6, <2>11, <2>12, <2>13
<1>19. ASSUME seeding.at # "done"
       PROVE  /\ \A k \in Jobs : job[k].at = "idle"
              /\ copy = NoProposal /\ underWay = {}
              /\ \A s \in Statuses : statusPosts[s] = 0
              /\ \A v \in Voters : votePosts[v] = 0
       BY <1>2, <1>19 DEF Alone
<1>20. CASE SeedFetch
  <2>1. /\ UNCHANGED <<copy, warned, job, statusPosts, votePosts, warningPosts, underWay>>
        /\ seeding.at # "done"
        BY <1>20 DEF SeedFetch, redis, announced
  <2>2. Alone' BY <1>19, <2>1 DEF Alone
  <2>3. CopyIsOlder' /\ WarningOnce' BY <1>2, <2>1 DEF CopyIsOlder, WarningOnce
  <2>4. StatusesOnce' BY <1>19, <2>1 DEF StatusesOnce
  <2>5. VotesOnce' BY <1>19, <2>1 DEF VotesOnce
  <2> QED BY <2>2, <2>3, <2>4, <2>5
<1>21. CASE SeedStore
  <2>1. /\ UNCHANGED <<warned, job, statusPosts, votePosts, warningPosts, underWay>>
        /\ seeding.at # "done" /\ seeding'.at = "done"
        BY <1>21 DEF SeedStore, announced
  <2>2. Alone' /\ CopyIsOlder' BY <1>19, <2>1 DEF Alone, CopyIsOlder
  <2>3. StatusesOnce' BY <1>19, <2>1 DEF StatusesOnce
  <2>4. VotesOnce' BY <1>19, <2>1 DEF VotesOnce
  <2>5. WarningOnce' BY <1>10, <1>19, <2>1
  <2> QED BY <2>2, <2>3, <2>4, <2>5
<1>22. CASE RestartGovernanceBot
       BY <1>1, <1>22 DEF RestartGovernanceBot
<1> QED BY <1>11, <1>12, <1>13, <1>14, <1>16, <1>17, <1>18, <1>20, <1>21, <1>22
        DEF BotStep, JobStep, SeedStep

------------------------------------------------------------
(* The theorems                                                            *)

\* At the start.
LEMMA BotInitially == GovernanceBotInit => BotInv
<1> SUFFICES ASSUME GovernanceBotInit
             PROVE  BotInv
    OBVIOUS
<1>1. /\ proposals = EmptyDAOIndex /\ copy = NoProposal /\ warned = FALSE
      /\ job = [j \in Jobs |-> NoJob] /\ seeding = [at |-> "start", new |-> NoProposal]
      /\ statusPosts = [s \in Statuses |-> 0]
      /\ warningPosts = 0 /\ votePosts = [v \in Voters |-> 0]
      /\ underWay = {} /\ unposted = {} /\ seeded = {"NONE"}
      /\ failures = 0 /\ collisions = 0
      BY DEF GovernanceBotInit
<1>2. NoProposal \in Snapshot /\ NoProposal.votes = {} /\ NoProposal.status = "NONE"
      BY DEF NoProposal, Snapshot
<1>3. /\ NoJob \in JobType /\ NoJob.at = "idle" /\ NoJob.old = NoProposal
      /\ NoJob.new = NoProposal
      BY <1>2 DEF NoJob, JobType
<1>4. EmptyDAOIndex \in StoreType /\ EmptyDAOIndex.proposals = <<>>
      BY EmptySeq DEF EmptyDAOIndex, StoreType, NoParams
<1>5. BotTyped
  <2>1. Len(proposals.proposals) = 0 BY <1>1, <1>4, EmptySeq
  <2>2. proposals \in StoreType /\ Len(proposals.proposals) <= 1 BY <1>1, <1>4, <2>1
  <2>3. job \in [Jobs -> JobType] BY <1>1, <1>3
  <2>4. statusPosts \in [Statuses -> 0 .. 2] /\ votePosts \in [Voters -> 0 .. 2] BY <1>1
  <2>5. warningPosts \in 0 .. 2 /\ failures \in Nat /\ collisions \in Nat BY <1>1
  <2>6. seeding \in [at : {"start", "fetched", "done"}, new : Snapshot] BY <1>1, <1>2
  <2>7. /\ copy \in Snapshot /\ warned \in BOOLEAN
        /\ underWay \in SUBSET [vote : VoteType, by : Jobs]
        /\ unposted \in SUBSET VoteType /\ seeded \in SUBSET (Statuses \cup {"NONE"})
        BY <1>1, <1>2
  <2> QED BY <2>2, <2>3, <2>4, <2>5, <2>6, <2>7 DEF BotTyped
<1>6. VotesNow = {} /\ Status = "NONE" BY <1>1, <1>4 DEF VotesNow, Status, Proposed
<1>7. Past(NoProposal)
  <2>1. Rank("NONE") <= Rank("NONE") BY RankIsNumber
  <2> QED BY <1>2, <1>6, <2>1 DEF Past
<1>8. ReadIsPast BY <1>1, <1>3, <1>6, <1>7 DEF ReadIsPast, OneVoteEach
<1>9. CopiedIsDealtWith
  <2>1. StatusHandled(copy) /\ VotesHandled(copy)
        BY <1>1, <1>2 DEF StatusHandled, VotesHandled, Counting
  <2>2. \A j \in Jobs : job[j].at \notin Announcing /\ job[j].at # "changed"
        BY <1>1, <1>3 DEF Announcing
  <2> QED BY <2>1, <2>2 DEF CopiedIsDealtWith
<1>10. CalmInv
  <2>1. \A j \in Jobs : job[j].at = "idle" BY <1>1, <1>3
  <2>2. Alone /\ CopyIsOlder BY <1>1, <2>1 DEF Alone, CopyIsOlder
  <2>3. StatusesOnce /\ VotesOnce /\ WarningOnce
        BY <1>1 DEF StatusesOnce, VotesOnce, WarningOnce
  <2> QED BY <2>2, <2>3 DEF CalmInv
<1> QED BY <1>5, <1>8, <1>9, <1>10 DEF BotInv

\* Every step, of the governor or of the bots, keeps the invariant.
LEMMA BotStepKeeps ==
  ASSUME BotInv, [GovernanceBotNext]_governanceBotVars
  PROVE  BotInv'
<1> USE DEF BotInv
<1>1. CASE BotStep
      BY <1>1, BotsStayTyped, BotsReadThePast, CopiedStaysDealtWith, BotsStayCalm
<1>2. CASE GovernorStep
  <2>1. /\ proposals' \in StoreType /\ Len(proposals'.proposals) <= 1
        /\ VotesNow \subseteq VotesNow' /\ Rank(Status) <= Rank(Status')
        /\ OneVoteEach'
        BY <1>2, GovernorMovesOn DEF ReadIsPast
  <2>2. UNCHANGED <<copy, warned, job, seeding, statusPosts, votePosts, warningPosts,
                    underWay, unposted, seeded, failures, collisions>>
        BY <1>2, GovernorMovesOn DEF ReadIsPast, botSide, announced, history
  <2>3. BotTyped' BY <2>1, <2>2 DEF BotTyped
  <2>4. Status' \in Statuses \cup {"NONE"}
    <3>1. CASE proposals'.proposals = <<>> BY <3>1 DEF Status, Proposed
    <3>2. CASE proposals'.proposals # <<>>
      <4>1. PICK s \in Seq(EntityType) : s = proposals'.proposals BY <2>1 DEF StoreType
      <4>2. s[1] \in EntityType
        <5>1. Len(s) \in Nat \ {0} BY <3>2, <4>1, EmptySeq
        <5>2. 1 \in 1 .. Len(s) BY <5>1
        <5> QED BY <5>2, ElementOfSeq
      <4> QED BY <3>2, <4>1, <4>2 DEF Status, Proposed, EntityType
    <3> QED BY <3>1, <3>2
  <2>5. ASSUME NEW p \in Snapshot, Past(p)
        PROVE  Past(p)'
    <3>1. /\ Rank(p.status) \in 0 .. 6 /\ Rank(Status) \in 0 .. 6 /\ Rank(Status') \in 0 .. 6
          BY <2>4, WhatIsRead, RankIsNumber DEF Snapshot
    <3>2. PICK a \in Int, b \in Int, c \in Int :
            a = Rank(p.status) /\ b = Rank(Status) /\ c = Rank(Status')
          BY <3>1
    <3>3. a <= b /\ b <= c BY <2>1, <2>5, <3>2 DEF Past
    <3>4. a <= c BY <3>3
    <3>5. Rank(p.status) <= Rank(Status') BY <3>2, <3>4
    <3>6. p.votes \subseteq VotesNow' BY <2>1, <2>5 DEF Past
    <3> QED BY <3>5, <3>6 DEF Past
  <2>6. ReadIsPast'
    <3>1. PICK c \in Snapshot, s \in Snapshot : c = copy /\ s = seeding.new BY DEF BotTyped
    <3>2. Past(c)' /\ Past(s)' BY <2>5, <3>1 DEF ReadIsPast
    <3>3. Past(copy)' /\ Past(seeding.new)' BY <2>2, <3>1, <3>2 DEF Past
    <3>4. ASSUME NEW j \in Jobs
          PROVE  Past(job[j].old)' /\ Past(job[j].new)'
      <4>1. PICK old \in Snapshot, new \in Snapshot : old = job[j].old /\ new = job[j].new
            BY DEF BotTyped, JobType
      <4>2. Past(old)' /\ Past(new)' BY <2>5, <4>1 DEF ReadIsPast
      <4> QED BY <2>2, <4>1, <4>2 DEF Past
    <3> QED BY <2>1, <2>2, <3>3, <3>4 DEF ReadIsPast
  <2>7. CopiedIsDealtWith'
        BY <2>2 DEF CopiedIsDealtWith, StatusHandled, VotesHandled, Handled, Counting
  <2>8. CalmInv'
        BY <2>2 DEF CalmInv, Calm, Alone, CopyIsOlder, StatusesOnce, VotesOnce, WarningOnce,
             SeenStatus, SeenVoter
  <2> QED BY <2>3, <2>6, <2>7, <2>8
<1>3. CASE UNCHANGED governanceBotVars
  <2>1. BotTyped' BY <1>3 DEF BotTyped, governanceBotVars
  <2>2. ReadIsPast'
        BY <1>3 DEF ReadIsPast, OneVoteEach, Past, VotesNow, Status, Proposed, governanceBotVars
  <2>3. CopiedIsDealtWith'
        BY <1>3 DEF CopiedIsDealtWith, StatusHandled, VotesHandled, Handled, Counting,
             governanceBotVars
  <2>4. CalmInv'
        BY <1>3 DEF CalmInv, Calm, Alone, CopyIsOlder, StatusesOnce, VotesOnce, WarningOnce,
             SeenStatus, SeenVoter, governanceBotVars
  <2> QED BY <2>1, <2>2, <2>3, <2>4
<1> QED BY <1>1, <1>2, <1>3 DEF GovernanceBotNext, BotStep, GovernorStep

(***************************************************************************)
(* Whatever ticks overlap, requests fail and restarts lose: the copy in    *)
(* Redis never claims a status or a vote that was not seen to.             *)
(***************************************************************************)
THEOREM CopiesAreTrue ==
  GovernanceBotInit /\ [][GovernanceBotNext]_governanceBotVars => []CopyWasAnnounced
<1>1. BotInv => CopyWasAnnounced
      BY DEF BotInv, CopiedIsDealtWith, StatusHandled, VotesHandled, Handled, CopyWasAnnounced
<1> QED BY <1>1, BotInitially, BotStepKeeps, PTL

(***************************************************************************)
(* While nothing fails, nothing restarts and no two ticks meet, the bots   *)
(* say everything at most once.                                            *)
(***************************************************************************)
THEOREM SaidOnce ==
  GovernanceBotInit /\ [][GovernanceBotNext]_governanceBotVars => []NothingRepeated
<1>1. BotInv => NothingRepeated
  <2> SUFFICES ASSUME BotInv, ~(failures + collisions > 0)
               PROVE  /\ \A v \in Voters : votePosts[v] <= 1
                      /\ \A s \in Statuses : statusPosts[s] <= 1
                      /\ warningPosts <= 1
      BY DEF NothingRepeated
  <2>1. PICK f \in Nat, c \in Nat : f = failures /\ c = collisions BY DEF BotInv, BotTyped
  <2>2. ~(f + c > 0) BY <2>1
  <2>3. f + c = 0 BY <2>2
  <2>4. Calm BY <2>1, <2>3 DEF Calm
  <2> QED BY <2>4 DEF BotInv, CalmInv, StatusesOnce, VotesOnce, WarningOnce
<1> QED BY <1>1, BotInitially, BotStepKeeps, PTL

------------------------------------------------------------
(* THE DEPLOYMENT                                                          *)

(* What the tasks deploy.                                                  *)

\* the tasks that no constructor stops
Complete4 == {"deploy-and-configure", "deploy-ci", "deploy-descriptor-v2", "deploy-v2-logic"}

Names == List.contracts

\* where the token is in the list of a task that passes too little to it
TokenAt == IF run.task = "run-local" THEN 8 ELSE 7

\* the tasks that the constructor of the token stops
Rejecting == {"deploy-and-configure-short-times", "deploy-and-configure-short-times-daov1",
              "run-local"}

\* The thirteen contracts of the system, in the order they are deployed in.
LEMMA SystemList ==
  ASSUME NEW logic, NEW proxy
  PROVE  LET s == systemContracts(logic, proxy) IN
         /\ Len(s) = 13
         /\ s[1] = "NFTDescriptorV2" /\ s[2] = "SVGRenderer" /\ s[3] = "NounsDescriptorV2"
         /\ s[4] = "Inflator" /\ s[5] = "NounsArt" /\ s[6] = "NounsSeeder"
         /\ s[7] = "NounsToken" /\ s[8] = "NounsAuctionHouse"
         /\ s[9] = "NounsAuctionHouseProxyAdmin" /\ s[10] = "NounsAuctionHouseProxy"
         /\ s[11] = "NounsDAOExecutor" /\ s[12] = logic /\ s[13] = proxy
BY DEF systemContracts, descriptorContracts

\* The local node's WETH comes before them.
LEMMA LocalList ==
  /\ Len(deployLocal.contracts) = 15
  /\ deployLocal.contracts[8] = "NounsToken"
BY DEF deployLocal, systemContracts, descriptorContracts

\* No contract is deployed twice.
LEMMA SystemOnce ==
  ASSUME NEW logic, NEW proxy,
         logic \in {"NounsDAOLogicV1", "NounsDAOLogicV2"},
         proxy \in {"NounsDAOProxy", "NounsDAOProxyV2"},
         NEW i \in 1 .. 13, NEW j \in 1 .. 13,
         systemContracts(logic, proxy)[i] = systemContracts(logic, proxy)[j]
  PROVE  i = j
<1>. DEFINE s == systemContracts(logic, proxy)
<1>1. /\ s[1] = "NFTDescriptorV2" /\ s[2] = "SVGRenderer" /\ s[3] = "NounsDescriptorV2"
      /\ s[4] = "Inflator" /\ s[5] = "NounsArt" /\ s[6] = "NounsSeeder"
      /\ s[7] = "NounsToken" /\ s[8] = "NounsAuctionHouse"
      /\ s[9] = "NounsAuctionHouseProxyAdmin" /\ s[10] = "NounsAuctionHouseProxy"
      /\ s[11] = "NounsDAOExecutor" /\ s[12] = logic /\ s[13] = proxy
  BY SystemList
<1>. HIDE DEF s
<1>2. \/ i = 1 \/ i = 2 \/ i = 3 \/ i = 4 \/ i = 5 \/ i = 6 \/ i = 7
      \/ i = 8 \/ i = 9 \/ i = 10 \/ i = 11 \/ i = 12 \/ i = 13
  OBVIOUS
<1>3. \/ j = 1 \/ j = 2 \/ j = 3 \/ j = 4 \/ j = 5 \/ j = 6 \/ j = 7
      \/ j = 8 \/ j = 9 \/ j = 10 \/ j = 11 \/ j = 12 \/ j = 13
  OBVIOUS
<1>. QED BY <1>1, <1>2, <1>3 DEF s

\* the lists of the tasks that no constructor stops
LEMMA CompleteLists ==
  ASSUME run.task \in Complete4
  PROVE  /\ run.task \in {"deploy-and-configure", "deploy-ci"} =>
              /\ Len(Names) = 13
              /\ Names[3] = "NounsDescriptorV2" /\ Names[5] = "NounsArt"
              /\ Names[7] = "NounsToken" /\ Names[9] = "NounsAuctionHouseProxyAdmin"
              /\ Names[10] = "NounsAuctionHouseProxy" /\ Names[11] = "NounsDAOExecutor"
              /\ Names[13] = "NounsDAOProxy"
              /\ \A i \in 1 .. 13 : Names[i] # "NFTDescriptor" /\ Names[i] # "NounsDAOProxyV2"
         /\ run.task = "deploy-descriptor-v2" =>
              /\ Len(Names) = 5
              /\ Names[3] = "NounsDescriptorV2" /\ Names[5] = "NounsArt"
              /\ \A i \in 1 .. 5 :
                   Names[i] \in {"NFTDescriptorV2", "SVGRenderer", "NounsDescriptorV2",
                                 "Inflator", "NounsArt"}
         /\ run.task = "deploy-v2-logic" => Len(Names) = 1 /\ Names[1] = "NounsDAOLogicV2"
         /\ \A i, j \in 1 .. Len(Names) : Names[i] = Names[j] => i = j
         /\ Len(Names) \in Nat \ {0}
<1>1. CASE run.task \in {"deploy-and-configure", "deploy-ci"}
  <2>1. Names = systemContracts("NounsDAOLogicV1", "NounsDAOProxy")
    BY <1>1 DEF Names, List, deploy
  <2>. DEFINE s == Names
  <2>2. /\ Len(s) = 13
        /\ s[1] = "NFTDescriptorV2" /\ s[2] = "SVGRenderer" /\ s[3] = "NounsDescriptorV2"
        /\ s[4] = "Inflator" /\ s[5] = "NounsArt" /\ s[6] = "NounsSeeder"
        /\ s[7] = "NounsToken" /\ s[8] = "NounsAuctionHouse"
        /\ s[9] = "NounsAuctionHouseProxyAdmin" /\ s[10] = "NounsAuctionHouseProxy"
        /\ s[11] = "NounsDAOExecutor" /\ s[12] = "NounsDAOLogicV1" /\ s[13] = "NounsDAOProxy"
    BY <2>1, SystemList
  <2>3. \A i, j \in 1 .. Len(Names) : Names[i] = Names[j] => i = j
    <3>1. ASSUME NEW i \in 1 .. 13, NEW j \in 1 .. 13, Names[i] = Names[j] PROVE i = j
      <4>. DEFINE t == systemContracts("NounsDAOLogicV1", "NounsDAOProxy")
      <4>1. t[i] = t[j]
        BY <2>1, <3>1
      <4>. HIDE DEF t
      <4>2. \A x, y \in 1 .. 13 : t[x] = t[y] => x = y
        BY SystemOnce DEF t
      <4>. QED BY <4>1, <4>2
    <3>. QED BY <2>2, <3>1
  <2>. HIDE DEF s
  <2>4. ASSUME NEW i \in 1 .. 13 PROVE s[i] # "NFTDescriptor" /\ s[i] # "NounsDAOProxyV2"
    <3>1. \/ i = 1 \/ i = 2 \/ i = 3 \/ i = 4 \/ i = 5 \/ i = 6 \/ i = 7
          \/ i = 8 \/ i = 9 \/ i = 10 \/ i = 11 \/ i = 12 \/ i = 13
      OBVIOUS
    <3>. QED BY <2>2, <3>1
  <2>. QED BY <1>1, <2>2, <2>3, <2>4 DEF s
<1>2. CASE run.task = "deploy-descriptor-v2"
  <2>. DEFINE s == Names
  <2>1. /\ Len(s) = 5
        /\ s[1] = "NFTDescriptorV2" /\ s[2] = "SVGRenderer" /\ s[3] = "NounsDescriptorV2"
        /\ s[4] = "Inflator" /\ s[5] = "NounsArt"
    BY <1>2 DEF Names, List, deployDescriptorV2, descriptorContracts
  <2>. HIDE DEF s
  <2>2. \A i \in 1 .. 5 : i = 1 \/ i = 2 \/ i = 3 \/ i = 4 \/ i = 5
    OBVIOUS
  <2>3. \A i, j \in 1 .. 5 : s[i] = s[j] => i = j
    BY <2>1, <2>2
  <2>4. \A i \in 1 .. 5 : s[i] \in {"NFTDescriptorV2", "SVGRenderer", "NounsDescriptorV2",
                                    "Inflator", "NounsArt"}
    BY <2>1, <2>2
  <2>. QED BY <1>2, <2>1, <2>3, <2>4 DEF s
<1>3. CASE run.task = "deploy-v2-logic"
  BY <1>3 DEF Names, List, deployV2Logic
<1>. QED BY <1>1, <1>2, <1>3 DEF Complete4

\* a task whose token is passed too little never sends it
LEMMA TokenRejected ==
  ASSUME run.task \in Rejecting, Accepted, step = TokenAt
  PROVE  FALSE
<1>1. Contract = "NounsToken" /\ List.arguments["NounsToken"] =
        Together([minter     |-> Expected("NounsAuctionHouseProxy"),
                  descriptor |-> Deployed("NounsDescriptorV2"),
                  seeder     |-> Deployed("NounsSeeder")], nounders)
      /\ "NounsToken" \in DOMAIN List.arguments
  <2>1. CASE run.task = "run-local"
    <3>1. List = deployLocal
      BY <2>1 DEF List
    <3>2. Contract = "NounsToken"
      BY <2>1, <3>1, LocalList DEF Contract, TokenAt
    <3>. QED BY <3>1, <3>2 DEF deployLocal, systemArguments
  <2>2. CASE run.task = "deploy-and-configure-short-times"
    <3>1. List = deployShortTimes
      BY <2>2 DEF List
    <3>2. Contract = "NounsToken"
      BY <2>2, <3>1, SystemList DEF Contract, TokenAt, deployShortTimes
    <3>. QED BY <3>1, <3>2 DEF deployShortTimes, systemArguments
  <2>3. CASE run.task = "deploy-and-configure-short-times-daov1"
    <3>1. List = deployShortTimesDaov1
      BY <2>3 DEF List
    <3>2. Contract = "NounsToken"
      BY <2>3, <3>1, SystemList DEF Contract, TokenAt, deployShortTimesDaov1, deploy
    <3>. QED BY <3>1, <3>2 DEF deployShortTimesDaov1, systemArguments
  <2>. QED BY <2>1, <2>2, <2>3 DEF Rejecting
<1>2. "unouncil" \notin DOMAIN Wired
  BY <1>1 DEF Wired, Together, nounders
<1>3. "unouncil" \in Constructors["NounsToken"] /\ "NounsToken" \in DOMAIN Constructors
  BY DEF Constructors
<1>. QED BY <1>1, <1>2, <1>3 DEF Accepted

\* The token is neither the first nor the last of the contracts.
LEMMA RejectingLists ==
  ASSUME run.task \in Rejecting
  PROVE  /\ Len(Names) \in Nat /\ TokenAt \in Nat /\ TokenAt > 1 /\ TokenAt < Len(Names)
<1>1. CASE run.task = "run-local"
  <2>1. Names = deployLocal.contracts /\ TokenAt = 8
    BY <1>1 DEF Names, List, TokenAt
  <2>. QED BY <2>1, LocalList
<1>2. CASE run.task = "deploy-and-configure-short-times"
  <2>1. Names = deployShortTimes.contracts /\ TokenAt = 7
    BY <1>2 DEF Names, List, TokenAt
  <2>2. Names = systemContracts("NounsDAOLogicV2", "NounsDAOProxyV2")
    BY <2>1 DEF deployShortTimes
  <2>3. Len(Names) = 13
    BY <2>2, SystemList
  <2>. QED BY <2>1, <2>3
<1>3. CASE run.task = "deploy-and-configure-short-times-daov1"
  <2>1. Names = deployShortTimesDaov1.contracts /\ TokenAt = 7
    BY <1>3 DEF Names, List, TokenAt
  <2>2. Names = systemContracts("NounsDAOLogicV1", "NounsDAOProxy")
    BY <2>1 DEF deployShortTimesDaov1, deploy
  <2>3. Len(Names) = 13
    BY <2>2, SystemList
  <2>. QED BY <2>1, <2>3
<1>. QED BY <1>1, <1>2, <1>3 DEF Rejecting

------------------------------------------------------------
(* Contract by contract.                                                   *)

\* the first k - 1 contracts are deployed as planned, at the earliest at the addresses expected
UpTo(k) ==
  /\ DOMAIN deployment = {Names[i] : i \in 1 .. k - 1}
  /\ \A i \in 1 .. k - 1 :
       /\ deployment[Names[i]].address \in Nat
       /\ base + (i - 1) <= deployment[Names[i]].address
       /\ deployment[Names[i]].address + (k - i) <= nonce
       /\ deployment[Names[i]].code = Names[i]
       /\ Names[i] = "NounsDescriptorV2" => deployment[Names[i]].args.art = base + 4
       /\ Names[i] = "NounsToken" => deployment[Names[i]].args.minter = base + 9
       /\ Names[i] = "NounsDAOExecutor" => deployment[Names[i]].args.admin = base + 12
       /\ Names[i] = "NounsAuctionHouseProxy" => deployment[Names[i]].address = base + 9
       /\ Names[i] = "NounsDAOProxy" => deployment[Names[i]].address = base + 12
  /\ \A i, j \in 1 .. k - 1 :
       i < j => deployment[Names[i]].address + (j - i) <= deployment[Names[j]].address

\* the deployer owns those that can be owned
OwnedUpTo(k) == \A i \in 1 .. k - 1 : Names[i] \in ownable => owner[Names[i]] = "deployer"

\* what the constructors are passed, and where the code looks whether it was right
LEMMA Wiring ==
  ASSUME run.task \in Complete4, Validated,
         step \in 1 .. Len(Names)
  PROVE  /\ Contract = Names[step]
         /\ Contract = "NounsDescriptorV2" => "art" \in DOMAIN Wired /\ Resolve(Wired["art"]) = base + 4
         /\ Contract = "NounsToken" => "minter" \in DOMAIN Wired /\ Resolve(Wired["minter"]) = base + 9
         /\ Contract = "NounsDAOExecutor" => "admin" \in DOMAIN Wired /\ Resolve(Wired["admin"]) = base + 12
         /\ Contract = "NounsAuctionHouseProxy" => nonce = base + 9
         /\ Contract = "NounsDAOProxy" => nonce = base + 12
<1>1. Contract = Names[step]
  BY DEF Contract, Names
<1>2. CASE run.task \in {"deploy-and-configure", "deploy-ci"}
  <2>1. List = deploy
    BY <1>2 DEF List
  <2>2. /\ deploy.offsets.NounsArt = 4 /\ deploy.offsets.NounsAuctionHouseProxy = 9
        /\ deploy.offsets.governor = 12
        /\ deploy.offsets["NounsArt"] = 4 /\ deploy.offsets["NounsAuctionHouseProxy"] = 9
        /\ deploy.offsets["governor"] = 12
        /\ deploy.validated = {"NounsAuctionHouseProxy", "NounsDAOProxy"}
    BY DEF deploy
  <2>3. deploy.arguments = systemArguments("NounsDAOLogicV1", "NounsDAOProxy", unounders, parties)
    BY DEF deploy
  <2>4. ASSUME Contract = "NounsDescriptorV2"
        PROVE  "art" \in DOMAIN Wired /\ Resolve(Wired["art"]) = base + 4
    <3>1. Wired = descriptorArguments["NounsDescriptorV2"]
      BY <2>1, <2>3, <2>4 DEF Wired, systemArguments, descriptorArguments
    <3>2. "art" \in DOMAIN Wired /\ Wired["art"] = Expected("NounsArt")
      BY <3>1 DEF descriptorArguments
    <3>. QED BY <2>1, <2>2, <3>2 DEF Resolve, Expected
  <2>5. ASSUME Contract = "NounsToken"
        PROVE  "minter" \in DOMAIN Wired /\ Resolve(Wired["minter"]) = base + 9
    <3>1. "minter" \in DOMAIN Wired /\ Wired["minter"] = Expected("NounsAuctionHouseProxy")
      BY <2>1, <2>3, <2>5 DEF Wired, systemArguments, Together
    <3>. QED BY <2>1, <2>2, <3>1 DEF Resolve, Expected
  <2>6. ASSUME Contract = "NounsDAOExecutor"
        PROVE  "admin" \in DOMAIN Wired /\ Resolve(Wired["admin"]) = base + 12
    <3>1. "admin" \in DOMAIN Wired /\ Wired["admin"] = Expected("governor")
      BY <2>1, <2>3, <2>6 DEF Wired, systemArguments
    <3>. QED BY <2>1, <2>2, <3>1 DEF Resolve, Expected
  <2>7. /\ Contract = "NounsAuctionHouseProxy" => nonce = base + 9
        /\ Contract = "NounsDAOProxy" => nonce = base + 12
    BY <2>1, <2>2 DEF Validated
  <2>. QED BY <1>1, <2>4, <2>5, <2>6, <2>7
<1>3. CASE run.task = "deploy-descriptor-v2"
  <2>1. List = deployDescriptorV2
    BY <1>3 DEF List
  <2>2. Contract \in {"NFTDescriptorV2", "SVGRenderer", "NounsDescriptorV2", "Inflator", "NounsArt"}
    BY <1>1, <1>3, CompleteLists
  <2>3. ASSUME Contract = "NounsDescriptorV2"
        PROVE  "art" \in DOMAIN Wired /\ Resolve(Wired["art"]) = base + 4
    <3>1. "art" \in DOMAIN Wired /\ Wired["art"] = Expected("NounsArt")
      BY <2>1, <2>3 DEF Wired, deployDescriptorV2, descriptorArguments
    <3>2. deployDescriptorV2.offsets["NounsArt"] = 4
      BY DEF deployDescriptorV2
    <3>. QED BY <2>1, <3>1, <3>2 DEF Resolve, Expected
  <2>. QED BY <1>1, <2>2, <2>3
<1>4. CASE run.task = "deploy-v2-logic"
  <2>1. Contract = "NounsDAOLogicV2"
    <3>1. Len(Names) = 1 /\ Names[1] = "NounsDAOLogicV2"
      BY <1>4, CompleteLists
    <3>. QED BY <1>1, <3>1
  <2>. QED BY <1>1, <2>1
<1>. QED BY <1>2, <1>3, <1>4 DEF Complete4

\* What a task works on does not change while it runs.
LEMMA SameLists ==
  ASSUME UNCHANGED run
  PROVE  Names' = Names /\ Steps' = Steps /\ TokenAt' = TokenAt
BY DEF Names, List, Steps, TokenAt, deployAndConfigure, deployAndConfigureShortTimes,
       deployAndConfigureShortTimesDaov1, runLocal, When

\* time passes, and the account sends something
LEMMA UpToLater ==
  ASSUME NEW k \in Nat, UpTo(k), UNCHANGED <<run, deployment, base>>,
         nonce \in Nat, nonce' \in Nat, nonce <= nonce'
  PROVE  UpTo(k)'
<1>1. Names' = Names
  BY SameLists
<1>2. deployment' = deployment /\ base' = base
  OBVIOUS
<1>3. ASSUME NEW i \in 1 .. k - 1
      PROVE  deployment[Names[i]].address + (k - i) <= nonce'
  <2>1. PICK address : address = deployment[Names[i]].address
    OBVIOUS
  <2>2. address \in Nat /\ address + (k - i) <= nonce
    BY <2>1 DEF UpTo
  <2>3. address + (k - i) \in Int
    BY <2>2
  <2>4. address + (k - i) <= nonce'
    BY <2>2, <2>3
  <2>. QED BY <2>1, <2>4
<1>. QED BY <1>1, <1>2, <1>3 DEF UpTo

\* another contract is deployed, where and as it was expected if that is looked at
LEMMA DeployedNext ==
  ASSUME run.task \in Complete4, nonce \in Nat, base \in Nat,
         NEW k \in 1 .. Len(Names), k = step, UpTo(k), OwnedUpTo(k),
         DOMAIN owner = ownable,
         base + (k - 1) <= nonce,
         DeployAs(Contract), Validated
  PROVE  UpTo(k + 1)' /\ OwnedUpTo(k + 1)'
<1>1. /\ Len(Names) \in Nat
      /\ \A i, j \in 1 .. Len(Names) : Names[i] = Names[j] => i = j
      /\ Names' = Names
  BY CompleteLists, SameLists DEF DeployAs
<1>2. /\ Contract = Names[k]
      /\ Contract = "NounsDescriptorV2" => "art" \in DOMAIN Wired /\ Resolve(Wired["art"]) = base + 4
      /\ Contract = "NounsToken" => "minter" \in DOMAIN Wired /\ Resolve(Wired["minter"]) = base + 9
      /\ Contract = "NounsDAOExecutor" => "admin" \in DOMAIN Wired /\ Resolve(Wired["admin"]) = base + 12
      /\ Contract = "NounsAuctionHouseProxy" => nonce = base + 9
      /\ Contract = "NounsDAOProxy" => nonce = base + 12
  BY Wiring
<1>. DEFINE args == [a \in DOMAIN Wired |-> Resolve(Wired[a])]
            new == [address |-> nonce, code |-> Contract, args |-> args]
<1>3. /\ deployment' = [c \in DOMAIN deployment \cup {Contract} |->
                          IF c = Contract THEN new ELSE deployment[c]]
      /\ base' = base /\ nonce' = nonce + 1
      /\ owner' = IF Contract \in ownable THEN [owner EXCEPT ![Contract] = "deployer"] ELSE owner
  BY DEF DeployAs
<1>4. /\ new.address = nonce /\ new.code = Contract
      /\ Contract = "NounsDescriptorV2" => new.args.art = base + 4
      /\ Contract = "NounsToken" => new.args.minter = base + 9
      /\ Contract = "NounsDAOExecutor" => new.args.admin = base + 12
  BY <1>2
<1>. HIDE DEF new, args
<1>5. /\ DOMAIN deployment = {Names[i] : i \in 1 .. k - 1}
      /\ 1 .. (k + 1) - 1 = (1 .. k - 1) \cup {k} /\ k \notin 1 .. k - 1
      /\ \A i \in 1 .. k - 1 : i \in 1 .. Len(Names) /\ i # k
  BY <1>1 DEF UpTo
<1>6. DOMAIN deployment' = {Names[i] : i \in 1 .. (k + 1) - 1}
  BY <1>2, <1>3, <1>5
<1>7. deployment'[Names[k]] = new
  BY <1>2, <1>3
<1>8. \A i \in 1 .. k - 1 : deployment'[Names[i]] = deployment[Names[i]]
  BY <1>1, <1>2, <1>3, <1>5
<1>9. ASSUME NEW i \in 1 .. (k + 1) - 1
      PROVE  /\ deployment'[Names[i]].address \in Nat
             /\ base + (i - 1) <= deployment'[Names[i]].address
             /\ deployment'[Names[i]].address + ((k + 1) - i) <= nonce'
             /\ deployment'[Names[i]].code = Names[i]
             /\ Names[i] = "NounsDescriptorV2" => deployment'[Names[i]].args.art = base + 4
             /\ Names[i] = "NounsToken" => deployment'[Names[i]].args.minter = base + 9
             /\ Names[i] = "NounsDAOExecutor" => deployment'[Names[i]].args.admin = base + 12
             /\ Names[i] = "NounsAuctionHouseProxy" => deployment'[Names[i]].address = base + 9
             /\ Names[i] = "NounsDAOProxy" => deployment'[Names[i]].address = base + 12
  <2>1. CASE i = k
    <3>2. deployment'[Names[i]] = new /\ Names[i] = Contract /\ nonce' = nonce + 1
      BY <1>2, <1>3, <1>7, <2>1
    <3>3. /\ nonce \in Nat /\ base + (i - 1) <= nonce
          /\ nonce + ((k + 1) - i) <= nonce + 1
      BY <2>1
    <3>4. /\ deployment'[Names[i]].address = nonce
          /\ deployment'[Names[i]].code = Names[i]
          /\ Names[i] = "NounsDescriptorV2" => deployment'[Names[i]].args.art = base + 4
          /\ Names[i] = "NounsToken" => deployment'[Names[i]].args.minter = base + 9
          /\ Names[i] = "NounsDAOExecutor" => deployment'[Names[i]].args.admin = base + 12
          /\ Names[i] = "NounsAuctionHouseProxy" => nonce = base + 9
          /\ Names[i] = "NounsDAOProxy" => nonce = base + 12
      BY <1>2, <1>4, <3>2
    <3>. QED BY <3>2, <3>3, <3>4
  <2>2. CASE i # k
    <3>1. i \in 1 .. k - 1
      BY <1>5, <2>2
    <3>2. deployment[Names[i]].address + (k - i) <= nonce /\ deployment[Names[i]].address \in Nat
      BY <3>1 DEF UpTo
    <3>3. deployment[Names[i]].address + ((k + 1) - i) <= nonce + 1
      <4>1. PICK a \in Nat : a = deployment[Names[i]].address
        BY <3>2
      <4>2. a + (k - i) <= nonce
        BY <3>2, <4>1
      <4>3. a + ((k + 1) - i) <= nonce + 1
        BY <3>1, <4>2
      <4>. QED BY <4>1, <4>3
    <3>4. deployment'[Names[i]] = deployment[Names[i]] /\ nonce' = nonce + 1
      BY <1>3, <1>8, <3>1
    <3>5. /\ base + (i - 1) <= deployment[Names[i]].address
          /\ deployment[Names[i]].code = Names[i]
          /\ Names[i] = "NounsDescriptorV2" => deployment[Names[i]].args.art = base + 4
          /\ Names[i] = "NounsToken" => deployment[Names[i]].args.minter = base + 9
          /\ Names[i] = "NounsDAOExecutor" => deployment[Names[i]].args.admin = base + 12
          /\ Names[i] = "NounsAuctionHouseProxy" => deployment[Names[i]].address = base + 9
          /\ Names[i] = "NounsDAOProxy" => deployment[Names[i]].address = base + 12
      BY <3>1 DEF UpTo
    <3>. QED BY <3>2, <3>3, <3>4, <3>5
  <2>. QED BY <2>1, <2>2
<1>10. ASSUME NEW i \in 1 .. (k + 1) - 1, NEW j \in 1 .. (k + 1) - 1, i < j
       PROVE  deployment'[Names[i]].address + (j - i) <= deployment'[Names[j]].address
  <2>1. i \in 1 .. k - 1
    BY <1>5, <1>10
  <2>2. CASE j = k
    BY <1>4, <1>7, <1>8, <2>1, <2>2 DEF UpTo
  <2>3. CASE j # k
    <3>1. j \in 1 .. k - 1
      BY <1>5, <2>3
    <3>. QED BY <1>8, <1>10, <2>1, <3>1 DEF UpTo
  <2>. QED BY <2>2, <2>3
<1>11. UpTo(k + 1)'
  <2>1. deployment' = deployment' /\ base' = base
    BY <1>3
  <2>. QED BY <1>1, <1>6, <1>9, <1>10, <2>1 DEF UpTo
<1>12. OwnedUpTo(k + 1)'
  <2>1. ASSUME NEW i \in 1 .. (k + 1) - 1, Names[i] \in ownable
        PROVE  owner'[Names[i]] = "deployer"
    <3>1. CASE i = k
      BY <1>2, <1>3, <2>1, <3>1
    <3>2. CASE i # k
      <4>1. i \in 1 .. k - 1 /\ owner[Names[i]] = "deployer"
        BY <1>5, <2>1, <3>2 DEF OwnedUpTo
      <4>2. Names[i] # Contract
        BY <1>1, <1>2, <1>5, <4>1
      <4>. QED BY <1>3, <2>1, <4>1, <4>2
    <3>. QED BY <3>1, <3>2
  <2>2. ownable' = ownable
    BY DEF ownable
  <2>. QED BY <1>1, <2>1, <2>2 DEF OwnedUpTo
<1>. QED BY <1>11, <1>12

------------------------------------------------------------
(* Step by step.                                                           *)

\* the steps that configure the system: the first six populate the descriptor
Populating == {populate[i] : i \in 1 .. Len(populate)}

\* Six transactions populate the descriptor.
LEMMA PopulateList ==
  /\ Len(populate) = 6
  /\ \A p \in Populating :
       p \in {"addManyBackgrounds", "setPalette", "addBodies", "addHeads", "addGlasses",
              "addAccessories"}
  /\ \A i \in 1 .. 6 : populate[i] \in Populating
BY DEF populate, Populating

\* The flags decide which steps there are after the ninth: the auction is
\* started by two, the configs are written by the last.
LEMMA SystemSteps ==
  ASSUME run.task = "deploy-and-configure"
  PROVE  /\ Len(Steps) \in 9 .. 12
         /\ run.startAuction /\ run.updateConfigs => Len(Steps) = 12
         /\ run.startAuction /\ ~ run.updateConfigs => Len(Steps) = 11
         /\ ~ run.startAuction /\ run.updateConfigs => Len(Steps) = 10
         /\ ~ run.startAuction /\ ~ run.updateConfigs => Len(Steps) = 9
         /\ \A i \in 1 .. 6 : Steps[i] \in Populating
         /\ Steps[7] = "NounsDescriptorV2" /\ Steps[8] = "NounsToken"
         /\ Steps[9] = "NounsAuctionHouseProxyAdmin"
         /\ run.startAuction => Steps[10] = "unpause" /\ Steps[11] = "NounsAuctionHouseProxy"
         /\ run.updateConfigs => Steps[Len(Steps)] = "update-configs"
<1>. DEFINE First9 == /\ \A i \in 1 .. 6 : Steps[i] = populate[i]
                      /\ Steps[7] = "NounsDescriptorV2" /\ Steps[8] = "NounsToken"
                      /\ Steps[9] = "NounsAuctionHouseProxyAdmin"
<1>0. Steps = ((populate \o transferAll)
               \o When(run.startAuction, <<"unpause", "NounsAuctionHouseProxy">>))
              \o When(run.updateConfigs, <<"update-configs">>)
  BY DEF Steps, deployAndConfigure
<1>9. First9 => /\ \A i \in 1 .. 6 : Steps[i] \in Populating
                /\ Steps[7] = "NounsDescriptorV2" /\ Steps[8] = "NounsToken"
                /\ Steps[9] = "NounsAuctionHouseProxyAdmin"
  BY PopulateList
<1>1. CASE run.startAuction /\ run.updateConfigs
  <2>1. Steps = ((populate \o transferAll) \o <<"unpause", "NounsAuctionHouseProxy">>) \o <<"update-configs">>
    BY <1>1, <1>0 DEF When
  <2>2. Len(Steps) = 12 /\ First9 /\ Steps[10] = "unpause" /\ Steps[11] = "NounsAuctionHouseProxy" /\ Steps[12] = "update-configs"
    BY <2>1 DEF populate, transferAll
  <2>. QED BY <1>1, <1>9, <2>2
<1>2. CASE run.startAuction /\ ~ run.updateConfigs
  <2>1. Steps = ((populate \o transferAll) \o <<"unpause", "NounsAuctionHouseProxy">>) \o <<>>
    BY <1>2, <1>0 DEF When
  <2>2. Len(Steps) = 11 /\ First9 /\ Steps[10] = "unpause" /\ Steps[11] = "NounsAuctionHouseProxy"
    BY <2>1 DEF populate, transferAll
  <2>. QED BY <1>2, <1>9, <2>2
<1>3. CASE ~ run.startAuction /\ run.updateConfigs
  <2>1. Steps = ((populate \o transferAll) \o <<>>) \o <<"update-configs">>
    BY <1>3, <1>0 DEF When
  <2>2. Len(Steps) = 10 /\ First9 /\ Steps[10] = "update-configs"
    BY <2>1 DEF populate, transferAll
  <2>. QED BY <1>3, <1>9, <2>2
<1>4. CASE ~ run.startAuction /\ ~ run.updateConfigs
  <2>1. Steps = ((populate \o transferAll) \o <<>>) \o <<>>
    BY <1>4, <1>0 DEF When
  <2>2. Len(Steps) = 9 /\ First9
    BY <2>1 DEF populate, transferAll
  <2>. QED BY <1>4, <1>9, <2>2
<1>. QED BY <1>1, <1>2, <1>3, <1>4

\* The new descriptor is populated and handed over.
LEMMA DescriptorSteps ==
  ASSUME run.task = "deploy-descriptor-v2"
  PROVE  /\ Len(Steps) = 7
         /\ \A i \in 1 .. 6 : Steps[i] \in Populating
         /\ Steps[7] = "NounsDescriptorV2"
<1>1. Steps = populate \o <<"NounsDescriptorV2">>
  BY DEF Steps
<1>2. Len(Steps) = 7 /\ Steps[7] = "NounsDescriptorV2" /\ \A i \in 1 .. 6 : Steps[i] = populate[i]
  BY <1>1 DEF populate
<1>. QED BY <1>2, PopulateList

\* There are finitely many.
LEMMA StepsCounted ==
  ASSUME run.task \in {"deploy-and-configure", "deploy-descriptor-v2"}
  PROVE  Len(Steps) \in Nat
<1>1. CASE run.task = "deploy-and-configure"
  <2>1. Len(Steps) \in 9 .. 12
    BY <1>1, SystemSteps
  <2>. QED BY <2>1
<1>2. CASE run.task = "deploy-descriptor-v2"
  <2>1. Len(Steps) = 7
    BY <1>2, DescriptorSteps
  <2>. QED BY <2>1
<1>. QED BY <1>1, <1>2

\* which step is which
LEMMA StepIs ==
  ASSUME run.task \in {"deploy-and-configure", "deploy-descriptor-v2"},
         step \in 1 .. Len(Steps)
  PROVE  /\ Steps[step] \in Populating <=> step \in 1 .. 6
         /\ Steps[step] = "NounsDescriptorV2" <=> step = 7
         /\ Steps[step] = "NounsToken" => step = 8 /\ run.task = "deploy-and-configure"
         /\ Steps[step] = "NounsAuctionHouseProxyAdmin" =>
              step = 9 /\ run.task = "deploy-and-configure"
         /\ Steps[step] = "unpause" =>
              step = 10 /\ run.task = "deploy-and-configure" /\ run.startAuction
         /\ Steps[step] = "NounsAuctionHouseProxy" =>
              step = 11 /\ run.task = "deploy-and-configure" /\ run.startAuction
         /\ Steps[step] \in {"update-configs", "update-configs-daov2"} =>
              /\ run.task = "deploy-and-configure" /\ run.updateConfigs
              /\ Steps[step] = "update-configs" /\ step = Len(Steps)
         /\ Steps[step] # "write-log"
<1>0. \A p \in Populating :
        p \in {"addManyBackgrounds", "setPalette", "addBodies", "addHeads", "addGlasses",
               "addAccessories"}
  BY PopulateList
<1>1. CASE run.task = "deploy-and-configure"
  <2>a. /\ Len(Steps) \in 9 .. 12
        /\ run.startAuction /\ run.updateConfigs => Len(Steps) = 12
        /\ run.startAuction /\ ~ run.updateConfigs => Len(Steps) = 11
        /\ ~ run.startAuction /\ run.updateConfigs => Len(Steps) = 10
        /\ ~ run.startAuction /\ ~ run.updateConfigs => Len(Steps) = 9
    BY <1>1, SystemSteps
  <2>1. PICK n \in Nat : n = Len(Steps)
    BY <2>a
  <2>2. PICK i \in 1 .. n : i = step
    BY <2>1
  <2>3. \/ i \in 1 .. 6 \/ i = 7 \/ i = 8 \/ i = 9
        \/ (i = 10 /\ run.startAuction) \/ (i = 11 /\ run.startAuction)
        \/ (i = n /\ run.updateConfigs)
    <3>1. CASE run.startAuction /\ run.updateConfigs
      <4>1. n = 12
        BY <2>a, <2>1, <3>1
      <4>. QED BY <2>2, <3>1, <4>1
    <3>2. CASE run.startAuction /\ ~ run.updateConfigs
      <4>1. n = 11
        BY <2>a, <2>1, <3>2
      <4>. QED BY <2>2, <3>2, <4>1
    <3>3. CASE ~ run.startAuction /\ run.updateConfigs
      <4>1. n = 10
        BY <2>a, <2>1, <3>3
      <4>. QED BY <2>2, <3>3, <4>1
    <3>4. CASE ~ run.startAuction /\ ~ run.updateConfigs
      <4>1. n = 9
        BY <2>a, <2>1, <3>4
      <4>. QED BY <2>2, <3>4, <4>1
    <3>. QED BY <3>1, <3>2, <3>3, <3>4
  <2>4. i = n /\ run.updateConfigs => i > 9 /\ (run.startAuction => i = 12)
    <3>1. CASE run.startAuction /\ run.updateConfigs
      <4>1. n = 12
        BY <2>a, <2>1, <3>1
      <4>. QED BY <2>2, <3>1, <4>1
    <3>2. CASE run.startAuction /\ ~ run.updateConfigs
      <4>1. n = 11
        BY <2>a, <2>1, <3>2
      <4>. QED BY <2>2, <3>2, <4>1
    <3>3. CASE ~ run.startAuction /\ run.updateConfigs
      <4>1. n = 10
        BY <2>a, <2>1, <3>3
      <4>. QED BY <2>2, <3>3, <4>1
    <3>4. CASE ~ run.startAuction /\ ~ run.updateConfigs
      <4>1. n = 9
        BY <2>a, <2>1, <3>4
      <4>. QED BY <2>2, <3>4, <4>1
    <3>. QED BY <3>1, <3>2, <3>3, <3>4
  <2>5. CASE i \in 1 .. 6
    <3>1. Steps[step] \in Populating
      BY <1>1, <2>2, <2>5, SystemSteps
    <3>2. Steps[step] \in {"addManyBackgrounds", "setPalette", "addBodies", "addHeads",
                           "addGlasses", "addAccessories"}
      BY <1>0, <3>1
    <3>3. step \in 1 .. 6 /\ step # 7
      BY <2>2, <2>5
    <3>. QED BY <3>1, <3>2, <3>3
  <2>6. CASE i = n /\ run.updateConfigs
    <3>1. Steps[step] = "update-configs"
      BY <1>1, <2>1, <2>2, <2>6, SystemSteps
    <3>2. step \notin 1 .. 6 /\ step # 7 /\ step = Len(Steps)
      BY <2>1, <2>2, <2>4, <2>6
    <3>. QED BY <1>0, <1>1, <2>6, <3>1, <3>2
  <2>7. CASE i = 7
    BY <1>0, <1>1, <2>2, <2>7, SystemSteps
  <2>8. CASE i = 8
    BY <1>0, <1>1, <2>2, <2>8, SystemSteps
  <2>9. CASE i = 9
    BY <1>0, <1>1, <2>2, <2>9, SystemSteps
  <2>10. CASE i = 10 /\ run.startAuction
    BY <1>0, <1>1, <2>2, <2>10, SystemSteps
  <2>11. CASE i = 11 /\ run.startAuction
    BY <1>0, <1>1, <2>2, <2>11, SystemSteps
  <2>. QED BY <2>3, <2>5, <2>6, <2>7, <2>8, <2>9, <2>10, <2>11
<1>2. CASE run.task = "deploy-descriptor-v2"
  <2>1. step \in 1 .. 6 \/ step = 7
    <3>1. Len(Steps) = 7
      BY <1>2, DescriptorSteps
    <3>. QED BY <3>1
  <2>2. CASE step \in 1 .. 6
    <3>1. Steps[step] \in Populating
      BY <1>2, <2>2, DescriptorSteps
    <3>2. Steps[step] \in {"addManyBackgrounds", "setPalette", "addBodies", "addHeads",
                           "addGlasses", "addAccessories"}
      BY <1>0, <3>1
    <3>3. step # 7
      BY <2>2
    <3>. QED BY <2>2, <3>1, <3>2, <3>3
  <2>3. CASE step = 7
    BY <1>0, <1>2, <2>3, DescriptorSteps
  <2>. QED BY <2>1, <2>2, <2>3
<1>. QED BY <1>1, <1>2

\* the contracts of the system find each other where they expect each other
SystemWired ==
  /\ {"NounsDescriptorV2", "NounsArt", "NounsToken", "NounsAuctionHouseProxy",
      "NounsDAOExecutor", "NounsDAOProxy"} \subseteq DOMAIN deployment
  /\ "NFTDescriptor" \notin DOMAIN deployment
  /\ FoundAt("NounsArt", deployment["NounsDescriptorV2"].args.art)
  /\ FoundAt("NounsAuctionHouseProxy", deployment["NounsToken"].args.minter)
  /\ Governor = "NounsDAOProxy"
  /\ FoundAt("NounsDAOProxy", deployment["NounsDAOExecutor"].args.admin)

\* A list of contracts that was worked through to its end: the addresses never
\* get closer to each other than in the list, so the two that were compared with
\* the expected ones, at the places 10 and 13, leave the art no other than its own.
LEMMA SystemIsWired ==
  ASSUME run.task \in {"deploy-and-configure", "deploy-ci"}, UpTo(Len(Names) + 1), base \in Nat
  PROVE  SystemWired
<1>1. /\ Len(Names) = 13
      /\ Names[3] = "NounsDescriptorV2" /\ Names[5] = "NounsArt"
      /\ Names[7] = "NounsToken" /\ Names[10] = "NounsAuctionHouseProxy"
      /\ Names[11] = "NounsDAOExecutor" /\ Names[13] = "NounsDAOProxy"
      /\ \A i \in 1 .. 13 : Names[i] # "NFTDescriptor"
  BY CompleteLists DEF Complete4
<1>2. DOMAIN deployment = {Names[i] : i \in 1 .. 13}
  BY <1>1 DEF UpTo
<1>3. /\ {"NounsDescriptorV2", "NounsArt", "NounsToken", "NounsAuctionHouseProxy",
          "NounsDAOExecutor", "NounsDAOProxy"} \subseteq DOMAIN deployment
      /\ "NFTDescriptor" \notin DOMAIN deployment
  BY <1>1, <1>2
<1>4. /\ deployment["NounsDescriptorV2"].args.art = base + 4
      /\ deployment["NounsToken"].args.minter = base + 9
      /\ deployment["NounsDAOExecutor"].args.admin = base + 12
      /\ deployment["NounsAuctionHouseProxy"].address = base + 9
      /\ deployment["NounsDAOProxy"].address = base + 12
  <2>1. 3 \in 1 .. (13 + 1) - 1 /\ 7 \in 1 .. (13 + 1) - 1 /\ 10 \in 1 .. (13 + 1) - 1
        /\ 11 \in 1 .. (13 + 1) - 1 /\ 13 \in 1 .. (13 + 1) - 1
    OBVIOUS
  <2>. QED BY <1>1, <2>1 DEF UpTo
<1>5. deployment["NounsArt"].address = base + 4
  <2>1. PICK a \in Nat : a = deployment["NounsArt"].address
    <3>1. 5 \in 1 .. (13 + 1) - 1
      OBVIOUS
    <3>. QED BY <1>1, <3>1 DEF UpTo
  <2>2. base + (5 - 1) <= a /\ a + (10 - 5) <= base + 9
    <3>1. 5 \in 1 .. (13 + 1) - 1 /\ 10 \in 1 .. (13 + 1) - 1 /\ 5 < 10
      OBVIOUS
    <3>. QED BY <1>1, <1>4, <2>1, <3>1 DEF UpTo
  <2>. QED BY <2>1, <2>2
<1>. QED BY <1>3, <1>4, <1>5 DEF SystemWired, FoundAt, Address, Governor

------------------------------------------------------------
(* The inductive invariant.                                                *)

\* nothing belongs to the executor
NobodyHandedOver == \A c \in ownable : owner[c] # "executor"

\* what the variables hold; an address is predicted from what has been sent
DeploymentTyped ==
  /\ run.task \in Complete4 \cup Rejecting
  /\ at \in {"params", "predict", "deploy", "send", "configure", "done", "stopped"}
  /\ step \in Nat \ {0}
  /\ nonce \in Nat /\ base \in Nat /\ foreign \in Nat
  /\ foreign <= nonce /\ base <= nonce
  /\ DOMAIN owner = ownable

\* until everything is deployed nothing is configured
NothingConfigured ==
  /\ at \in {"params", "predict", "deploy", "send"} =>
       populated = 0 /\ paused = TRUE /\ NobodyHandedOver
  /\ at \in {"params", "predict"} => step = 1 /\ DOMAIN deployment = {}

\* a task works down its list, those that pass the token too little no further
\* than to the token
InList ==
  /\ at \in {"deploy", "send"} =>
       /\ step \in 1 .. Len(Names)
       /\ run.task \in Rejecting => step <= TokenAt
       /\ run.task \in Complete4 =>
            base + (step - 1) <= nonce /\ UpTo(step) /\ OwnedUpTo(step)
  /\ at = "send" /\ run.task \in Rejecting => step < TokenAt

\* the configs name what was deployed
ConfigsRight ==
  /\ FoundAt("NounsToken", configs.nounsToken)
  /\ FoundAt("NounsAuctionHouseProxy", configs.auctionHouse)
  /\ FoundAt(Governor, configs.nounsDAO)

\* how far the descriptor is, by the step
DescriptorConfigured ==
  /\ step \in 1 .. Len(Steps) + 1
  /\ at = "done" => step = Len(Steps) + 1
  /\ populated = IF step > 6 THEN 6 ELSE step - 1
  /\ step > 1 => FoundAt("NounsArt", deployment["NounsDescriptorV2"].args.art)
  /\ owner["NounsDescriptorV2"] = IF step > 7 THEN "executor" ELSE "deployer"

\* and the rest of the system
SystemConfigured ==
  /\ owner["NounsToken"] = IF step > 8 THEN "executor" ELSE "deployer"
  /\ owner["NounsAuctionHouseProxyAdmin"] = IF step > 9 THEN "executor" ELSE "deployer"
  /\ (run.startAuction /\ step > 11) => owner["NounsAuctionHouseProxy"] = "executor"
  /\ ~ (run.startAuction /\ step > 11) => owner["NounsAuctionHouseProxy"] = "deployer"
  /\ (run.startAuction /\ step > 10) => paused = FALSE
  /\ ~ (run.startAuction /\ step > 10) => paused = TRUE
  /\ (run.updateConfigs /\ step > Len(Steps)) => ConfigsRight

\* only a task that no constructor stops configures, after the whole of its list,
\* and deploy-ci has but one step
Configured ==
  /\ run.task \in Complete4
  /\ UpTo(Len(Names) + 1)
  /\ run.task = "deploy-ci" => at = "configure" /\ step = 1
  /\ run.task \in {"deploy-ci", "deploy-v2-logic"} => NobodyHandedOver
  /\ run.task \in {"deploy-and-configure", "deploy-descriptor-v2"} => DescriptorConfigured
  /\ run.task = "deploy-descriptor-v2" =>
       \A c \in ownable : c # "NounsDescriptorV2" => owner[c] # "executor"
  /\ run.task = "deploy-and-configure" => SystemConfigured

\* all of it
DeploymentInv ==
  /\ DeploymentTyped
  /\ NothingConfigured
  /\ InList
  /\ at \in {"configure", "done"} => Configured
  /\ HandedOverWired

\* Whatever is configured by the list is wired when it is handed over.
LEMMA ConfiguredIsWired ==
  ASSUME DeploymentTyped, Configured
  PROVE  HandedOverWired
<1>0. base \in Nat
  BY DEF DeploymentTyped
<1>1. CASE run.task \in {"deploy-ci", "deploy-v2-logic"}
  BY <1>1 DEF Configured, NobodyHandedOver, HandedOverWired
<1>2. CASE run.task = "deploy-and-configure"
  <2>1. SystemWired
    BY <1>0, <1>2, SystemIsWired DEF Configured
  <2>2. ASSUME NEW c \in ownable, owner[c] = "executor" PROVE populated = Len(populate)
    <3>1. DescriptorConfigured /\ SystemConfigured
      BY <1>2 DEF Configured
    <3>2. step \in Nat
      BY DEF DeploymentTyped
    <3>3. step > 6
      BY <2>2, <3>1, <3>2 DEF ownable, DescriptorConfigured, SystemConfigured
    <3>. QED BY <3>1, <3>3, PopulateList DEF DescriptorConfigured
  <2>. QED BY <2>1, <2>2 DEF HandedOverWired, SystemWired
<1>3. CASE run.task = "deploy-descriptor-v2"
  <2>1. "NounsToken" \notin DOMAIN deployment
    <3>1. /\ Len(Names) = 5
          /\ \A i \in 1 .. 5 : Names[i] \in {"NFTDescriptorV2", "SVGRenderer", "NounsDescriptorV2",
                                             "Inflator", "NounsArt"}
      BY <1>3, CompleteLists DEF Complete4
    <3>2. DOMAIN deployment = {Names[i] : i \in 1 .. 5}
      BY <3>1 DEF Configured, UpTo
    <3>. QED BY <3>1, <3>2
  <2>2. ASSUME NEW c \in ownable, owner[c] = "executor"
        PROVE  /\ populated = Len(populate)
               /\ FoundAt("NounsArt", deployment["NounsDescriptorV2"].args.art)
    <3>1. DescriptorConfigured /\ c = "NounsDescriptorV2"
      BY <1>3, <2>2 DEF Configured
    <3>2. step \in Nat /\ step > 7
      BY <2>2, <3>1 DEF DeploymentTyped, DescriptorConfigured
    <3>. QED BY <3>1, <3>2, PopulateList DEF DescriptorConfigured
  <2>. QED BY <2>1, <2>2 DEF HandedOverWired
<1>. QED BY <1>1, <1>2, <1>3 DEF Configured, Complete4

\* What is left when the last step is done.
LEMMA DoneIsRunning ==
  ASSUME DeploymentInv
  PROVE  CompletedIsRunning
<1>. SUFFICES ASSUME at = "done", "NounsToken" \in DOMAIN deployment
              PROVE  CompletedIsRunning
  BY DEF CompletedIsRunning
<1>0. base \in Nat /\ Configured
  BY DEF DeploymentInv, DeploymentTyped
<1>1. run.task = "deploy-and-configure"
  <2>1. run.task # "deploy-ci"
    BY <1>0 DEF Configured
  <2>2. ASSUME run.task = "deploy-v2-logic" PROVE FALSE
    <3>1. Len(Names) = 1 /\ Names[1] = "NounsDAOLogicV2"
      BY <2>2, CompleteLists DEF Complete4
    <3>2. DOMAIN deployment = {Names[i] : i \in 1 .. 1}
      BY <1>0, <3>1 DEF Configured, UpTo
    <3>. QED BY <3>1, <3>2
  <2>3. ASSUME run.task = "deploy-descriptor-v2" PROVE FALSE
    <3>1. /\ Len(Names) = 5
          /\ \A i \in 1 .. 5 : Names[i] \in {"NFTDescriptorV2", "SVGRenderer", "NounsDescriptorV2",
                                             "Inflator", "NounsArt"}
      BY <2>3, CompleteLists DEF Complete4
    <3>2. DOMAIN deployment = {Names[i] : i \in 1 .. 5}
      BY <1>0, <3>1 DEF Configured, UpTo
    <3>. QED BY <3>1, <3>2
  <2>. QED BY <1>0, <2>1, <2>2, <2>3 DEF Configured, Complete4
<1>2. \A c \in DOMAIN deployment : deployment[c].code = c
  BY <1>0 DEF Configured, UpTo
<1>3. DescriptorConfigured /\ SystemConfigured
  BY <1>0, <1>1 DEF Configured
<1>4. PICK n \in Nat : n = Len(Steps)
  BY <1>1, SystemSteps
<1>5. step = n + 1 /\ n >= 9 /\ (run.startAuction => n >= 11)
  <2>1. n >= 9 /\ step = n + 1
    BY <1>1, <1>3, <1>4, SystemSteps DEF DescriptorConfigured
  <2>2. CASE run.updateConfigs
    BY <1>1, <1>4, <2>1, <2>2, SystemSteps
  <2>3. CASE ~ run.updateConfigs
    BY <1>1, <1>4, <2>1, <2>3, SystemSteps
  <2>. QED BY <2>2, <2>3
<1>6. /\ owner["NounsDescriptorV2"] = "executor" /\ owner["NounsToken"] = "executor"
      /\ owner["NounsAuctionHouseProxyAdmin"] = "executor"
  BY <1>3, <1>5 DEF DescriptorConfigured, SystemConfigured
<1>7. \A c \in ownable \ {"NounsAuctionHouseProxy"} : owner[c] = "executor"
  BY <1>6 DEF ownable
<1>8. run.updateConfigs => ConfigsRight
  BY <1>3, <1>4, <1>5 DEF SystemConfigured
<1>9. CASE run.startAuction
  <2>1. paused = FALSE /\ owner["NounsAuctionHouseProxy"] = "executor"
    BY <1>3, <1>5, <1>9 DEF SystemConfigured
  <2>. QED BY <1>2, <1>7, <1>8, <2>1 DEF CompletedIsRunning, ConfigsRight
<1>10. CASE ~ run.startAuction
  <2>1. paused = TRUE /\ owner["NounsAuctionHouseProxy"] = "deployer"
    BY <1>3, <1>10 DEF SystemConfigured
  <2>. QED BY <1>2, <1>7, <1>8, <1>10, <2>1 DEF CompletedIsRunning, ConfigsRight
<1>. QED BY <1>9, <1>10

------------------------------------------------------------
(* What keeps it.                                                          *)

\* A task begins.
LEMMA DeploymentInitInv == DeploymentInit => DeploymentInv
<1>. SUFFICES ASSUME DeploymentInit PROVE DeploymentInv
  OBVIOUS
<1>1. run.task \in Tasks
  BY DEF DeploymentInit
<1>2. DeploymentTyped
  <2>1. run.task \in Complete4 \cup Rejecting
    BY <1>1, TasksAssumption DEF Complete4, Rejecting
  <2>2. DOMAIN owner = ownable
    BY DEF DeploymentInit
  <2>. QED BY <2>1, <2>2 DEF DeploymentInit, DeploymentTyped
<1>3. NothingConfigured
  BY DEF DeploymentInit, NothingConfigured, NobodyHandedOver
<1>4. HandedOverWired
  BY DEF DeploymentInit, HandedOverWired
<1>. QED BY <1>2, <1>3, <1>4 DEF DeploymentInit, DeploymentInv, InList

\* what was handed over stays what it was
LEMMA HandedOverSame ==
  ASSUME HandedOverWired, UNCHANGED <<deployment, owner, populated>>
  PROVE  HandedOverWired'
BY DEF HandedOverWired, FoundAt, Address, Governor, ownable, populate

\* As long as nothing is handed over nothing can be wrong with it.
LEMMA NobodyIsWired == NobodyHandedOver => HandedOverWired
BY DEF NobodyHandedOver, HandedOverWired

\* a task that stops leaves things as they are
LEMMA StopKeeps ==
  ASSUME DeploymentTyped', at' = "stopped", HandedOverWired'
  PROVE  DeploymentInv'
BY DEF DeploymentInv, NothingConfigured, InList

\* an action that only moves on within the deployment
LEMMA Unmoved ==
  ASSUME DeploymentInv, UNCHANGED <<run, step, nonce, base, deployment, chainState, foreign>>,
         at' \in {"params", "predict", "deploy", "send", "configure", "done", "stopped"}
  PROVE  DeploymentTyped' /\ HandedOverWired'
<1>1. UNCHANGED <<deployment, owner, populated>>
  BY DEF chainState
<1>2. HandedOverWired'
  BY <1>1, HandedOverSame DEF DeploymentInv
<1>3. DeploymentTyped'
  BY <1>1 DEF DeploymentInv, DeploymentTyped, ownable
<1>. QED BY <1>2, <1>3

\* The task finds its addresses, or throws.
LEMMA ParamsKeep == ASSUME DeploymentInv, ResolveParams PROVE DeploymentInv'
<1>1. /\ at = "params" /\ at' \in {"predict", "stopped"}
      /\ UNCHANGED <<run, step, nonce, base, deployment, chainState, foreign>>
  BY DEF ResolveParams, Stops
<1>2. DeploymentTyped' /\ HandedOverWired'
  BY <1>1, Unmoved
<1>3. CASE at' = "stopped"
  BY <1>2, <1>3, StopKeeps
<1>4. CASE at' = "predict"
  <2>1. NothingConfigured'
    BY <1>1, <1>4 DEF DeploymentInv, NothingConfigured, NobodyHandedOver, chainState, ownable
  <2>. QED BY <1>2, <1>4, <2>1 DEF DeploymentInv, InList
<1>. QED BY <1>1, <1>3, <1>4

\* It predicts the addresses, at the earliest from where the account is.
LEMMA PredictKeeps == ASSUME DeploymentInv, Predict PROVE DeploymentInv'
<1>1. /\ at = "predict" /\ at' = "deploy"
      /\ UNCHANGED <<run, step, nonce, deployment, configs, chainState, foreign>>
      /\ \E pending \in 0 .. foreign : base' = nonce - pending
  BY DEF Predict
<1>2. step = 1 /\ DOMAIN deployment = {}
  BY <1>1 DEF DeploymentInv, NothingConfigured
<1>3. base' \in Nat /\ base' <= nonce
  BY <1>1 DEF DeploymentInv, DeploymentTyped
<1>4. DeploymentTyped'
  BY <1>1, <1>3 DEF DeploymentInv, DeploymentTyped, chainState, ownable
<1>5. HandedOverWired'
  BY <1>1, HandedOverSame DEF DeploymentInv, chainState
<1>6. NothingConfigured'
  BY <1>1 DEF DeploymentInv, NothingConfigured, NobodyHandedOver, chainState, ownable
<1>7. Names' = Names /\ TokenAt' = TokenAt
  BY <1>1, SameLists
<1>8. UpTo(step)' /\ OwnedUpTo(step)'
  <2>1. 1 .. step' - 1 = {}
    BY <1>1, <1>2
  <2>2. DOMAIN deployment' = {}
    BY <1>1, <1>2
  <2>. QED BY <2>1, <2>2 DEF UpTo, OwnedUpTo
<1>9. InList'
  <2>1. run.task \in Rejecting => 1 <= TokenAt /\ 1 <= Len(Names)
    BY RejectingLists
  <2>2. run.task \in Complete4 => 1 <= Len(Names) /\ Len(Names) \in Nat
    BY CompleteLists
  <2>3. 1 \in 1 .. Len(Names)
    BY <2>1, <2>2, RejectingLists DEF DeploymentInv, DeploymentTyped
  <2>. QED BY <1>1, <1>2, <1>3, <1>7, <1>8, <2>1, <2>3 DEF InList
<1>. QED BY <1>1, <1>4, <1>5, <1>6, <1>9 DEF DeploymentInv

\* a contract that is going to be sent is accepted by its constructor
LEMMA SendKeeps ==
  ASSUME DeploymentInv, at = "deploy", Accepted \/ run.task = "deploy-v2-logic",
         at' = "send", UNCHANGED <<run, step, nonce, base, deployment, chainState, foreign>>
  PROVE  DeploymentInv'
<1>1. DeploymentTyped' /\ HandedOverWired'
  BY Unmoved
<1>2. NothingConfigured'
  BY DEF DeploymentInv, NothingConfigured, NobodyHandedOver, chainState, ownable
<1>3. Names' = Names /\ TokenAt' = TokenAt
  BY SameLists
<1>4. run.task \in Rejecting => step < TokenAt
  <2>1. SUFFICES ASSUME run.task \in Rejecting PROVE step < TokenAt
    OBVIOUS
  <2>2. step # TokenAt
    BY <2>1, TokenRejected DEF Rejecting
  <2>. QED BY <2>1, <2>2, RejectingLists DEF DeploymentInv, InList, DeploymentTyped
<1>5. PICK k : k = step
  OBVIOUS
<1>6. run.task \in Complete4 => UpTo(k)' /\ OwnedUpTo(k)'
  <2>1. SUFFICES ASSUME run.task \in Complete4 PROVE UpTo(k)' /\ OwnedUpTo(k)'
    OBVIOUS
  <2>2. UpTo(k) /\ OwnedUpTo(k)
    BY <1>5, <2>1 DEF DeploymentInv, InList
  <2>3. nonce \in Nat /\ k \in Nat
    BY <1>5 DEF DeploymentInv, DeploymentTyped
  <2>4. UpTo(k)'
    BY <2>2, <2>3, UpToLater
  <2>5. OwnedUpTo(k)'
    BY <1>3, <2>2 DEF OwnedUpTo, chainState, ownable
  <2>. QED BY <2>4, <2>5
<1>7. InList'
  <2>1. step' = k
    BY <1>5
  <2>. QED BY <1>3, <1>4, <1>5, <1>6, <2>1 DEF DeploymentInv, InList
<1>. QED BY <1>1, <1>2, <1>7 DEF DeploymentInv

\* It asks, whatever the answer.
LEMMA ConfirmKeeps ==
  ASSUME DeploymentInv, Confirm \/ NoPrompt \/ \E answer \in {"DEPLOY", "SKIP", "EXIT"} : ConfirmLogic(answer)
  PROVE  DeploymentInv'
<1>1. /\ at = "deploy" /\ at' \in {"send", "stopped"}
      /\ at' = "send" => Accepted \/ run.task = "deploy-v2-logic"
      /\ UNCHANGED <<run, step, nonce, base, deployment, chainState, foreign>>
  BY DEF Confirm, NoPrompt, ConfirmLogic
<1>2. CASE at' = "send"
  BY <1>1, <1>2, SendKeeps
<1>3. CASE at' = "stopped"
  BY <1>1, <1>3, Unmoved, StopKeeps
<1>. QED BY <1>1, <1>2, <1>3

\* It throws.
LEMMA StoppingKeeps == ASSUME DeploymentInv, Rejected \/ Interrupted PROVE DeploymentInv'
<1>1. at' = "stopped" /\ UNCHANGED <<run, step, nonce, base, deployment, chainState, foreign>>
  BY DEF Rejected, Interrupted, Stops
<1>. QED BY <1>1, Unmoved, StopKeeps

\* a contract is deployed, and the task goes on if it is where it was expected
LEMMA DeployKeeps ==
  ASSUME DeploymentInv, NEW code, DeployAs(code),
         run.task \in Complete4 => code = Contract
  PROVE  DeploymentInv'
<1>1. /\ at = "send" /\ nonce' = nonce + 1
      /\ owner' = IF Contract \in ownable THEN [owner EXCEPT ![Contract] = "deployer"] ELSE owner
      /\ IF ~ Validated THEN at' = "stopped" /\ UNCHANGED step
         ELSE IF step < Len(Names) THEN at' = "deploy" /\ step' = step + 1
         ELSE at' = "configure" /\ step' = 1
      /\ UNCHANGED <<run, base, populated, paused, foreign>>
  BY DEF DeployAs, Names
<1>2. /\ populated = 0 /\ paused = TRUE /\ NobodyHandedOver
      /\ step \in 1 .. Len(Names)
      /\ step \in Nat /\ nonce \in Nat /\ base \in Nat /\ foreign \in Nat
      /\ foreign <= nonce /\ base <= nonce
      /\ DOMAIN owner = ownable
      /\ run.task \in Complete4 \cup Rejecting
  BY <1>1 DEF DeploymentInv, DeploymentTyped, NothingConfigured, InList
<1>3. \A c \in ownable : owner'[c] \in {owner[c], "deployer"}
  BY <1>1, <1>2
<1>4. NobodyHandedOver' /\ HandedOverWired'
  <2>1. ownable' = ownable
    BY DEF ownable
  <2>2. NobodyHandedOver'
    BY <1>2, <1>3, <2>1 DEF NobodyHandedOver
  <2>. QED BY <2>2, NobodyIsWired, PTL
<1>5. DeploymentTyped'
  <2>1. step' \in Nat \ {0} /\ at' \in {"stopped", "deploy", "configure"}
    BY <1>1, <1>2
  <2>2. DOMAIN owner' = ownable /\ ownable' = ownable
    BY <1>1, <1>2 DEF ownable
  <2>. QED BY <1>1, <1>2, <2>1, <2>2 DEF DeploymentTyped
<1>6. Names' = Names /\ TokenAt' = TokenAt /\ Steps' = Steps
  BY <1>1, SameLists
<1>7. CASE ~ Validated
  BY <1>1, <1>4, <1>5, <1>7, StopKeeps
<1>8. CASE Validated /\ run.task \in Complete4
  <2>1. PICK k \in 1 .. Len(Names) : k = step
    BY <1>2
  <2>2. UpTo(k) /\ OwnedUpTo(k) /\ base + (k - 1) <= nonce /\ Len(Names) \in Nat
    BY <1>1, <1>8, <2>1, CompleteLists DEF DeploymentInv, InList
  <2>3. DeployAs(Contract)
    BY <1>8
  <2>4. UpTo(k + 1)' /\ OwnedUpTo(k + 1)'
    BY <1>2, <1>8, <2>1, <2>2, <2>3, DeployedNext
  <2>5. CASE k < Len(Names)
    <3>1. at' = "deploy" /\ step' = k + 1
      BY <1>1, <1>8, <2>1, <2>5
    <3>2. /\ step' \in 1 .. Len(Names') /\ base' + (step' - 1) <= nonce'
          /\ run'.task \in Complete4
      BY <1>1, <1>2, <1>6, <1>8, <2>1, <2>2, <2>5, <3>1
    <3>3. UpTo(step)' /\ OwnedUpTo(step)'
      BY <2>4, <3>1 DEF UpTo, OwnedUpTo
    <3>4. InList'
      BY <3>1, <3>2, <3>3 DEF InList, Complete4, Rejecting
    <3>5. NothingConfigured'
      BY <1>1, <1>2, <1>4, <3>1 DEF NothingConfigured
    <3>. QED BY <1>4, <1>5, <3>1, <3>4, <3>5 DEF DeploymentInv
  <2>6. CASE ~ (k < Len(Names))
    <3>1. at' = "configure" /\ step' = 1 /\ k = Len(Names)
      BY <1>1, <1>8, <2>1, <2>2, <2>6
    <3>2. UpTo(Len(Names) + 1)'
      BY <1>6, <2>4, <3>1 DEF UpTo
    <3>3. \A i \in 1 .. Len(Names) : Names[i] \in ownable => owner'[Names[i]] = "deployer"
      BY <1>6, <2>1, <2>4, <3>1 DEF OwnedUpTo, ownable
    <3>4. run.task \in {"deploy-and-configure", "deploy-descriptor-v2"} => DescriptorConfigured'
      <4>1. SUFFICES ASSUME run.task \in {"deploy-and-configure", "deploy-descriptor-v2"}
                     PROVE  DescriptorConfigured'
        OBVIOUS
      <4>2. Len(Names) >= 5 /\ Names[3] = "NounsDescriptorV2"
        <5>1. CASE run.task = "deploy-and-configure"
          <6>1. Len(Names) = 13 /\ Names[3] = "NounsDescriptorV2"
            BY <5>1, CompleteLists DEF Complete4
          <6>. QED BY <6>1
        <5>2. CASE run.task = "deploy-descriptor-v2"
          <6>1. Len(Names) = 5 /\ Names[3] = "NounsDescriptorV2"
            BY <5>2, CompleteLists DEF Complete4
          <6>. QED BY <6>1
        <5>. QED BY <4>1, <5>1, <5>2
      <4>3. owner'["NounsDescriptorV2"] = "deployer"
        BY <2>2, <3>3, <4>2 DEF ownable
      <4>4. Len(Steps) \in Nat
        BY <4>1, SystemSteps, DescriptorSteps
      <4>. QED BY <1>1, <1>2, <1>6, <3>1, <4>3, <4>4 DEF DescriptorConfigured
    <3>5. run.task = "deploy-and-configure" => SystemConfigured'
      <4>1. SUFFICES ASSUME run.task = "deploy-and-configure" PROVE SystemConfigured'
        OBVIOUS
      <4>2. /\ Len(Names) = 13 /\ Names[7] = "NounsToken"
            /\ Names[9] = "NounsAuctionHouseProxyAdmin" /\ Names[10] = "NounsAuctionHouseProxy"
        BY <4>1, CompleteLists DEF Complete4
      <4>3. /\ owner'["NounsToken"] = "deployer" /\ owner'["NounsAuctionHouseProxyAdmin"] = "deployer"
            /\ owner'["NounsAuctionHouseProxy"] = "deployer"
        BY <3>3, <4>2 DEF ownable
      <4>4. ~ (1 > Len(Steps))
        BY <4>1, SystemSteps
      <4>. QED BY <1>1, <1>2, <1>6, <3>1, <4>3, <4>4 DEF SystemConfigured
    <3>6. ownable' = ownable
      BY DEF ownable
    <3>7. Configured'
      BY <1>1, <1>4, <1>8, <3>1, <3>2, <3>4, <3>5, <3>6 DEF Configured, NobodyHandedOver
    <3>8. InList' /\ NothingConfigured'
      BY <3>1 DEF InList, NothingConfigured
    <3>. QED BY <1>4, <1>5, <3>7, <3>8 DEF DeploymentInv
  <2>. QED BY <2>5, <2>6
<1>9. CASE Validated /\ run.task \in Rejecting
  <2>1. step < TokenAt /\ TokenAt < Len(Names) /\ TokenAt \in Nat /\ Len(Names) \in Nat
    BY <1>1, <1>9, RejectingLists DEF DeploymentInv, InList
  <2>2. at' = "deploy" /\ step' = step + 1
    BY <1>1, <1>2, <1>9, <2>1
  <2>3. step' \in 1 .. Len(Names) /\ step' <= TokenAt
    BY <1>2, <2>1, <2>2
  <2>4. InList'
    BY <1>1, <1>6, <1>9, <2>2, <2>3 DEF InList, Complete4, Rejecting
  <2>5. NothingConfigured'
    BY <1>1, <1>2, <1>4, <2>2 DEF NothingConfigured
  <2>. QED BY <1>4, <1>5, <2>2, <2>4, <2>5 DEF DeploymentInv
<1>. QED BY <1>2, <1>7, <1>8, <1>9

\* a step of the configuration that leaves the contracts themselves alone
LEMMA ConfiguringTyped ==
  ASSUME DeploymentInv, at = "configure",
         at' \in {"configure", "done", "stopped"}, step' \in {step, step + 1},
         nonce' \in {nonce, nonce + 1}, DOMAIN owner' = DOMAIN owner,
         UNCHANGED <<run, base, deployment, foreign>>
  PROVE  /\ DeploymentTyped' /\ NothingConfigured' /\ InList'
         /\ Configured /\ UpTo(Len(Names) + 1)' /\ Names' = Names /\ Steps' = Steps
         /\ step \in Nat \ {0} /\ base \in Nat
<1>1. /\ Configured /\ step \in Nat \ {0} /\ nonce \in Nat /\ base \in Nat
      /\ DeploymentTyped
  BY DEF DeploymentInv, DeploymentTyped
<1>2. DeploymentTyped'
  BY <1>1 DEF DeploymentTyped, ownable
<1>3. Names' = Names /\ Steps' = Steps
  BY SameLists
<1>4. UpTo(Len(Names) + 1)'
  <2>1. PICK k \in Nat : k = Len(Names) + 1
    BY <1>1, CompleteLists DEF Configured
  <2>2. UpTo(k)
    BY <1>1, <2>1 DEF Configured
  <2>3. nonce <= nonce' /\ nonce' \in Nat
    BY <1>1
  <2>4. UpTo(k)'
    BY <1>1, <2>2, <2>3, UpToLater
  <2>. QED BY <1>3, <2>1, <2>4 DEF UpTo
<1>. QED BY <1>1, <1>2, <1>3, <1>4 DEF NothingConfigured, InList

\* the steps only configure a system or a descriptor
LEMMA DoesIs ==
  ASSUME DeploymentInv, NEW s, Doing(s), s # "write-log"
  PROVE  /\ run.task \in {"deploy-and-configure", "deploy-descriptor-v2"}
         /\ step \in 1 .. Len(Steps) /\ Steps[step] = s /\ at = "configure" /\ Configured
<1>1. at = "configure" /\ step <= Len(Steps) /\ Steps[step] = s /\ Configured
      /\ step \in Nat \ {0}
  BY DEF Doing, Step, DeploymentInv, DeploymentTyped
<1>2. run.task # "deploy-v2-logic"
  <2>1. SUFFICES ASSUME run.task = "deploy-v2-logic" PROVE FALSE
    OBVIOUS
  <2>2. Steps = <<>>
    BY <2>1 DEF Steps
  <2>3. Len(Steps) = 0
    BY <2>2
  <2>4. PICK k \in Nat : k = step /\ k # 0 /\ k <= Len(Steps)
    BY <1>1
  <2>. QED BY <2>3, <2>4
<1>3. run.task # "deploy-ci"
  <2>1. SUFFICES ASSUME run.task = "deploy-ci" PROVE FALSE
    OBVIOUS
  <2>2. Steps = <<"write-log">> /\ step = 1
    BY <1>1, <2>1 DEF Configured, Steps
  <2>. QED BY <1>1, <2>2
<1>4. run.task \in {"deploy-and-configure", "deploy-descriptor-v2"}
  BY <1>1, <1>2, <1>3 DEF Configured, Complete4
<1>5. Len(Steps) \in Nat
  BY <1>4, StepsCounted
<1>6. step \in 1 .. Len(Steps)
  <2>1. PICK n \in Nat : n = Len(Steps)
    BY <1>5
  <2>2. PICK k \in Nat : k = step /\ k # 0
    BY <1>1
  <2>3. k \in 1 .. n
    BY <1>1, <2>1, <2>2
  <2>. QED BY <2>1, <2>2, <2>3
<1>. QED BY <1>1, <1>4, <1>6

\* The descriptor is populated, if the art is where it was expected.
LEMMA PopulateKeeps ==
  ASSUME DeploymentInv, NEW s \in Populating, PopulateDescriptor(s)
  PROVE  DeploymentInv'
<1>1. /\ Doing(s) /\ s # "write-log"
      /\ UNCHANGED <<run, base, deployment, owner, paused, configs, foreign>>
      /\ \/ /\ FoundAt("NounsArt", deployment["NounsDescriptorV2"].args.art)
            /\ populated' = populated + 1 /\ nonce' = nonce + 1 /\ step' = step + 1 /\ at' = at
         \/ at' = "stopped" /\ UNCHANGED <<step, nonce, populated>>
  BY PopulateList DEF PopulateDescriptor, NextStep, chainState
<1>2. /\ run.task \in {"deploy-and-configure", "deploy-descriptor-v2"}
      /\ step \in 1 .. Len(Steps) /\ Steps[step] = s /\ at = "configure" /\ Configured
  BY <1>1, DoesIs
<1>3. step \in 1 .. 6
  BY <1>2, StepIs
<1>4. /\ DeploymentTyped' /\ NothingConfigured' /\ InList'
      /\ UpTo(Len(Names) + 1)' /\ Names' = Names /\ Steps' = Steps /\ step \in Nat \ {0}
  BY <1>1, <1>2, ConfiguringTyped
<1>5. CASE at' = "stopped" /\ UNCHANGED <<step, nonce, populated>>
  BY <1>1, <1>4, <1>5, HandedOverSame, StopKeeps DEF DeploymentInv
<1>6. CASE /\ FoundAt("NounsArt", deployment["NounsDescriptorV2"].args.art)
           /\ populated' = populated + 1 /\ nonce' = nonce + 1 /\ step' = step + 1 /\ at' = at
  <2>1. step' \in 1 .. Len(Steps) + 1 /\ at' # "done"
    BY <1>2, <1>4, <1>6, StepsCounted
  <2>2. DescriptorConfigured'
    <3>1. DescriptorConfigured
      BY <1>2 DEF Configured
    <3>2. populated' = IF step' > 6 THEN 6 ELSE step' - 1
      BY <1>3, <1>6, <3>1 DEF DescriptorConfigured
    <3>3. FoundAt("NounsArt", deployment["NounsDescriptorV2"].args.art)'
      BY <1>1, <1>6 DEF FoundAt, Address
    <3>4. owner["NounsDescriptorV2"] = "deployer" /\ ~ (step' > 7)
      BY <1>3, <1>6, <3>1 DEF DescriptorConfigured
    <3>5. owner'["NounsDescriptorV2"] = IF step' > 7 THEN "executor" ELSE "deployer"
      BY <1>1, <3>4
    <3>. QED BY <1>4, <2>1, <3>2, <3>3, <3>5 DEF DescriptorConfigured
  <2>3. run.task = "deploy-and-configure" => SystemConfigured'
    <3>1. SUFFICES ASSUME run.task = "deploy-and-configure" PROVE SystemConfigured'
      OBVIOUS
    <3>2. SystemConfigured
      BY <1>2, <3>1 DEF Configured
    <3>3. /\ ~ (step > 8) /\ ~ (step > 9) /\ ~ (step > 10) /\ ~ (step > 11)
          /\ ~ (step' > 8) /\ ~ (step' > 9) /\ ~ (step' > 10) /\ ~ (step' > 11)
      BY <1>3, <1>6
    <3>4. ~ (step' > Len(Steps))
      BY <1>3, <1>6, <3>1, SystemSteps
    <3>. QED BY <1>1, <1>4, <3>2, <3>3, <3>4 DEF SystemConfigured
  <2>4. Configured'
    BY <1>1, <1>2, <1>4, <2>2, <2>3 DEF Configured, ownable
  <2>5. HandedOverWired'
    BY <1>4, <2>4, ConfiguredIsWired, PTL
  <2>. QED BY <1>2, <1>4, <1>6, <2>4, <2>5 DEF DeploymentInv
<1>. QED BY <1>1, <1>5, <1>6

\* A contract is handed over: the one whose turn it is, the ones before it have been.
LEMMA TransferKeeps ==
  ASSUME DeploymentInv, NEW c \in ownable, TransferOwnership(c)
  PROVE  DeploymentInv'
<1>1. /\ Doing(c) /\ c # "write-log" /\ c \notin Populating
      /\ nonce' = nonce + 1 /\ step' = step + 1 /\ at' = at
      /\ UNCHANGED <<run, base, deployment, populated, paused, configs, foreign>>
      /\ owner' = [owner EXCEPT ![c] = "executor"]
  BY PopulateList DEF TransferOwnership, NextStep, ownable
<1>2. /\ run.task \in {"deploy-and-configure", "deploy-descriptor-v2"}
      /\ step \in 1 .. Len(Steps) /\ Steps[step] = c /\ at = "configure" /\ Configured
  BY <1>1, DoesIs
<1>3. /\ c = "NounsDescriptorV2" => step = 7
      /\ c = "NounsToken" => step = 8 /\ run.task = "deploy-and-configure"
      /\ c = "NounsAuctionHouseProxyAdmin" => step = 9 /\ run.task = "deploy-and-configure"
      /\ c = "NounsAuctionHouseProxy" =>
           step = 11 /\ run.task = "deploy-and-configure" /\ run.startAuction
  BY <1>2, StepIs
<1>4. \/ step = 7 /\ step' = 8 /\ c = "NounsDescriptorV2"
      \/ step = 8 /\ step' = 9 /\ c = "NounsToken"
      \/ step = 9 /\ step' = 10 /\ c = "NounsAuctionHouseProxyAdmin"
      \/ step = 11 /\ step' = 12 /\ c = "NounsAuctionHouseProxy" /\ run.startAuction
  BY <1>1, <1>3 DEF ownable
<1>5. /\ DeploymentTyped' /\ NothingConfigured' /\ InList'
      /\ UpTo(Len(Names) + 1)' /\ Names' = Names /\ Steps' = Steps /\ step \in Nat \ {0}
  BY <1>1, <1>2, ConfiguringTyped
<1>6. DOMAIN owner = ownable /\ ownable' = ownable
  BY DEF DeploymentInv, DeploymentTyped, ownable
<1>7. /\ owner'[c] = "executor" /\ \A d \in ownable : d # c => owner'[d] = owner[d]
  BY <1>1, <1>6
<1>8. step' \in 1 .. Len(Steps) + 1
  BY <1>1, <1>2, <1>5, StepsCounted
<1>9. DescriptorConfigured'
  <2>1. DescriptorConfigured
    BY <1>2 DEF Configured
  <2>2. populated' = 6 /\ step' > 6 /\ step' > 7
    <3>1. step > 6 /\ step' > 6 /\ step' > 7
      BY <1>4
    <3>. QED BY <1>1, <2>1, <3>1 DEF DescriptorConfigured
  <2>3. FoundAt("NounsArt", deployment["NounsDescriptorV2"].args.art)'
    <3>1. step > 1
      BY <1>4
    <3>. QED BY <1>1, <2>1, <3>1 DEF DescriptorConfigured, FoundAt, Address
  <2>4. owner'["NounsDescriptorV2"] = "executor"
    <3>1. CASE c = "NounsDescriptorV2"
      BY <1>7, <3>1
    <3>2. CASE c # "NounsDescriptorV2"
      <4>1. step > 7
        BY <1>4, <3>2
      <4>. QED BY <1>7, <2>1, <3>2, <4>1 DEF DescriptorConfigured, ownable
    <3>. QED BY <3>1, <3>2
  <2>. QED BY <1>1, <1>2, <1>5, <1>8, <2>2, <2>3, <2>4 DEF DescriptorConfigured
<1>10. run.task = "deploy-and-configure" => SystemConfigured'
  <2>1. SUFFICES ASSUME run.task = "deploy-and-configure" PROVE SystemConfigured'
    OBVIOUS
  <2>2. SystemConfigured
    BY <1>2, <2>1 DEF Configured
  <2>3. /\ {"NounsToken", "NounsAuctionHouseProxyAdmin", "NounsAuctionHouseProxy"} \subseteq ownable
        /\ paused' = paused
    BY <1>1 DEF ownable
  <2>4. /\ owner'["NounsToken"] = IF step' > 8 THEN "executor" ELSE "deployer"
        /\ owner'["NounsAuctionHouseProxyAdmin"] = IF step' > 9 THEN "executor" ELSE "deployer"
        /\ (run.startAuction /\ step' > 11) => owner'["NounsAuctionHouseProxy"] = "executor"
        /\ ~ (run.startAuction /\ step' > 11) => owner'["NounsAuctionHouseProxy"] = "deployer"
        /\ (run.startAuction /\ step' > 10) => paused' = FALSE
        /\ ~ (run.startAuction /\ step' > 10) => paused' = TRUE
    <3>1. CASE step = 7 /\ step' = 8 /\ c = "NounsDescriptorV2"
      BY <1>7, <2>2, <2>3, <3>1 DEF SystemConfigured
    <3>2. CASE step = 8 /\ step' = 9 /\ c = "NounsToken"
      BY <1>7, <2>2, <2>3, <3>2 DEF SystemConfigured
    <3>3. CASE step = 9 /\ step' = 10 /\ c = "NounsAuctionHouseProxyAdmin"
      BY <1>7, <2>2, <2>3, <3>3 DEF SystemConfigured
    <3>4. CASE step = 11 /\ step' = 12 /\ c = "NounsAuctionHouseProxy" /\ run.startAuction
      BY <1>7, <2>2, <2>3, <3>4 DEF SystemConfigured
    <3>. QED BY <1>4, <3>1, <3>2, <3>3, <3>4
  <2>5. (run.updateConfigs /\ step' > Len(Steps)) => ConfigsRight'
    <3>1. SUFFICES ASSUME run.updateConfigs, step' > Len(Steps) PROVE FALSE
      OBVIOUS
    <3>2. step = Len(Steps)
      BY <1>1, <1>2, <3>1, StepsCounted
    <3>3. Steps[step] = "update-configs"
      BY <2>1, <3>1, <3>2, SystemSteps
    <3>. QED BY <1>2, <3>3 DEF ownable
  <2>. QED BY <1>1, <1>5, <2>4, <2>5 DEF SystemConfigured
<1>11. run.task = "deploy-descriptor-v2" =>
         \A d \in ownable : d # "NounsDescriptorV2" => owner'[d] # "executor"
  <2>1. SUFFICES ASSUME run.task = "deploy-descriptor-v2", NEW d \in ownable, d # "NounsDescriptorV2"
                 PROVE  owner'[d] # "executor"
    OBVIOUS
  <2>2. c = "NounsDescriptorV2"
    BY <1>3, <2>1 DEF ownable
  <2>. QED BY <1>2, <1>7, <2>1, <2>2 DEF Configured
<1>12. Configured'
  BY <1>1, <1>2, <1>5, <1>6, <1>9, <1>10, <1>11 DEF Configured
<1>13. HandedOverWired'
  BY <1>5, <1>12, ConfiguredIsWired, PTL
<1>. QED BY <1>1, <1>2, <1>5, <1>12, <1>13 DEF DeploymentInv

\* The auction house is unpaused: the transaction, which nobody looks after, does
\* not fail, since the deployer still owns the house, which is the minter.

LEMMA UnpauseKeeps == ASSUME DeploymentInv, Unpause PROVE DeploymentInv'
<1>1. /\ Doing("unpause")
      /\ paused' = ~( /\ owner["NounsAuctionHouseProxy"] = "deployer"
                      /\ FoundAt("NounsAuctionHouseProxy", deployment["NounsToken"].args.minter)
                      /\ populated = Len(populate) )
      /\ nonce' = nonce + 1 /\ step' = step + 1 /\ at' = at
      /\ UNCHANGED <<run, base, deployment, owner, populated, configs, foreign>>
  BY DEF Unpause, NextStep
<1>2. /\ run.task \in {"deploy-and-configure", "deploy-descriptor-v2"}
      /\ step \in 1 .. Len(Steps) /\ Steps[step] = "unpause" /\ at = "configure" /\ Configured
  BY <1>1, DoesIs
<1>3. step = 10 /\ step' = 11 /\ run.task = "deploy-and-configure" /\ run.startAuction
  BY <1>1, <1>2, StepIs
<1>4. /\ DeploymentTyped' /\ NothingConfigured' /\ InList'
      /\ UpTo(Len(Names) + 1)' /\ Names' = Names /\ Steps' = Steps /\ base \in Nat
  BY <1>1, <1>2, ConfiguringTyped
<1>5. DescriptorConfigured /\ SystemConfigured /\ SystemWired
  BY <1>2, <1>3, <1>4, SystemIsWired DEF Configured
<1>6. paused' = FALSE
  <2>1. owner["NounsAuctionHouseProxy"] = "deployer"
    BY <1>3, <1>5 DEF SystemConfigured
  <2>2. populated = Len(populate)
    BY <1>3, <1>5, PopulateList DEF DescriptorConfigured
  <2>. QED BY <1>1, <1>5, <2>1, <2>2 DEF SystemWired
<1>7. DescriptorConfigured'
  <2>1. step' \in 1 .. Len(Steps) + 1
    BY <1>1, <1>2, StepsCounted
  <2>2. populated' = IF step' > 6 THEN 6 ELSE step' - 1
    BY <1>1, <1>3, <1>5 DEF DescriptorConfigured
  <2>3. owner'["NounsDescriptorV2"] = IF step' > 7 THEN "executor" ELSE "deployer"
    BY <1>1, <1>3, <1>5 DEF DescriptorConfigured
  <2>4. FoundAt("NounsArt", deployment["NounsDescriptorV2"].args.art)'
    BY <1>1, <1>5 DEF SystemWired, FoundAt, Address
  <2>. QED BY <1>1, <1>2, <1>4, <2>1, <2>2, <2>3, <2>4 DEF DescriptorConfigured
<1>8. SystemConfigured'
  <2>1. /\ owner'["NounsToken"] = IF step' > 8 THEN "executor" ELSE "deployer"
        /\ owner'["NounsAuctionHouseProxyAdmin"] = IF step' > 9 THEN "executor" ELSE "deployer"
        /\ ~ (run.startAuction /\ step' > 11) /\ owner'["NounsAuctionHouseProxy"] = "deployer"
        /\ run.startAuction /\ step' > 10
    BY <1>1, <1>3, <1>5 DEF SystemConfigured
  <2>2. ~ (run.updateConfigs /\ step' > Len(Steps))
    BY <1>3, SystemSteps
  <2>. QED BY <1>1, <1>4, <1>6, <2>1, <2>2 DEF SystemConfigured
<1>9. Configured'
  BY <1>1, <1>2, <1>3, <1>4, <1>7, <1>8 DEF Configured
<1>10. HandedOverWired'
  BY <1>4, <1>9, ConfiguredIsWired, PTL
<1>. QED BY <1>1, <1>2, <1>4, <1>9, <1>10 DEF DeploymentInv

\* the last step writes the addresses of what was deployed
LEMMA UpdateConfigsKeeps == ASSUME DeploymentInv, UpdateConfigs PROVE DeploymentInv'
<1>1. /\ Doing(Step) /\ Step \in {"update-configs", "update-configs-daov2"}
      /\ configs' = [nounsToken   |-> Address("NounsToken"),
                     auctionHouse |-> Address("NounsAuctionHouseProxy"),
                     nounsDAO     |-> Address(IF Step = "update-configs"
                                              THEN "NounsDAOProxy" ELSE "NounsDAOProxyV2")]
      /\ step' = step + 1 /\ at' = at
      /\ UNCHANGED <<run, nonce, base, deployment, owner, populated, paused, foreign>>
  BY DEF UpdateConfigs, Doing, NextStep, chainState
<1>2. /\ run.task \in {"deploy-and-configure", "deploy-descriptor-v2"}
      /\ step \in 1 .. Len(Steps) /\ Steps[step] = Step /\ at = "configure" /\ Configured
  BY <1>1, DoesIs
<1>3. /\ run.task = "deploy-and-configure" /\ run.updateConfigs
      /\ Step = "update-configs" /\ step = Len(Steps)
  BY <1>1, <1>2, StepIs
<1>4. /\ DeploymentTyped' /\ NothingConfigured' /\ InList'
      /\ UpTo(Len(Names) + 1)' /\ Names' = Names /\ Steps' = Steps /\ base \in Nat
  BY <1>1, <1>2, ConfiguringTyped
<1>5. DescriptorConfigured /\ SystemConfigured /\ SystemWired
  BY <1>2, <1>3, <1>4, SystemIsWired DEF Configured
<1>6. \/ run.startAuction /\ step = 12 /\ step' = 13
      \/ ~ run.startAuction /\ step = 10 /\ step' = 11
  <2>1. CASE run.startAuction
    <3>1. step = 12
      BY <1>3, <2>1, SystemSteps
    <3>. QED BY <1>1, <2>1, <3>1
  <2>2. CASE ~ run.startAuction
    <3>1. step = 10
      BY <1>3, <2>2, SystemSteps
    <3>. QED BY <1>1, <2>2, <3>1
  <2>. QED BY <2>1, <2>2
<1>7. ConfigsRight'
  <2>1. configs' = [nounsToken   |-> Address("NounsToken"),
                    auctionHouse |-> Address("NounsAuctionHouseProxy"),
                    nounsDAO     |-> Address("NounsDAOProxy")]
    BY <1>1, <1>3
  <2>2. /\ FoundAt("NounsToken", configs'.nounsToken)
        /\ FoundAt("NounsAuctionHouseProxy", configs'.auctionHouse)
        /\ FoundAt("NounsDAOProxy", configs'.nounsDAO)
    BY <1>5, <2>1 DEF SystemWired, FoundAt
  <2>3. Governor' = Governor /\ Governor = "NounsDAOProxy"
    BY <1>1, <1>5 DEF SystemWired, Governor
  <2>. QED BY <1>1, <2>2, <2>3 DEF ConfigsRight, FoundAt, Address
<1>8. DescriptorConfigured'
  <2>1. step' \in 1 .. Len(Steps) + 1
    BY <1>1, <1>2, StepsCounted
  <2>2. step > 6 /\ step > 7 /\ step' > 6 /\ step' > 7 /\ step' > 1
    BY <1>6
  <2>3. FoundAt("NounsArt", deployment["NounsDescriptorV2"].args.art)'
    BY <1>1, <1>5 DEF SystemWired, FoundAt, Address
  <2>. QED BY <1>1, <1>2, <1>4, <1>5, <2>1, <2>2, <2>3 DEF DescriptorConfigured
<1>9. SystemConfigured'
  <2>1. CASE run.startAuction /\ step = 12 /\ step' = 13
    BY <1>1, <1>5, <1>7, <2>1 DEF SystemConfigured
  <2>2. CASE ~ run.startAuction /\ step = 10 /\ step' = 11
    BY <1>1, <1>5, <1>7, <2>2 DEF SystemConfigured
  <2>. QED BY <1>6, <2>1, <2>2
<1>10. Configured'
  BY <1>1, <1>2, <1>3, <1>4, <1>8, <1>9 DEF Configured
<1>11. HandedOverWired'
  BY <1>4, <1>10, ConfiguredIsWired, PTL
<1>. QED BY <1>1, <1>2, <1>4, <1>10, <1>11 DEF DeploymentInv

\* deploy-ci stops when it comes to its log
LEMMA WriteLogKeeps == ASSUME DeploymentInv, WriteLog PROVE DeploymentInv'
<1>1. /\ at = "configure" /\ step <= Len(Steps) /\ Steps[step] = "write-log"
      /\ "NFTDescriptor" \notin DOMAIN deployment => at' = "stopped" /\ UNCHANGED step
      /\ UNCHANGED <<run, nonce, base, deployment, chainState, foreign>>
  BY DEF WriteLog, Doing, Step
<1>2. Configured /\ step \in Nat \ {0} /\ base \in Nat
  BY <1>1 DEF DeploymentInv, DeploymentTyped
<1>3. run.task = "deploy-ci"
  <2>1. ASSUME run.task = "deploy-v2-logic" PROVE FALSE
    <3>1. Steps = <<>>
      BY <2>1 DEF Steps
    <3>2. Len(Steps) = 0
      BY <3>1
    <3>. QED BY <1>1, <1>2, <3>2
  <2>2. ASSUME run.task \in {"deploy-and-configure", "deploy-descriptor-v2"} PROVE FALSE
    <3>1. step \in 1 .. Len(Steps)
      BY <1>1, <1>2, <2>2, StepsCounted
    <3>. QED BY <1>1, <2>2, <3>1, StepIs
  <2>. QED BY <1>2, <2>1, <2>2 DEF Configured, Complete4
<1>4. "NFTDescriptor" \notin DOMAIN deployment
  BY <1>2, <1>3, SystemIsWired DEF Configured, SystemWired
<1>. QED BY <1>1, <1>4, Unmoved, StopKeeps

\* what has been configured does not change by itself
LEMMA ConfiguredSame ==
  ASSUME Configured, UpTo(Len(Names) + 1)',
         UNCHANGED <<run, step, deployment, configs, chainState>>,
         \/ at' = at
         \/ /\ run.task # "deploy-ci"
            /\ run.task \in {"deploy-and-configure", "deploy-descriptor-v2"} =>
                 step = Len(Steps) + 1
  PROVE  Configured'
<1>1. Names' = Names /\ Steps' = Steps
  BY SameLists
<1>2. UNCHANGED <<owner, populated, paused>>
  BY DEF chainState
<1>3. (run.task \in {"deploy-and-configure", "deploy-descriptor-v2"} /\ DescriptorConfigured) =>
        DescriptorConfigured'
  BY <1>1, <1>2 DEF DescriptorConfigured, FoundAt, Address
<1>4. SystemConfigured => SystemConfigured'
  BY <1>1, <1>2 DEF SystemConfigured, ConfigsRight, FoundAt, Address, Governor
<1>. QED BY <1>2, <1>3, <1>4 DEF Configured, NobodyHandedOver, ownable

\* The task completes, which deploy-ci never does.
LEMMA CompleteKeeps == ASSUME DeploymentInv, Complete PROVE DeploymentInv'
<1>1. /\ at = "configure" /\ step > Len(Steps) /\ at' = "done"
      /\ UNCHANGED <<run, step, nonce, base, deployment, configs, chainState, foreign>>
  BY DEF Complete
<1>2. DeploymentTyped' /\ HandedOverWired'
  BY <1>1, Unmoved
<1>3. Configured /\ step \in Nat
  BY <1>1 DEF DeploymentInv, DeploymentTyped
<1>4. run.task # "deploy-ci"
  <2>1. SUFFICES ASSUME run.task = "deploy-ci" PROVE FALSE
    OBVIOUS
  <2>2. Steps = <<"write-log">> /\ step = 1
    BY <1>3, <2>1 DEF Configured, Steps
  <2>3. Len(Steps) = 1
    BY <2>2
  <2>. QED BY <1>1, <2>2, <2>3
<1>5. UpTo(Len(Names) + 1)'
  <2>1. PICK k \in Nat : k = Len(Names) + 1
    BY <1>3, CompleteLists DEF Configured
  <2>2. UpTo(k) /\ nonce \in Nat
    BY <1>3, <2>1 DEF Configured, DeploymentInv, DeploymentTyped
  <2>3. UpTo(k)'
    BY <1>1, <2>2, UpToLater
  <2>. QED BY <1>1, <2>1, <2>3, SameLists DEF UpTo
<1>6. run.task \in {"deploy-and-configure", "deploy-descriptor-v2"} => step = Len(Steps) + 1
  <2>1. SUFFICES ASSUME run.task \in {"deploy-and-configure", "deploy-descriptor-v2"}
                 PROVE  step = Len(Steps) + 1
    OBVIOUS
  <2>2. step \in 1 .. Len(Steps) + 1
    BY <1>3, <2>1 DEF Configured, DescriptorConfigured
  <2>. QED BY <1>1, <2>1, <2>2, StepsCounted
<1>7. Configured'
  BY <1>1, <1>3, <1>4, <1>5, <1>6, ConfiguredSame
<1>. QED BY <1>1, <1>2, <1>7 DEF DeploymentInv, NothingConfigured, InList

\* The account sends something else.
LEMMA ForeignKeeps == ASSUME DeploymentInv, ForeignTransaction PROVE DeploymentInv'
<1>1. /\ nonce' = nonce + 1 /\ foreign' = foreign + 1
      /\ UNCHANGED <<run, at, step, base, deployment, configs, chainState>>
      /\ UNCHANGED <<owner, populated, paused>>
  BY DEF ForeignTransaction, chainState
<1>2. DeploymentTyped /\ DeploymentTyped'
  BY <1>1 DEF DeploymentInv, DeploymentTyped, ownable
<1>3. HandedOverWired'
  BY <1>1, HandedOverSame DEF DeploymentInv
<1>4. NothingConfigured'
  BY <1>1 DEF DeploymentInv, NothingConfigured, NobodyHandedOver, ownable
<1>5. Names' = Names /\ TokenAt' = TokenAt
  BY <1>1, SameLists
<1>6. ASSUME NEW k \in Nat, UpTo(k) PROVE UpTo(k)'
  BY <1>1, <1>2, <1>6, UpToLater DEF DeploymentTyped
<1>7. InList'
  <2>1. PICK k \in Nat : k = step
    BY <1>2 DEF DeploymentTyped
  <2>2. CASE at \in {"deploy", "send"} /\ run.task \in Complete4
    <3>1. UpTo(k)' /\ OwnedUpTo(k)'
      BY <1>1, <1>5, <1>6, <2>1, <2>2 DEF DeploymentInv, InList, OwnedUpTo, ownable
    <3>2. base' + (step' - 1) <= nonce'
      BY <1>1, <1>2, <2>2 DEF DeploymentInv, InList, DeploymentTyped
    <3>3. step' = k /\ step' \in 1 .. Len(Names)
      BY <1>1, <2>1, <2>2 DEF DeploymentInv, InList
    <3>. QED BY <1>1, <1>5, <2>2, <3>1, <3>2, <3>3 DEF InList, Complete4, Rejecting
  <2>3. CASE at \in {"deploy", "send"} /\ run.task \in Rejecting
    BY <1>1, <1>5, <2>3 DEF DeploymentInv, InList, Complete4, Rejecting
  <2>4. CASE at \notin {"deploy", "send"}
    BY <1>1, <2>4 DEF InList
  <2>. QED BY <1>2, <2>2, <2>3, <2>4 DEF DeploymentTyped
<1>8. at \in {"configure", "done"} => Configured'
  <2>1. SUFFICES ASSUME at \in {"configure", "done"} PROVE Configured'
    OBVIOUS
  <2>2. Configured
    BY <2>1 DEF DeploymentInv
  <2>3. PICK k \in Nat : k = Len(Names) + 1
    BY <2>2, CompleteLists DEF Configured
  <2>4. UpTo(k)'
    BY <1>6, <2>2, <2>3 DEF Configured
  <2>5. UpTo(Len(Names) + 1)'
    BY <1>5, <2>3, <2>4 DEF UpTo
  <2>. QED BY <1>1, <2>2, <2>5, ConfiguredSame
<1>. QED BY <1>1, <1>2, <1>3, <1>4, <1>7, <1>8 DEF DeploymentInv

\* Every step of a task keeps the invariant.
LEMMA DeploymentNextInv == DeploymentInv /\ [DeploymentNext]_deploymentVars => DeploymentInv'
<1>. SUFFICES ASSUME DeploymentInv, [DeploymentNext]_deploymentVars PROVE DeploymentInv'
  OBVIOUS
<1>1. CASE ResolveParams
  BY <1>1, ParamsKeep
<1>2. CASE Predict
  BY <1>2, PredictKeeps
<1>3. CASE Confirm \/ NoPrompt \/ \E answer \in {"DEPLOY", "SKIP", "EXIT"} : ConfirmLogic(answer)
  BY <1>3, ConfirmKeeps
<1>4. CASE Rejected \/ Interrupted
  BY <1>4, StoppingKeeps
<1>5. CASE Deploy \/ DeployShortTimes \/ DeployShortTimesDaov1
  <2>1. PICK code : DeployAs(code) /\ (run.task \in Complete4 => code = Contract)
    BY <1>5 DEF Deploy, DeployShortTimes, DeployShortTimesDaov1, Complete4
  <2>. QED BY <2>1, DeployKeeps
<1>6. CASE \E s \in {populate[i] : i \in 1 .. Len(populate)} : PopulateDescriptor(s)
  BY <1>6, PopulateKeeps DEF Populating
<1>7. CASE \E c \in ownable : TransferOwnership(c)
  BY <1>7, TransferKeeps
<1>8. CASE Unpause
  BY <1>8, UnpauseKeeps
<1>9. CASE UpdateConfigs
  BY <1>9, UpdateConfigsKeeps
<1>10. CASE WriteLog
  BY <1>10, WriteLogKeeps
<1>11. CASE Complete
  BY <1>11, CompleteKeeps
<1>12. CASE ForeignTransaction
  BY <1>12, ForeignKeeps
<1>13. CASE UNCHANGED deploymentVars
  <2>1. /\ UNCHANGED <<run, step, nonce, base, deployment, chainState, foreign>>
        /\ UNCHANGED <<at, configs, owner, populated, paused>>
    BY <1>13 DEF deploymentVars, chainState
  <2>2. DeploymentTyped' /\ HandedOverWired'
    BY <2>1, Unmoved DEF DeploymentInv, DeploymentTyped
  <2>3. NothingConfigured'
    BY <2>1 DEF DeploymentInv, NothingConfigured, NobodyHandedOver, ownable
  <2>4. InList'
    BY <2>1, SameLists DEF DeploymentInv, InList, UpTo, OwnedUpTo, ownable, Complete4, Rejecting
  <2>5. at \in {"configure", "done"} => Configured'
    <3>1. SUFFICES ASSUME at \in {"configure", "done"} PROVE Configured'
      OBVIOUS
    <3>2. Configured
      BY <3>1 DEF DeploymentInv
    <3>3. UpTo(Len(Names) + 1)'
      BY <2>1, <3>2, SameLists DEF Configured, UpTo
    <3>. QED BY <2>1, <3>2, <3>3, ConfiguredSame
  <2>. QED BY <2>1, <2>2, <2>3, <2>4, <2>5 DEF DeploymentInv
<1>. QED BY <1>1, <1>2, <1>3, <1>4, <1>5, <1>6, <1>7, <1>8, <1>9, <1>10, <1>11, <1>12, <1>13
         DEF DeploymentNext

(***************************************************************************)
(* DeployedWorks: whatever the executor owns works, and a task that        *)
(* deploys the system and completes leaves it running or paused, and       *)
(* wired, whatever the nonces were and wherever the requests failed        *)
(* (tasks/deploy.ts and deploy-and-configure.ts).                          *)
(***************************************************************************)
THEOREM DeploymentWorks == DeploymentSpec => []DeployedWorks
<1>1. DeploymentInit => DeploymentInv
  BY DeploymentInitInv
<1>2. DeploymentInv /\ [DeploymentNext]_deploymentVars => DeploymentInv'
  BY DeploymentNextInv
<1>3. DeploymentInv => DeployedWorks
  BY DoneIsRunning DEF DeploymentInv, DeployedWorks
<1>. QED BY <1>1, <1>2, <1>3, PTL DEF DeploymentSpec

------------------------------------------------------------
(* THE IMAGES                                                              *)

(* Numbers and loops                                                       *)

\* A number is a multiple and a rest in one way.
LEMMA RowAndColumn ==
  ASSUME NEW w \in Nat \ {0}, NEW k \in Nat
  PROVE  /\ k \div w \in Nat /\ k % w \in 0 .. w - 1 /\ k = w * (k \div w) + (k % w)
         /\ \A q \in Nat, r \in 0 .. w - 1 : k = w * q + r => k \div w = q /\ k % w = r
<1>1. PICK a \in Nat, b \in 0 .. w - 1 : a = k \div w /\ b = k % w /\ k = w * a + b
  OBVIOUS
<1>2. ASSUME NEW q \in Nat, NEW r \in 0 .. w - 1, k = w * q + r PROVE q = a /\ r = b
  <2>1. w * (q - a) = b - r
    BY <1>1, <1>2
  <2>2. PICK d \in Int : d = q - a
    OBVIOUS
  <2>3. CASE d >= 1
    <3>1. w * d >= w
      BY <2>3
    <3>. QED BY <1>1, <2>1, <2>2, <3>1
  <2>4. CASE d <= -1
    <3>1. w * d <= -w
      BY <2>4
    <3>. QED BY <1>1, <2>1, <2>2, <3>1
  <2>5. CASE d = 0
    BY <1>1, <1>2, <2>2, <2>5
  <2>. QED BY <2>2, <2>3, <2>4, <2>5
<1>. QED BY <1>1, <1>2

\* The same, of a quotient and a rest that are given.
LEMMA OneDivision ==
  ASSUME NEW w \in Nat \ {0}, NEW k \in Nat, NEW q \in Nat, NEW r \in 0 .. w - 1, k = w * q + r
  PROVE  k \div w = q /\ k % w = r
BY RowAndColumn

\* a loop over the elements of a list, with a state in St
IsLoop(St, E, turn, begin, n, list) ==
  /\ begin \in St /\ \A s \in St, e \in E : turn[<<s, e>>] \in St
  /\ n \in Nat /\ \A i \in 1 .. n : list[i] \in E

\* its states
StatesOf(g, St, turn, begin, n, list) ==
  /\ g \in [0 .. n -> St] /\ g[0] = begin
  /\ \A i \in 1 .. n : g[i] = turn[<<g[i - 1], list[i]>>]

\* What is done for one element of a list after the other has a result.
LEMMA LoopEnds ==
  ASSUME NEW St, NEW E, NEW turn, NEW begin, NEW n, NEW list, IsLoop(St, E, turn, begin, n, list)
  PROVE  \E g : StatesOf(g, St, turn, begin, n, list)
<1>. USE DEF IsLoop
<1>. DEFINE Done(g, m) == g[0] = begin /\ \A i \in 1 .. m : g[i] = turn[<<g[i - 1], list[i]>>]
            T == {m \in Nat : m <= n => \E g \in [0 .. m -> St] : Done(g, m)}
<1>1. 0 \in T
  <2>1. Done([i \in 0 .. 0 |-> begin], 0)
    OBVIOUS
  <2>. QED BY <2>1
<1>2. ASSUME NEW m \in T PROVE m + 1 \in T
  <2>1. SUFFICES ASSUME m + 1 <= n PROVE \E g \in [0 .. m + 1 -> St] : Done(g, m + 1)
    OBVIOUS
  <2>2. PICK g \in [0 .. m -> St] : Done(g, m)
    BY <2>1
  <2>3. g[m] \in St /\ list[m + 1] \in E
    BY <2>1
  <2>4. PICK v \in St : v = turn[<<g[m], list[m + 1]>>]
    BY <2>3
  <2>. DEFINE h == [i \in 0 .. m + 1 |-> IF i = m + 1 THEN v ELSE g[i]]
  <2>5. h \in [0 .. m + 1 -> St]
    OBVIOUS
  <2>6. h[0] = begin
    BY <2>2
  <2>7. ASSUME NEW i \in 1 .. m + 1 PROVE h[i] = turn[<<h[i - 1], list[i]>>]
    <3>1. i - 1 \in 0 .. m /\ h[i - 1] = g[i - 1]
      OBVIOUS
    <3>2. CASE i = m + 1
      <4>1. h[i] = v /\ g[i - 1] = g[m] /\ list[i] = list[m + 1]
        BY <3>2
      <4>. HIDE DEF h
      <4>. QED BY <2>4, <3>1, <4>1
    <3>3. CASE i # m + 1
      <4>1. i \in 1 .. m /\ h[i] = g[i]
        BY <3>3
      <4>. QED BY <2>2, <3>1, <4>1
    <3>. QED BY <3>2, <3>3
  <2>. HIDE DEF h
  <2>. QED BY <2>5, <2>6, <2>7
<1>3. n \in T
  <2>1. T \in SUBSET Nat
    OBVIOUS
  <2>. HIDE DEF T
  <2>. QED BY <1>1, <1>2, <2>1, AllNumbers
<1>4. PICK g \in [0 .. n -> St] : Done(g, n)
  BY <1>3
<1>. QED BY <1>4 DEF StatesOf

\* a run is a number of pixels and an index
RunType == (1 .. MaxByte) \X Nat

\* encode goes through its data pixel by pixel.
LEMMA EncodeLoops ==
  ASSUME NEW n \in Nat, NEW data \in [1 .. n -> Nat]
  PROVE  \E h : /\ encode(data) = h[n] /\ h[0] = <<>>
                /\ \A i \in 1 .. n : h[i] = WithPixel(h[i - 1], data[i], MaxByte)
<1>. DEFINE St == Seq(RunType)
            turn == [p \in St \X Nat |-> WithPixel(p[1], p[2], MaxByte)]
            Does(r) == r = [i \in 0 .. n |-> IF i = 0 THEN <<>>
                                           ELSE WithPixel(r[i - 1], data[i], MaxByte)]
            h == CHOOSE r : Does(r)
<1>1. ASSUME NEW s \in St, NEW e \in Nat PROVE WithPixel(s, e, MaxByte) \in St
  <2>1. MaxByte \in Nat \ {0}
    BY ImageConstants
  <2>2. PICK last \in Nat : last = Len(s)
    OBVIOUS
  <2>3. CASE last > 0 /\ s[last][2] = e /\ s[last][1] < MaxByte
    <3>1. s[last] \in RunType
      BY <2>2, <2>3
    <3>2. <<s[last][1] + 1, e>> \in RunType
      BY <2>1, <2>3, <3>1 DEF RunType
    <3>3. WithPixel(s, e, MaxByte) = [s EXCEPT ![last] = <<s[last][1] + 1, e>>]
      BY <2>2, <2>3 DEF WithPixel
    <3>4. PICK r \in RunType : r = <<s[last][1] + 1, e>>
      BY <3>2
    <3>5. [s EXCEPT ![last] = r] \in Seq(RunType)
      BY <2>2, <2>3
    <3>. QED BY <3>3, <3>4, <3>5
  <2>4. CASE ~ (last > 0 /\ s[last][2] = e /\ s[last][1] < MaxByte)
    <3>1. <<1, e>> \in RunType
      BY <2>1 DEF RunType
    <3>2. WithPixel(s, e, MaxByte) = Append(s, <<1, e>>)
      BY <2>2, <2>4 DEF WithPixel
    <3>. QED BY <3>1, <3>2
  <2>. QED BY <2>3, <2>4
<1>2. \A s \in St, e \in Nat : turn[<<s, e>>] = WithPixel(s, e, MaxByte) /\ turn[<<s, e>>] \in St
  BY <1>1
<1>3. <<>> \in St /\ \A i \in 1 .. n : data[i] \in Nat
  OBVIOUS
<1>. HIDE DEF St, turn
<1>8. IsLoop(St, Nat, turn, <<>>, n, data)
  BY <1>2, <1>3 DEF IsLoop
<1>9. PICK g : StatesOf(g, St, turn, <<>>, n, data)
  BY <1>8, LoopEnds
<1>4. g \in [0 .. n -> St] /\ g[0] = <<>> /\ \A i \in 1 .. n : g[i] = turn[<<g[i - 1], data[i]>>]
  BY <1>9 DEF StatesOf
<1>5. Does(g)
  <2>1. ASSUME NEW i \in 0 .. n
        PROVE  g[i] = IF i = 0 THEN <<>> ELSE WithPixel(g[i - 1], data[i], MaxByte)
    <3>1. CASE i = 0
      BY <1>4, <3>1
    <3>2. CASE i # 0
      <4>1. i \in 1 .. n /\ i - 1 \in 0 .. n
        BY <3>2
      <4>2. g[i - 1] \in St /\ data[i] \in Nat
        BY <1>3, <1>4, <4>1
      <4>. QED BY <1>2, <1>4, <3>2, <4>1, <4>2
    <3>. QED BY <3>1, <3>2
  <2>. QED BY <1>4, <2>1
<1>6. Does(h)
  <2>. HIDE DEF Does
  <2>. QED BY <1>5
<1>7. encode(data) = h[n]
  <2>1. Len(data) = n
    BY SeqDef, LenProperties
  <2>. QED BY <2>1 DEF encode
<1>. HIDE DEF h
<1>. QED BY <1>6, <1>7

\* The first and the last of some numbers.
LEMMA Extremes ==
  ASSUME NEW m \in Nat, NEW S \in SUBSET (0 .. m), S # {}
  PROVE  Min(S) \in S /\ Max(S) \in S /\ \A x \in S : Min(S) <= x /\ x <= Max(S)
<1>1. PICK a \in S : \A x \in S : a <= x
  BY LeastNumber
<1>2. PICK z \in S : \A x \in S : x <= z
  <2>1. 0 \in Int /\ m \in Int
    OBVIOUS
  <2>. QED BY <2>1, GreatestNumber
<1>3. \E x \in S : \A y \in S : x =< y
  BY <1>1
<1>4. \E x \in S : \A y \in S : x >= y
  BY <1>2
<1>5. Min(S) \in S /\ \A y \in S : Min(S) =< y
  BY <1>3 DEF Min
<1>6. Max(S) \in S /\ \A y \in S : Max(S) >= y
  BY <1>4 DEF Max
<1>. QED BY <1>5, <1>6

\* the bounds b of an image of that width and height leave out nothing opaque
Bounding(b, image, w, h) ==
  /\ b.left \in 0 .. w /\ b.right \in 0 .. w /\ b.top \in 0 .. h - 1 /\ b.bottom \in 0 .. h - 1
  /\ b.left <= b.right /\ b.top <= b.bottom
  /\ \A p \in Opaque(image) : p \in (b.left .. b.right - 1) \X (b.top .. b.bottom)

\* The bounds of an image leave out nothing opaque.
LEMMA BoundsHold ==
  ASSUME NEW w \in 1 .. MaxByte, NEW h \in 1 .. MaxByte, NEW image \in Images(w, h)
  PROVE  Bounding(calcBounds(image), image, w, h)
<1>. DEFINE rows    == {p[2] : p \in Opaque(image)}
            columns == {p[1] : p \in Opaque(image)}
            b       == calcBounds(image)
<1>a. MaxByte \in Nat \ {0}
  BY ImageConstants
<1>0. MaxByte \in Nat /\ w \in Nat /\ h \in Nat /\ w >= 1 /\ h >= 1
  BY <1>a
<1>1. Opaque(image) \subseteq (0 .. w - 1) \X (0 .. h - 1)
  BY DEF Opaque, Images
<1>2. rows \in SUBSET (0 .. h - 1) /\ columns \in SUBSET (0 .. w - 1)
  BY <1>1
<1>3. (rows = {} <=> Opaque(image) = {}) /\ (columns = {} <=> Opaque(image) = {})
  OBVIOUS
<1>4. CASE Opaque(image) = {}
  <2>1. b = [top |-> 0, bottom |-> 0, left |-> 0, right |-> 0]
    BY <1>3, <1>4 DEF calcBounds
  <2>2. b.top = 0 /\ b.bottom = 0 /\ b.left = 0 /\ b.right = 0
    BY <2>1
  <2>. HIDE DEF b
  <2>3. Bounding(b, image, w, h)
    BY <1>0, <1>4, <2>2 DEF Bounding
  <2>. QED BY <2>3 DEF b
<1>5. CASE Opaque(image) # {}
  <2>1. b = [top |-> Min(rows), bottom |-> Max(rows),
             left |-> Min(columns), right |-> Max(columns) + 1]
    BY <1>3, <1>5 DEF calcBounds
  <2>2. rows # {} /\ columns # {} /\ h - 1 \in Nat /\ w - 1 \in Nat
    BY <1>0, <1>3, <1>5
  <2>3. \A p \in Opaque(image) : p[2] \in rows /\ p[1] \in columns
    OBVIOUS
  <2>. HIDE DEF rows, columns, b
  <2>4. Min(rows) \in rows /\ Max(rows) \in rows /\ \A x \in rows : Min(rows) <= x /\ x <= Max(rows)
    BY <1>2, <2>2, Extremes
  <2>5. /\ Min(columns) \in columns /\ Max(columns) \in columns
        /\ \A x \in columns : Min(columns) <= x /\ x <= Max(columns)
    BY <1>2, <2>2, Extremes
  <2>6. PICK t \in rows, u \in rows, l \in columns, r \in columns :
          /\ t = Min(rows) /\ u = Max(rows) /\ l = Min(columns) /\ r = Max(columns)
          /\ \A x \in rows : t <= x /\ x <= u
          /\ \A x \in columns : l <= x /\ x <= r
    BY <2>4, <2>5
  <2>7. t \in 0 .. h - 1 /\ u \in 0 .. h - 1 /\ l \in 0 .. w - 1 /\ r \in 0 .. w - 1 /\ t <= u /\ l <= r
    BY <1>2, <2>6
  <2>8. t = b.top /\ u = b.bottom /\ l = b.left /\ b.right = r + 1
    BY <2>1, <2>6
  <2>9. ASSUME NEW p \in Opaque(image) PROVE p \in (l .. r) \X (t .. u)
    <3>1. p \in (0 .. w - 1) \X (0 .. h - 1) /\ p[1] \in columns /\ p[2] \in rows
      BY <1>1, <2>3
    <3>2. l <= p[1] /\ p[1] <= r /\ t <= p[2] /\ p[2] <= u
      BY <2>6, <3>1
    <3>. QED BY <2>7, <3>1, <3>2
  <2>10. (r + 1) - 1 = r
    BY <2>7
  <2>11. Bounding(b, image, w, h)
    BY <1>0, <2>7, <2>8, <2>9, <2>10 DEF Bounding
  <2>. QED BY <2>11 DEF b
<1>. QED BY <1>4, <1>5

\* how many pixels there are within bounds
Area(b) == (b.right - b.left) * (b.bottom - b.top + 1)

\* Reading line by line meets every pixel within the bounds, and no other.
LEMMA PixelsMet ==
  ASSUME NEW w \in 1 .. MaxByte, NEW h \in 1 .. MaxByte, NEW image, NEW b, Bounding(b, image, w, h)
  PROVE  /\ Area(b) \in Nat
         /\ \A k \in 0 .. Area(b) - 1 :
              PixelAt(b, k) \in (b.left .. b.right - 1) \X (b.top .. b.bottom)
         /\ \A p \in (b.left .. b.right - 1) \X (b.top .. b.bottom) :
              \E k \in 0 .. Area(b) - 1 : PixelAt(b, k) = p
<1>a. MaxByte \in Nat \ {0}
  BY ImageConstants
<1>0. MaxByte \in Nat /\ w \in Nat /\ h \in Nat /\ w >= 1 /\ h >= 1
  BY <1>a
<1>1. PICK l \in Nat, t \in Nat, width \in Nat, height \in Nat :
        /\ height >= 1 /\ l = b.left /\ b.right = l + width /\ t = b.top /\ b.bottom = t + height - 1
  <2>1. b.left \in Nat /\ b.top \in Nat /\ b.right - b.left \in Nat /\ b.bottom - b.top + 1 \in Nat
    BY <1>0 DEF Bounding
  <2>2. b.bottom - b.top + 1 >= 1
    BY <1>0 DEF Bounding
  <2>3. /\ b.right = b.left + (b.right - b.left)
        /\ b.bottom = b.top + (b.bottom - b.top + 1) - 1
    BY <1>0 DEF Bounding
  <2>. QED BY <2>1, <2>2, <2>3
<1>2. Area(b) = width * height
  BY <1>1 DEF Area
<1>3. width * height \in Nat
  OBVIOUS
<1>4. CASE width = 0
  <2>1. width * height = 0
    BY <1>4
  <2>. QED BY <1>1, <1>2, <1>4, <2>1
<1>5. CASE width # 0
  <2>0. width \in Nat \ {0}
    BY <1>5
  <2>1. ASSUME NEW k \in Nat PROVE PixelAt(b, k) = <<l + (k % width), t + (k \div width)>>
    BY <1>1, <2>0 DEF PixelAt
  <2>2. ASSUME NEW k \in 0 .. width * height - 1 PROVE PixelAt(b, k) \in (l .. l + width - 1) \X (t .. t + height - 1)
    <3>1. k \in Nat /\ k < width * height
      BY <1>3
    <3>a. k \div width \in Nat /\ k % width \in 0 .. width - 1 /\ k = width * (k \div width) + (k % width)
      BY ONLY <2>0, <3>1, RowAndColumn
    <3>2. PICK q \in Nat, r \in 0 .. width - 1 : q = k \div width /\ r = k % width /\ k = width * q + r
      BY <3>a
    <3>3. q < height
      <4>1. CASE q >= height
        <5>1. PICK d \in Nat : q = height + d
          BY <4>1
        <5>2. width * q = width * height + width * d /\ width * d \in Nat
          BY <5>1
        <5>3. width * q \in Nat
          OBVIOUS
        <5>. QED BY <1>3, <3>1, <3>2, <5>2, <5>3
      <4>. QED BY <4>1
    <3>. QED BY <2>1, <3>1, <3>2, <3>3
  <2>3. ASSUME NEW p \in (l .. l + width - 1) \X (t .. t + height - 1)
        PROVE  \E k \in 0 .. width * height - 1 : PixelAt(b, k) = p
    <3>1. PICK r \in 0 .. width - 1, q \in 0 .. height - 1 : p = <<l + r, t + q>>
      <4>1. p[1] - l \in 0 .. width - 1 /\ p[2] - t \in 0 .. height - 1 /\ p = <<l + (p[1] - l), t + (p[2] - t)>>
        OBVIOUS
      <4>. QED BY <4>1
    <3>2. PICK k \in Nat : k = width * q + r
      <4>1. width * q \in Nat
        OBVIOUS
      <4>. QED BY <4>1
    <3>3. k < width * height
      <4>1. PICK d \in Nat : height = q + 1 + d
        <5>1. height - q - 1 \in Nat /\ height = q + 1 + (height - q - 1)
          OBVIOUS
        <5>. QED BY <5>1
      <4>2. width * height = width * q + width + width * d /\ width * d \in Nat /\ width * q \in Nat
        BY <4>1
      <4>. QED BY <3>2, <4>2, <1>3
    <3>4. k \div width = q /\ k % width = r
      <4>1. q \in Nat
        OBVIOUS
      <4>. QED BY ONLY <2>0, <3>2, <4>1, r \in 0 .. width - 1, k \in Nat, OneDivision
    <3>5. PixelAt(b, k) = p
      BY <2>1, <3>1, <3>4
    <3>6. k \in 0 .. width * height - 1
      BY <1>3, <3>3
    <3>. QED BY <3>5, <3>6
  <2>. HIDE DEF PixelAt
  <2>4. /\ b.left .. b.right - 1 = l .. l + width - 1 /\ b.top .. b.bottom = t .. t + height - 1
    BY <1>1
  <2>. QED BY <1>2, <1>3, <2>2, <2>3, <2>4
<1>. QED BY <1>4, <1>5

PixelType == [color : Colors, alpha : {0, 1}]

\* the pixels of an image that are read
LEMMA ScanIs ==
  ASSUME NEW w \in 1 .. MaxByte, NEW h \in 1 .. MaxByte, NEW image \in Images(w, h)
  PROVE  /\ Area(calcBounds(image)) \in Nat
         /\ Scan(image) = [i \in 1 .. Area(calcBounds(image)) |-> image[PixelAt(calcBounds(image), i - 1)]]
         /\ \A i \in 1 .. Area(calcBounds(image)) :
              /\ PixelAt(calcBounds(image), i - 1) \in DOMAIN image
              /\ image[PixelAt(calcBounds(image), i - 1)] \in PixelType
         /\ Opaque(image) \subseteq {PixelAt(calcBounds(image), i - 1) : i \in 1 .. Area(calcBounds(image))}
<1>. DEFINE b == calcBounds(image)
<1>a. MaxByte \in Nat \ {0}
  BY ImageConstants
<1>0. MaxByte \in Nat /\ w \in Nat /\ h \in Nat /\ w >= 1 /\ h >= 1
  BY <1>a
<1>1. Bounding(b, image, w, h)
  BY BoundsHold
<1>2. Scan(image) = [i \in 1 .. Area(b) |-> image[PixelAt(b, i - 1)]]
  BY DEF Scan, Area
<1>. HIDE DEF b
<1>3. /\ Area(b) \in Nat
      /\ \A k \in 0 .. Area(b) - 1 :
           PixelAt(b, k) \in (b.left .. b.right - 1) \X (b.top .. b.bottom)
      /\ \A p \in (b.left .. b.right - 1) \X (b.top .. b.bottom) :
           \E k \in 0 .. Area(b) - 1 : PixelAt(b, k) = p
  BY <1>1, PixelsMet
<1>4. (b.left .. b.right - 1) \X (b.top .. b.bottom) \subseteq (0 .. w - 1) \X (0 .. h - 1)
  BY <1>0, <1>1 DEF Bounding
<1>5. ASSUME NEW i \in 1 .. Area(b)
      PROVE  PixelAt(b, i - 1) \in DOMAIN image /\ image[PixelAt(b, i - 1)] \in PixelType
  <2>1. i - 1 \in 0 .. Area(b) - 1
    BY <1>3
  <2>2. PixelAt(b, i - 1) \in (0 .. w - 1) \X (0 .. h - 1)
    BY <1>3, <1>4, <2>1
  <2>. QED BY <2>2 DEF Images, PixelType
<1>6. ASSUME NEW p \in Opaque(image) PROVE \E i \in 1 .. Area(b) : PixelAt(b, i - 1) = p
  <2>1. p \in (b.left .. b.right - 1) \X (b.top .. b.bottom)
    BY <1>1 DEF Bounding
  <2>2. PICK k \in 0 .. Area(b) - 1 : PixelAt(b, k) = p
    BY <1>3, <2>1
  <2>3. k + 1 \in 1 .. Area(b) /\ (k + 1) - 1 = k
    BY <1>3
  <2>. QED BY <2>2, <2>3
<1>. QED BY <1>2, <1>3, <1>5, <1>6 DEF b

\* no color
Clear == ""

Tones == Colors \cup {Clear}

\* The transparent color is no color.
LEMMA ClearIsNone == Clear \notin Colors
BY ImageConstants, Zenon DEF Clear

\* the colors there are, each once, the transparent one first
Palette(pal) ==
  /\ pal \in Seq(Tones) /\ Len(pal) >= 1 /\ pal[1] = Clear
  /\ \A i, j \in 1 .. Len(pal) : pal[i] = pal[j] => i = j

Holds(pal, color) == \E i \in 1 .. Len(pal) : pal[i] = color

\* pal is old with colors added
Extended(pal, old) == Len(old) <= Len(pal) /\ \A i \in 1 .. Len(old) : pal[i] = old[i]

\* The indexes of a palette fit in a byte.
LEMMA PaletteFits ==
  ASSUME NEW pal, Palette(pal)
  PROVE  Len(pal) \in Nat /\ Len(pal) <= MaxByte + 1
<1>1. Len(pal) \in Nat /\ pal \in [1 .. Len(pal) -> Tones]
  BY DEF Palette
<1>2. MaxByte \in Nat /\ IsFiniteSet(Colors) /\ Cardinality(Colors) <= MaxByte
  BY ImageConstants, Zenon
<1>3. IsFiniteSet(Tones) /\ Cardinality(Tones) = Cardinality(Colors) + 1 /\ Cardinality(Colors) \in Nat
  BY <1>2, ClearIsNone, FS_AddElement, FS_CardinalityType DEF Tones
<1>4. pal \in Injection(1 .. Len(pal), Tones)
  BY <1>1 DEF Palette, Injection, IsInjective
<1>5. Cardinality(1 .. Len(pal)) <= Cardinality(Tones)
  BY <1>3, <1>4, FS_Injection
<1>6. Cardinality(1 .. Len(pal)) = Len(pal)
  <2>1. 1 \in Int /\ Len(pal) \in Int
    BY <1>1
  <2>2. Cardinality(1 .. Len(pal)) = IF 1 > Len(pal) THEN 0 ELSE Len(pal) - 1 + 1
    BY <2>1, FS_Interval
  <2>. QED BY <1>1, <2>2
<1>. QED BY <1>1, <1>2, <1>3, <1>5, <1>6

\* A color is added once.
LEMMA ColorAdded ==
  ASSUME NEW pal, Palette(pal), NEW color \in Colors
  PROVE  /\ Palette(WithColor(pal, color))
         /\ Extended(WithColor(pal, color), pal)
         /\ Holds(WithColor(pal, color), color)
<1>1. CASE Holds(pal, color)
  BY <1>1 DEF WithColor, Holds, Extended, Palette
<1>2. CASE ~ Holds(pal, color)
  <2>. DEFINE new == Append(pal, color)
  <2>1. WithColor(pal, color) = new
    BY <1>2 DEF WithColor, Holds
  <2>2. pal \in Seq(Tones) /\ Len(pal) \in Nat /\ Len(pal) >= 1 /\ color \in Tones
    BY DEF Palette, Tones
  <2>3. /\ new \in Seq(Tones) /\ Len(new) = Len(pal) + 1 /\ new[Len(pal) + 1] = color
        /\ \A i \in 1 .. Len(pal) : new[i] = pal[i]
    BY <2>2
  <2>. HIDE DEF new
  <2>4. ASSUME NEW i \in 1 .. Len(new), NEW j \in 1 .. Len(new), new[i] = new[j] PROVE i = j
    <3>1. CASE i \in 1 .. Len(pal) /\ j \in 1 .. Len(pal)
      BY <2>3, <2>4, <3>1 DEF Palette
    <3>2. CASE i = Len(pal) + 1 /\ j = Len(pal) + 1
      BY <3>2
    <3>3. CASE i = Len(pal) + 1 /\ j \in 1 .. Len(pal)
      BY <1>2, <2>3, <2>4, <3>3 DEF Holds
    <3>4. CASE j = Len(pal) + 1 /\ i \in 1 .. Len(pal)
      BY <1>2, <2>3, <2>4, <3>4 DEF Holds
    <3>. QED BY <2>2, <2>3, <3>1, <3>2, <3>3, <3>4
  <2>5. new[1] = Clear /\ Len(new) >= 1
    BY <2>2, <2>3 DEF Palette
  <2>6. Palette(new)
    BY <2>3, <2>4, <2>5 DEF Palette
  <2>7. Extended(new, pal) /\ Holds(new, color)
    BY <2>2, <2>3 DEF Extended, Holds
  <2>. QED BY <2>1, <2>6, <2>7
<1>. QED BY <1>1, <1>2

\* An extension of an extended palette is an extension.
LEMMA LaterStill ==
  ASSUME NEW a, NEW b, NEW c, Palette(a), Palette(b), Palette(c), Extended(b, a), Extended(c, b)
  PROVE  Extended(c, a)
<1>1. Len(a) \in Nat /\ Len(b) \in Nat /\ Len(c) \in Nat /\ Len(a) <= Len(b) /\ Len(b) <= Len(c)
  BY DEF Palette, Extended
<1>2. ASSUME NEW i \in 1 .. Len(a) PROVE i \in 1 .. Len(c) /\ c[i] = a[i]
  BY <1>1 DEF Extended
<1>. QED BY <1>1, <1>2 DEF Extended

\* An extended palette has the colors it had.
LEMMA StillHeld ==
  ASSUME NEW a, NEW b, Palette(a), Palette(b), Extended(b, a), NEW color, Holds(a, color)
  PROVE  Holds(b, color)
<1>1. Len(a) \in Nat /\ Len(b) \in Nat /\ Len(a) <= Len(b)
  BY DEF Palette, Extended
<1>. QED BY <1>1 DEF Extended, Holds

\* After the pixels, the palette holds the color of each.
LEMMA PixelsInserted ==
  ASSUME NEW pal, Palette(pal), NEW n \in Nat, NEW pixels \in [1 .. n -> PixelType]
  PROVE  /\ Palette(Inserted(pal, pixels)) /\ Extended(Inserted(pal, pixels), pal)
         /\ \A j \in 1 .. n : Holds(Inserted(pal, pixels), pixels[j].color)
<1>. DEFINE St == {p \in Seq(Tones) : Palette(p)}
            turn == [q \in St \X PixelType |-> WithColor(q[1], q[2].color)]
            Does(r) == r = [i \in 0 .. n |-> IF i = 0 THEN pal ELSE WithColor(r[i - 1], pixels[i].color)]
            h == CHOOSE r : Does(r)
<1>1. ASSUME NEW p, Palette(p) PROVE p \in St
  BY <1>1 DEF Palette
<1>2. ASSUME NEW s \in St, NEW e \in PixelType
      PROVE  turn[<<s, e>>] = WithColor(s, e.color) /\ turn[<<s, e>>] \in St
  <2>1. e.color \in Colors
    BY DEF PixelType
  <2>2. Palette(WithColor(s, e.color))
    BY <2>1, ColorAdded
  <2>3. turn[<<s, e>>] = WithColor(s, e.color)
    OBVIOUS
  <2>. QED BY <1>1, <2>2, <2>3
<1>3. pal \in St /\ \A i \in 1 .. n : pixels[i] \in PixelType
  BY <1>1
<1>b. \A s \in St : Palette(s)
  OBVIOUS
<1>. HIDE DEF St, turn
<1>8. IsLoop(St, PixelType, turn, pal, n, pixels)
  BY <1>2, <1>3 DEF IsLoop
<1>9. PICK g : StatesOf(g, St, turn, pal, n, pixels)
  BY <1>8, LoopEnds
<1>4. g \in [0 .. n -> St] /\ g[0] = pal /\ \A i \in 1 .. n : g[i] = turn[<<g[i - 1], pixels[i]>>]
  BY <1>9 DEF StatesOf
<1>5. Does(g)
  <2>1. ASSUME NEW i \in 0 .. n
        PROVE  g[i] = IF i = 0 THEN pal ELSE WithColor(g[i - 1], pixels[i].color)
    <3>1. CASE i = 0
      BY <1>4, <3>1
    <3>2. CASE i # 0
      <4>1. i \in 1 .. n /\ i - 1 \in 0 .. n
        BY <3>2
      <4>2. g[i - 1] \in St /\ pixels[i] \in PixelType
        BY <1>3, <1>4, <4>1
      <4>. QED BY <1>2, <1>4, <3>2, <4>1, <4>2
    <3>. QED BY <3>1, <3>2
  <2>. QED BY <1>4, <2>1
<1>6. Does(h)
  <2>. HIDE DEF Does
  <2>. QED BY <1>5
<1>7. Inserted(pal, pixels) = h[n]
  <2>1. Len(pixels) = n
    BY SeqDef, LenProperties
  <2>. QED BY <2>1 DEF Inserted
<1>c. h[0] = pal /\ \A i \in 1 .. n : h[i] = WithColor(h[i - 1], pixels[i].color)
  <2>. HIDE DEF h
  <2>1. \A i \in 0 .. n : h[i] = IF i = 0 THEN pal ELSE WithColor(h[i - 1], pixels[i].color)
    BY <1>6
  <2>. QED BY <2>1
<1>. DEFINE Good(k) == /\ Palette(h[k]) /\ Extended(h[k], pal)
                       /\ \A j \in 1 .. k : Holds(h[k], pixels[j].color)
            T == {k \in Nat : k <= n => Good(k)}
<1>. HIDE DEF h
<1>10. 0 \in T
  <2>1. Palette(h[0]) /\ Extended(h[0], pal)
    BY <1>c DEF Extended, Palette
  <2>. QED BY <2>1
<1>11. ASSUME NEW k \in T PROVE k + 1 \in T
  <2>1. SUFFICES ASSUME k + 1 <= n PROVE Good(k + 1)
    OBVIOUS
  <2>2. k \in Nat /\ Good(k) /\ k + 1 \in 1 .. n /\ (k + 1) - 1 = k
    BY <2>1
  <2>3. h[k + 1] = WithColor(h[k], pixels[k + 1].color)
    BY <1>c, <2>2
  <2>4. pixels[k + 1].color \in Colors
    <3>1. pixels[k + 1] \in PixelType
      BY <1>3, <2>2
    <3>. QED BY <3>1 DEF PixelType
  <2>5. Palette(h[k + 1]) /\ Extended(h[k + 1], h[k]) /\ Holds(h[k + 1], pixels[k + 1].color)
    BY <2>2, <2>3, <2>4, ColorAdded
  <2>6. Extended(h[k + 1], pal)
    BY <2>2, <2>5, LaterStill
  <2>8. ASSUME NEW j \in 1 .. k PROVE Holds(h[k + 1], pixels[j].color)
    <3>1. Holds(h[k], pixels[j].color)
      BY <2>2
    <3>. QED BY <2>2, <2>5, <3>1, StillHeld
  <2>7. \A j \in 1 .. k + 1 : j \in 1 .. k \/ j = k + 1
    BY <2>2
  <2>. QED BY <2>5, <2>6, <2>7, <2>8
<1>12. Good(n)
  <2>1. T \in SUBSET Nat
    OBVIOUS
  <2>2. n \in T
    <3>. HIDE DEF T
    <3>. QED BY <1>10, <1>11, <2>1, AllNumbers
  <2>. QED BY <2>2
<1>. QED BY <1>7, <1>12

\* the pixels that are read have their colors in the palette
Known(pal, image) == \A j \in 1 .. Area(calcBounds(image)) : Holds(pal, Scan(image)[j].color)

Indexes(image, pal) == [i \in DOMAIN Scan(image) |-> Index(pal, Scan(image)[i])]

\* data has an index for every pixel read: 0 for a transparent one, else that of its color
Translated(data, image, pal) ==
  /\ data \in [1 .. Area(calcBounds(image)) -> 0 .. MaxByte]
  /\ \A j \in 1 .. Area(calcBounds(image)) :
       /\ data[j] = 0 <=> image[PixelAt(calcBounds(image), j - 1)].alpha = 0
       /\ data[j] # 0 =>
            /\ data[j] + 1 \in 1 .. Len(pal)
            /\ pal[data[j] + 1] = image[PixelAt(calcBounds(image), j - 1)].color

\* The indexes say which pixels are opaque, and their colors.
LEMMA IndexesTranslate ==
  ASSUME NEW w \in 1 .. MaxByte, NEW h \in 1 .. MaxByte, NEW image \in Images(w, h),
         NEW pal, Palette(pal), Known(pal, image)
  PROVE  Translated(Indexes(image, pal), image, pal)
<1>. DEFINE b == calcBounds(image)
            n == Area(b)
            data == Indexes(image, pal)
            pixel(j) == image[PixelAt(b, j - 1)]
<1>0. MaxByte \in Nat \ {0}
  BY ImageConstants
<1>1. /\ n \in Nat /\ Scan(image) = [i \in 1 .. n |-> pixel(i)]
      /\ \A i \in 1 .. n : pixel(i) \in PixelType
  BY ScanIs
<1>2. Len(pal) \in Nat /\ Len(pal) <= MaxByte + 1
  BY PaletteFits
<1>3. data = [i \in 1 .. n |-> Index(pal, pixel(i))]
  BY <1>1 DEF Indexes
<1>4. \A j \in 1 .. n : Holds(pal, pixel(j).color)
  BY <1>1 DEF Known
<1>. HIDE DEF data, n, b
<1>5. ASSUME NEW j \in 1 .. n
      PROVE  /\ Index(pal, pixel(j)) \in 0 .. MaxByte
             /\ Index(pal, pixel(j)) = 0 <=> pixel(j).alpha = 0
             /\ Index(pal, pixel(j)) # 0 =>
                  /\ Index(pal, pixel(j)) + 1 \in 1 .. Len(pal)
                  /\ pal[Index(pal, pixel(j)) + 1] = pixel(j).color
  <2>1. PICK x : x = pixel(j)
    OBVIOUS
  <2>2. x.color \in Colors /\ x.alpha \in {0, 1} /\ Holds(pal, x.color)
    BY <1>1, <1>4, <2>1 DEF PixelType
  <2>. DEFINE In(i) == i \in 1 .. Len(pal) /\ pal[i] = x.color
              c == CHOOSE i \in 1 .. Len(pal) : pal[i] = x.color
  <2>3. c \in 1 .. Len(pal) /\ pal[c] = x.color
    BY <2>2 DEF Holds
  <2>4. Index(pal, x) = IF x.alpha = 0 THEN 0 ELSE c - 1
    BY DEF Index
  <2>. HIDE DEF c
  <2>5. c # 1
    BY <2>2, <2>3, ClearIsNone DEF Palette
  <2>6. CASE x.alpha = 0
    BY <1>0, <2>1, <2>4, <2>6
  <2>7. CASE x.alpha # 0
    <3>1. Index(pal, x) = c - 1 /\ c - 1 \in 1 .. MaxByte /\ (c - 1) + 1 = c
      BY <1>0, <1>2, <2>3, <2>4, <2>5, <2>7
    <3>. QED BY <2>1, <2>3, <2>7, <3>1, <1>0
  <2>. QED BY <2>6, <2>7
<1>6. Translated(data, image, pal)
  BY <1>3, <1>5 DEF Translated, n, b
<1>. QED BY <1>6 DEF data

\* the runs are those of the first k indexes, run i reaching up to ends[i]
Covered(runs, ends, data, k) ==
  /\ runs \in Seq(RunType) /\ ends \in [0 .. Len(runs) -> 0 .. k]
  /\ ends[0] = 0 /\ ends[Len(runs)] = k
  /\ \A i \in 1 .. Len(runs) :
       /\ ends[i] = ends[i - 1] + runs[i][1] /\ runs[i][2] \in 0 .. MaxByte
       /\ \A j \in ends[i - 1] + 1 .. ends[i] : data[j] = runs[i][2]

\* One more pixel makes the last run longer, or begins one.
LEMMA CoveredGrows ==
  ASSUME NEW runs, NEW ends, NEW data, NEW k \in Nat, Covered(runs, ends, data, k),
         data[k + 1] \in 0 .. MaxByte
  PROVE  \E more : Covered(WithPixel(runs, data[k + 1], MaxByte), more, data, k + 1)
<1>0. MaxByte \in Nat \ {0}
  BY ImageConstants
<1>1. PICK index \in 0 .. MaxByte : index = data[k + 1]
  OBVIOUS
<1>2. PICK last \in Nat : last = Len(runs)
  BY DEF Covered
<1>3. ends \in [0 .. last -> 0 .. k] /\ ends[0] = 0 /\ ends[last] = k
  BY <1>2 DEF Covered
<1>4. ASSUME NEW i \in 1 .. last
      PROVE  /\ runs[i][1] \in 1 .. MaxByte /\ runs[i][2] \in 0 .. MaxByte
             /\ i - 1 \in 0 .. last /\ ends[i] \in Nat /\ ends[i - 1] \in Nat
             /\ ends[i] = ends[i - 1] + runs[i][1]
             /\ \A j \in ends[i - 1] + 1 .. ends[i] : data[j] = runs[i][2]
  <2>1. runs[i] \in RunType
    BY <1>2 DEF Covered
  <2>2. runs[i][1] \in 1 .. MaxByte
    BY <2>1 DEF RunType
  <2>3. i - 1 \in 0 .. last /\ i \in 0 .. last
    BY <1>2
  <2>4. ends[i] \in Nat /\ ends[i - 1] \in Nat
    BY <1>3, <2>3
  <2>5. /\ ends[i] = ends[i - 1] + runs[i][1] /\ runs[i][2] \in 0 .. MaxByte
        /\ \A j \in ends[i - 1] + 1 .. ends[i] : data[j] = runs[i][2]
    BY <1>2 DEF Covered
  <2>. QED BY <2>2, <2>3, <2>4, <2>5
<1>5. CASE last > 0 /\ runs[last][2] = index /\ runs[last][1] < MaxByte
  <2>1. last \in 1 .. last
    BY <1>5
  <2>2. PICK r \in RunType : r = <<runs[last][1] + 1, index>>
    <3>1. runs[last][1] + 1 \in 1 .. MaxByte /\ index \in Nat
      BY <1>0, <1>4, <1>5, <2>1
    <3>. QED BY <3>1 DEF RunType
  <2>. DEFINE new == [runs EXCEPT ![last] = r]
              more == [ends EXCEPT ![last] = k + 1]
  <2>3. WithPixel(runs, index, MaxByte) = new
    BY <1>2, <1>5, <2>2 DEF WithPixel
  <2>4. new \in Seq(RunType) /\ Len(new) = last
    BY <1>2, <2>1 DEF Covered
  <2>5. new[last] = r /\ \A i \in 1 .. last - 1 : new[i] = runs[i]
    BY <1>2, <2>1 DEF Covered
  <2>6. more[last] = k + 1 /\ more \in [0 .. last -> 0 .. k + 1] /\ \A i \in 0 .. last - 1 : more[i] = ends[i]
    BY <1>3
  <2>7. r[1] = runs[last][1] + 1 /\ r[2] = index
    BY <2>2
  <2>. HIDE DEF new, more
  <2>8. ASSUME NEW i \in 1 .. last
        PROVE  /\ more[i] = more[i - 1] + new[i][1] /\ new[i][2] \in 0 .. MaxByte
               /\ \A j \in more[i - 1] + 1 .. more[i] : data[j] = new[i][2]
    <3>1. i - 1 \in 0 .. last - 1 /\ more[i - 1] = ends[i - 1]
      BY <2>6
    <3>2. CASE i = last
      <4>1. /\ new[i] = r /\ more[i] = k + 1 /\ ends[last] = ends[last - 1] + runs[last][1]
            /\ ends[last - 1] \in Nat /\ runs[last][1] \in Nat
        BY <1>4, <2>1, <2>5, <2>6, <3>2
      <4>2. more[i] = more[i - 1] + new[i][1]
        BY <1>3, <2>7, <3>1, <3>2, <4>1
      <4>3. ASSUME NEW j \in ends[last - 1] + 1 .. k + 1 PROVE data[j] = index
        <5>1. CASE j = k + 1
          BY <1>1, <5>1
        <5>2. CASE j # k + 1
          <6>1. j \in ends[last - 1] + 1 .. ends[last]
            BY <1>3, <4>1, <5>2
          <6>. QED BY <1>4, <1>5, <2>1, <6>1
        <5>. QED BY <5>1, <5>2
      <4>. QED BY <2>7, <3>1, <3>2, <4>1, <4>2, <4>3
    <3>3. CASE i # last
      <4>1. i \in 1 .. last - 1 /\ i \in 0 .. last - 1
        BY <3>3
      <4>2. new[i] = runs[i] /\ more[i] = ends[i]
        BY <2>5, <2>6, <4>1
      <4>. QED BY <1>4, <3>1, <4>2
    <3>. QED BY <3>2, <3>3
  <2>9. more[0] = 0
    BY <1>3, <1>5, <2>6
  <2>10. Covered(new, more, data, k + 1)
    BY <2>4, <2>6, <2>8, <2>9 DEF Covered
  <2>. QED BY <1>1, <2>3, <2>10
<1>6. CASE ~ (last > 0 /\ runs[last][2] = index /\ runs[last][1] < MaxByte)
  <2>2. PICK r \in RunType : r = <<1, index>>
    <3>1. 1 \in 1 .. MaxByte /\ index \in Nat
      BY <1>0
    <3>. QED BY <3>1 DEF RunType
  <2>. DEFINE new == Append(runs, r)
              more == [i \in 0 .. last + 1 |-> IF i = last + 1 THEN k + 1 ELSE ends[i]]
  <2>3. WithPixel(runs, index, MaxByte) = new
    BY <1>2, <1>6, <2>2 DEF WithPixel
  <2>4. new \in Seq(RunType) /\ Len(new) = last + 1
    BY <1>2 DEF Covered
  <2>5. new[last + 1] = r /\ \A i \in 1 .. last : new[i] = runs[i]
    BY <1>2 DEF Covered
  <2>6. /\ more[last + 1] = k + 1 /\ more \in [0 .. last + 1 -> 0 .. k + 1]
        /\ \A i \in 0 .. last : more[i] = ends[i]
    BY <1>3
  <2>7. r[1] = 1 /\ r[2] = index
    BY <2>2
  <2>. HIDE DEF new, more
  <2>8. ASSUME NEW i \in 1 .. last + 1
        PROVE  /\ more[i] = more[i - 1] + new[i][1] /\ new[i][2] \in 0 .. MaxByte
               /\ \A j \in more[i - 1] + 1 .. more[i] : data[j] = new[i][2]
    <3>1. i - 1 \in 0 .. last /\ more[i - 1] = ends[i - 1]
      BY <2>6
    <3>2. CASE i = last + 1
      <4>1. new[i] = r /\ more[i] = k + 1 /\ more[i - 1] = k
        BY <1>3, <2>5, <2>6, <3>1, <3>2
      <4>2. \A j \in k + 1 .. k + 1 : j = k + 1
        OBVIOUS
      <4>. QED BY <1>1, <2>7, <4>1, <4>2
    <3>3. CASE i # last + 1
      <4>1. i \in 1 .. last /\ i \in 0 .. last
        BY <3>3
      <4>2. new[i] = runs[i] /\ more[i] = ends[i]
        BY <2>5, <2>6, <4>1
      <4>. QED BY <1>4, <3>1, <4>1, <4>2
    <3>. QED BY <3>2, <3>3
  <2>9. more[0] = 0
    BY <1>3, <2>6
  <2>10. Covered(new, more, data, k + 1)
    BY <2>4, <2>6, <2>8, <2>9 DEF Covered
  <2>. QED BY <1>1, <2>3, <2>10
<1>. QED BY <1>5, <1>6

\* The runs of encode are those of its data.
LEMMA EncodeCovers ==
  ASSUME NEW n \in Nat, NEW data \in [1 .. n -> 0 .. MaxByte]
  PROVE  \E ends : Covered(encode(data), ends, data, n)
<1>0. MaxByte \in Nat \ {0}
  BY ImageConstants
<1>1. data \in [1 .. n -> Nat]
  BY <1>0
<1>2. PICK h : /\ encode(data) = h[n] /\ h[0] = <<>>
               /\ \A i \in 1 .. n : h[i] = WithPixel(h[i - 1], data[i], MaxByte)
  BY <1>1, EncodeLoops
<1>. DEFINE T == {k \in Nat : k <= n => \E ends : Covered(h[k], ends, data, k)}
<1>3. 0 \in T
  <2>1. Covered(<<>>, [i \in 0 .. 0 |-> 0], data, 0)
    BY DEF Covered
  <2>. QED BY <1>2, <2>1
<1>4. ASSUME NEW k \in T PROVE k + 1 \in T
  <2>1. SUFFICES ASSUME k + 1 <= n PROVE \E ends : Covered(h[k + 1], ends, data, k + 1)
    OBVIOUS
  <2>2. k \in Nat /\ k + 1 \in 1 .. n /\ (k + 1) - 1 = k
    BY <2>1
  <2>3. PICK ends : Covered(h[k], ends, data, k)
    BY <2>1
  <2>4. data[k + 1] \in 0 .. MaxByte
    BY <2>2
  <2>5. PICK runs : runs = h[k]
    OBVIOUS
  <2>6. \E more : Covered(WithPixel(runs, data[k + 1], MaxByte), more, data, k + 1)
    BY <2>2, <2>3, <2>4, <2>5, CoveredGrows
  <2>. QED BY <1>2, <2>2, <2>5, <2>6
<1>5. n \in T
  <2>1. T \in SUBSET Nat
    OBVIOUS
  <2>. HIDE DEF T
  <2>. QED BY <1>3, <1>4, <2>1, AllNumbers
<1>. QED BY <1>2, <1>5

\* the pixels of the first k indexes that are drawn, and what is seen of an image then
Ink(b, data, k) == {PixelAt(b, j - 1) : j \in {j \in 1 .. k : data[j] # 0}}

Shown(image, b, data, k) ==
  [at |-> k, drawn |-> [p \in Ink(b, data, k) |-> image[p].color]]

\* a run of the indexes from a + 1 to z
RunOf(stroke, image, b, data, pal, a, z) ==
  /\ stroke[1] = z - a /\ \A j \in a + 1 .. z : data[j] = stroke[2]
  /\ stroke[2] # 0 => \A j \in a + 1 .. z : pal[stroke[2] + 1] = image[PixelAt(b, j - 1)].color

SameLines(bounds, b) ==
  /\ bounds.top = b.top
  /\ (bounds.left = b.left /\ bounds.right = b.right)

\* A run draws its pixels in their color, unless they are transparent.
LEMMA RunDraws ==
  ASSUME NEW image, NEW b, NEW data, NEW pal, NEW a \in Nat, NEW z \in Nat, a <= z,
         NEW stroke, RunOf(stroke, image, b, data, pal, a, z), NEW bounds, SameLines(bounds, b)
  PROVE  WithRun(Shown(image, b, data, a), stroke, bounds, pal) = Shown(image, b, data, z)
<1>. DEFINE svg == Shown(image, b, data, a)
            pixels == {PixelAt(bounds, k) : k \in svg.at .. svg.at + stroke[1] - 1}
            more == {PixelAt(b, j - 1) : j \in a + 1 .. z}
<1>. USE DEF RunOf, SameLines
<1>1. svg.at = a /\ svg.drawn = [p \in Ink(b, data, a) |-> image[p].color] /\ a + stroke[1] = z
  BY DEF Shown
<1>2. \A k : PixelAt(bounds, k) = PixelAt(b, k)
  BY DEF PixelAt
<1>3. pixels = more
  <2>1. pixels = {PixelAt(b, k) : k \in a .. z - 1}
    BY <1>1, <1>2
  <2>2. ASSUME NEW k \in a .. z - 1 PROVE \E j \in a + 1 .. z : PixelAt(b, k) = PixelAt(b, j - 1)
    <3>1. k + 1 \in a + 1 .. z /\ (k + 1) - 1 = k
      OBVIOUS
    <3>. QED BY <3>1
  <2>3. ASSUME NEW j \in a + 1 .. z PROVE j - 1 \in a .. z - 1
    OBVIOUS
  <2>. QED BY <2>1, <2>2, <2>3
<1>4. WithRun(svg, stroke, bounds, pal) =
        [at    |-> z,
         drawn |-> IF stroke[2] = 0 THEN svg.drawn
                   ELSE [p \in pixels \cup DOMAIN svg.drawn |->
                           IF p \in pixels THEN pal[stroke[2] + 1] ELSE svg.drawn[p]]]
  BY <1>1 DEF WithRun
<1>. HIDE DEF svg, pixels
<1>5. CASE stroke[2] = 0
  <2>1. {j \in 1 .. z : data[j] # 0} = {j \in 1 .. a : data[j] # 0}
    <3>1. \A j \in 1 .. z : j \in 1 .. a \/ j \in a + 1 .. z
      OBVIOUS
    <3>2. \A j \in 1 .. a : j \in 1 .. z
      OBVIOUS
    <3>. QED BY <1>5, <3>1, <3>2
  <2>2. Ink(b, data, z) = Ink(b, data, a)
    BY <2>1 DEF Ink
  <2>3. WithRun(svg, stroke, bounds, pal) = [at |-> z, drawn |-> svg.drawn]
    BY <1>4, <1>5
  <2>. QED BY <1>1, <2>2, <2>3 DEF Shown, svg
<1>6. CASE stroke[2] # 0
  <2>1. ASSUME NEW p PROVE p \in Ink(b, data, z) <=> p \in more \/ p \in Ink(b, data, a)
    <3>1. ASSUME NEW j \in 1 .. z, data[j] # 0 PROVE PixelAt(b, j - 1) \in more \cup Ink(b, data, a)
      <4>1. CASE j \in 1 .. a
        BY <3>1, <4>1 DEF Ink
      <4>2. CASE j \notin 1 .. a
        <5>1. j \in a + 1 .. z
          BY <4>2
        <5>. QED BY <5>1
      <4>. QED BY <4>1, <4>2
    <3>2. ASSUME NEW j \in a + 1 .. z PROVE j \in 1 .. z /\ data[j] # 0
      BY <1>6
    <3>3. \A j \in 1 .. a : j \in 1 .. z
      OBVIOUS
    <3>4. more \subseteq Ink(b, data, z)
      BY <3>2 DEF Ink
    <3>5. Ink(b, data, a) \subseteq Ink(b, data, z)
      BY <3>3 DEF Ink
    <3>6. Ink(b, data, z) \subseteq more \cup Ink(b, data, a)
      <4>. HIDE DEF more
      <4>. QED BY <3>1 DEF Ink
    <3>. HIDE DEF more
    <3>. QED BY <3>4, <3>5, <3>6
  <2>2. \A p \in more : pal[stroke[2] + 1] = image[p].color
    BY <1>6
  <2>. HIDE DEF more
  <2>3. DOMAIN svg.drawn = Ink(b, data, a)
    BY <1>1
  <2>4. [p \in pixels \cup DOMAIN svg.drawn |-> IF p \in pixels THEN pal[stroke[2] + 1] ELSE svg.drawn[p]]
          = [p \in Ink(b, data, z) |-> image[p].color]
    <3>1. pixels \cup DOMAIN svg.drawn = Ink(b, data, z)
      BY <1>3, <2>1, <2>3
    <3>2. ASSUME NEW p \in Ink(b, data, z)
          PROVE  (IF p \in pixels THEN pal[stroke[2] + 1] ELSE svg.drawn[p]) = image[p].color
      BY <1>1, <1>3, <2>1, <2>2
    <3>. QED BY <3>1, <3>2
  <2>. QED BY <1>4, <1>6, <2>4 DEF Shown, svg
<1>. QED BY <1>5, <1>6

\* the picture after each run
Strokes(f, n, rects, bounds, pal) ==
  f = [i \in 0 .. n |-> IF i = 0 THEN [at |-> 0, drawn |-> [p \in {} |-> ""]]
                        ELSE WithRun(f[i - 1], rects[i], bounds, pal)]

\* the runs draw what is opaque of an image
AllDraw(n, runs, bounds, pal, image) ==
  /\ \E f : Strokes(f, n, runs, bounds, pal)
  /\ \A f : Strokes(f, n, runs, bounds, pal)
           => f[n].drawn = [p \in Opaque(image) |-> image[p].color]

\* The runs of an image draw what is opaque of it.
LEMMA RunsDraw ==
  ASSUME NEW w \in 1 .. MaxByte, NEW h \in 1 .. MaxByte, NEW image \in Images(w, h),
         NEW pal, NEW data, Translated(data, image, pal),
         NEW runs, NEW ends, Covered(runs, ends, data, Area(calcBounds(image))),
         NEW n \in Nat, n = Len(runs), NEW bounds, SameLines(bounds, calcBounds(image))
  PROVE  AllDraw(n, runs, bounds, pal, image)
<1>. DEFINE b == calcBounds(image)
            area == Area(b)
            Pic(i) == Shown(image, b, data, ends[i])
<1>0. MaxByte \in Nat \ {0}
  BY ImageConstants
<1>1. /\ area \in Nat
      /\ \A i \in 1 .. area : PixelAt(b, i - 1) \in DOMAIN image /\ image[PixelAt(b, i - 1)] \in PixelType
      /\ Opaque(image) \subseteq {PixelAt(b, i - 1) : i \in 1 .. area}
  BY ScanIs
<1>2. \A j \in 1 .. area :
        /\ data[j] = 0 <=> image[PixelAt(b, j - 1)].alpha = 0
        /\ data[j] # 0 =>
             /\ data[j] + 1 \in 1 .. Len(pal)
             /\ pal[data[j] + 1] = image[PixelAt(b, j - 1)].color
  BY DEF Translated
<1>3. /\ ends \in [0 .. n -> 0 .. area] /\ ends[0] = 0 /\ ends[n] = area
      /\ \A i \in 1 .. n : /\ ends[i] = ends[i - 1] + runs[i][1] /\ runs[i][2] \in 0 .. MaxByte
                           /\ \A j \in ends[i - 1] + 1 .. ends[i] : data[j] = runs[i][2]
  BY DEF Covered
<1>b. \A i \in 1 .. n : runs[i] \in RunType
  BY DEF Covered
<1>c. SameLines(bounds, b)
  OBVIOUS
<1>. HIDE DEF b, area
<1>4. ASSUME NEW i \in 1 .. n PROVE WithRun(Pic(i - 1), runs[i], bounds, pal) = Pic(i)
  <2>1. PICK start \in 0 .. area, end \in 0 .. area : start = ends[i - 1] /\ end = ends[i]
    <3>1. i - 1 \in 0 .. n /\ i \in 0 .. n
      OBVIOUS
    <3>. QED BY <1>3, <3>1
  <2>2. PICK stroke \in RunType : stroke = runs[i]
    BY <1>b
  <2>3. stroke[1] \in Nat
    BY <1>0, <2>2 DEF RunType
  <2>4. start \in Nat /\ end \in Nat /\ end = start + stroke[1]
    BY <1>1, <1>3, <2>1, <2>2
  <2>5. stroke[1] = end - start /\ start <= end
    BY <2>3, <2>4
  <2>6. \A j \in start + 1 .. end : data[j] = stroke[2]
    BY <1>3, <2>1, <2>2
  <2>7. ASSUME stroke[2] # 0, NEW j \in start + 1 .. end PROVE pal[stroke[2] + 1] = image[PixelAt(b, j - 1)].color
    <3>1. j \in 1 .. area
      BY <1>1, <2>4
    <3>. QED BY <1>2, <2>6, <2>7, <3>1
  <2>8. WithRun(Shown(image, b, data, start), stroke, bounds, pal) = Shown(image, b, data, end)
    <3>1. RunOf(stroke, image, b, data, pal, start, end)
      BY <2>5, <2>6, <2>7 DEF RunOf
    <3>. QED BY <1>c, <2>4, <2>5, <3>1, RunDraws
  <2>. QED BY <2>1, <2>2, <2>8
<1>5. Pic(0) = [at |-> 0, drawn |-> [p \in {} |-> ""]]
  <2>1. {j \in 1 .. 0 : data[j] # 0} = {}
    OBVIOUS
  <2>2. Ink(b, data, 0) = {}
    BY <2>1 DEF Ink
  <2>3. [p \in {} |-> image[p].color] = [p \in {} |-> ""]
    OBVIOUS
  <2>. QED BY <1>3, <2>2, <2>3 DEF Shown
<1>6. Ink(b, data, area) = Opaque(image)
  <2>1. ASSUME NEW j \in 1 .. area
        PROVE  data[j] # 0 <=> PixelAt(b, j - 1) \in Opaque(image)
    BY <1>1, <1>2 DEF Opaque
  <2>. QED BY <1>1, <2>1 DEF Ink
<1>d. \E f : Strokes(f, n, runs, bounds, pal)
  <2>. DEFINE g == [i \in 0 .. n |-> Pic(i)]
  <2>1. ASSUME NEW i \in 0 .. n
        PROVE  g[i] = IF i = 0 THEN [at |-> 0, drawn |-> [p \in {} |-> ""]]
                      ELSE WithRun(g[i - 1], runs[i], bounds, pal)
    <3>. HIDE DEF Pic
    <3>1. CASE i = 0
      BY <1>5, <3>1
    <3>2. CASE i # 0
      <4>1. i \in 1 .. n /\ i - 1 \in 0 .. n
        BY <3>2
      <4>. QED BY <1>4, <3>2, <4>1
    <3>. QED BY <3>1, <3>2
  <2>2. g = [i \in 0 .. n |-> g[i]]
    OBVIOUS
  <2>. HIDE DEF g
  <2>. QED BY <2>1, <2>2 DEF Strokes
<1>7. SUFFICES ASSUME NEW f, Strokes(f, n, runs, bounds, pal)
               PROVE  f[n].drawn = [p \in Opaque(image) |-> image[p].color]
  BY <1>d DEF AllDraw
<1>8. /\ f[0] = [at |-> 0, drawn |-> [p \in {} |-> ""]]
      /\ \A i \in 1 .. n : f[i] = WithRun(f[i - 1], runs[i], bounds, pal)
  <2>1. \A i \in 0 .. n : f[i] = IF i = 0 THEN [at |-> 0, drawn |-> [p \in {} |-> ""]]
                                 ELSE WithRun(f[i - 1], runs[i], bounds, pal)
    BY <1>7 DEF Strokes
  <2>. QED BY <2>1
<1>. DEFINE T == {k \in Nat : k <= n => f[k] = Pic(k)}
<1>9. 0 \in T
  BY <1>5, <1>8
<1>10. ASSUME NEW k \in T PROVE k + 1 \in T
  <2>1. SUFFICES ASSUME k + 1 <= n PROVE f[k + 1] = Pic(k + 1)
    OBVIOUS
  <2>2. k \in Nat /\ k + 1 \in 1 .. n /\ (k + 1) - 1 = k /\ f[k] = Pic(k)
    BY <2>1
  <2>. HIDE DEF Pic
  <2>. QED BY <1>4, <1>8, <2>2
<1>11. f[n] = Pic(n)
  <2>1. T \in SUBSET Nat
    OBVIOUS
  <2>2. n \in T
    <3>. HIDE DEF T
    <3>. QED BY <1>9, <1>10, <2>1, AllNumbers
  <2>. QED BY <2>2
<1>. QED BY <1>3, <1>6, <1>11 DEF Shown

\* A number that fits in a byte is read back.
LEMMA ByteRead == ASSUME NEW v \in 0 .. MaxByte PROVE Byte(v) = v
<1>1. MaxByte \in Nat \ {0}
  BY ImageConstants
<1>2. PICK u \in Nat \ {0} : u = MaxByte + 1
  BY <1>1
<1>3. v \in Nat /\ v \in 0 .. u - 1
  BY <1>1, <1>2
<1>4. v = u * 0 + v /\ 0 \in Nat
  BY <1>2, <1>3
<1>5. v % u = v
  BY ONLY u \in Nat \ {0}, <1>3, <1>4, OneDivision
<1>. QED BY <1>2, <1>5 DEF Byte

WrittenAs(read, runs, t, r, u, l) ==
  read = decodeImage(<<0, Byte(t), Byte(r), Byte(u), Byte(l)>> \o Flattened(runs))

ReadBack(read, n, runs, t, r, u, l) ==
  /\ read.bounds = [top |-> t, right |-> r, bottom |-> u, left |-> l]
  /\ Len(read.rects) = n /\ \A i \in 1 .. n : read.rects[i] = runs[i]

\* What toRLE writes of bounds and runs is what decodeImage reads.
LEMMA RunsRead ==
  ASSUME NEW n \in Nat, NEW runs \in Seq(RunType), Len(runs) = n,
         \A i \in 1 .. n : runs[i][2] \in 0 .. MaxByte,
         NEW t \in 0 .. MaxByte, NEW r \in 0 .. MaxByte, NEW u \in 0 .. MaxByte, NEW l \in 0 .. MaxByte,
         NEW read, WrittenAs(read, runs, t, r, u, l)
  PROVE  ReadBack(read, n, runs, t, r, u, l)
<1>. DEFINE head == <<0, t, r, u, l>>
            body == Flattened(runs)
            all == head \o body
<1>1. MaxByte \in Nat \ {0}
  BY ImageConstants
<1>2. Byte(t) = t /\ Byte(r) = r /\ Byte(u) = u /\ Byte(l) = l
  BY ByteRead
<1>3. ASSUME NEW i \in 1 .. n
      PROVE  /\ runs[i][1] \in 0 .. MaxByte /\ runs[i][2] \in 0 .. MaxByte
             /\ runs[i] = <<runs[i][1], runs[i][2]>>
  <2>1. runs[i] \in RunType
    OBVIOUS
  <2>. QED BY <1>1, <2>1 DEF RunType
<1>4. ASSUME NEW i \in 1 .. n
      PROVE  /\ 2 * i - 1 \in 1 .. 2 * n /\ 2 * i \in 1 .. 2 * n
             /\ body[2 * i - 1] = runs[i][1] /\ body[2 * i] = runs[i][2]
  <2>1. 2 * i - 1 \in 1 .. 2 * n /\ 2 * i \in 1 .. 2 * n
    OBVIOUS
  <2>2. ((2 * i - 1) + 1) \div 2 = i /\ (2 * i - 1) % 2 = 1
    OBVIOUS
  <2>3. (2 * i + 1) \div 2 = i /\ (2 * i) % 2 = 0
    <3>1. 2 \in Nat \ {0} /\ i \in Nat /\ 2 * i + 1 \in Nat /\ 2 * i \in Nat
      OBVIOUS
    <3>2. 1 \in 0 .. 2 - 1 /\ 0 \in 0 .. 2 - 1 /\ 2 * i + 1 = 2 * i + 1 /\ 2 * i = 2 * i + 0
      OBVIOUS
    <3>3. (2 * i + 1) \div 2 = i
      BY ONLY <3>1, <3>2, OneDivision
    <3>4. (2 * i) % 2 = 0
      BY ONLY <3>1, <3>2, OneDivision
    <3>. QED BY <3>3, <3>4
  <2>4. body[2 * i - 1] = Byte(runs[i][1]) /\ body[2 * i] = Byte(runs[i][2])
    BY <2>1, <2>2, <2>3 DEF Flattened
  <2>5. Byte(runs[i][1]) = runs[i][1] /\ Byte(runs[i][2]) = runs[i][2]
    BY <1>3, ByteRead
  <2>. QED BY <2>1, <2>4, <2>5
<1>5. body \in Seq(Int) /\ Len(body) = 2 * n
  <2>1. \A v : Byte(v) = v % (MaxByte + 1)
    BY DEF Byte
  <2>2. ASSUME NEW k \in 1 .. 2 * n PROVE body[k] \in Int
    <3>1. PICK i \in 1 .. n : k = 2 * i - 1 \/ k = 2 * i
      <4>1. CASE k % 2 = 1
        <5>1. (k + 1) \div 2 \in 1 .. n /\ k = 2 * ((k + 1) \div 2) - 1
          BY <4>1
        <5>. QED BY <5>1
      <4>2. CASE k % 2 = 0
        <5>1. k \div 2 \in 1 .. n /\ k = 2 * (k \div 2)
          BY <4>2
        <5>. QED BY <5>1
      <4>. QED BY <4>1, <4>2
    <3>2. body[2 * i - 1] \in Int /\ body[2 * i] \in Int
      <4>. HIDE DEF body
      <4>1. runs[i][1] \in 0 .. MaxByte /\ runs[i][2] \in 0 .. MaxByte
        BY <1>3
      <4>2. body[2 * i - 1] = runs[i][1] /\ body[2 * i] = runs[i][2]
        BY <1>4
      <4>. QED BY <1>1, <4>1, <4>2
    <3>. QED BY <3>1, <3>2
  <2>3. DOMAIN body = 1 .. 2 * n /\ body = [k \in 1 .. 2 * n |-> body[k]]
    BY DEF Flattened
  <2>4. 2 * n \in Nat
    OBVIOUS
  <2>. HIDE DEF body
  <2>5. body \in [1 .. 2 * n -> Int]
    BY <2>2, <2>3
  <2>. QED BY <2>4, <2>5, SeqDef, LenProperties
<1>. HIDE DEF body
<1>6. head \in Seq(Int) /\ Len(head) = 5
  BY <1>1
<1>7. /\ Len(all) = 5 + 2 * n
      /\ \A k \in 1 .. 5 : all[k] = head[k]
      /\ \A k \in 1 .. 2 * n : all[5 + k] = body[k]
  <2>1. PICK hd \in Seq(Int), bd \in Seq(Int) : hd = head /\ bd = body
    BY <1>5, <1>6
  <2>2. Len(hd) = 5 /\ Len(bd) = 2 * n
    BY <1>5, <1>6, <2>1
  <2>5. /\ Len(hd \o bd) = Len(hd) + Len(bd)
        /\ \A i \in 1 .. Len(hd) + Len(bd) :
             (hd \o bd)[i] = IF i <= Len(hd) THEN hd[i] ELSE bd[i - Len(hd)]
    BY ONLY <2>1, ConcatProperties
  <2>3. Len(hd \o bd) = 5 + 2 * n
    BY <2>2, <2>5
  <2>6. ASSUME NEW k \in 1 .. 5 PROVE (hd \o bd)[k] = hd[k]
    <3>1. k \in 1 .. 5 + 2 * n /\ k <= 5
      OBVIOUS
    <3>. QED BY <2>2, <2>5, <3>1
  <2>4. ASSUME NEW k \in 1 .. 2 * n PROVE (hd \o bd)[5 + k] = bd[k]
    <3>1. 5 + k \in 1 .. 5 + 2 * n /\ ~ (5 + k <= 5) /\ (5 + k) - 5 = k
      OBVIOUS
    <3>. QED BY <2>2, <2>5, <3>1
  <2>. QED BY <2>1, <2>3, <2>4, <2>6
<1>8. read = decodeImage(all)
  BY <1>2 DEF body, WrittenAs
<1>9. head[2] = t /\ head[3] = r /\ head[4] = u /\ head[5] = l
  OBVIOUS
<1>. HIDE DEF head, all
<1>10. all[2] = t /\ all[3] = r /\ all[4] = u /\ all[5] = l
  BY <1>7, <1>9
<1>11. (Len(all) - 5) \div 2 = n
  BY <1>7
<1>12. PICK box, list :
         /\ box = [top |-> t, right |-> r, bottom |-> u, left |-> l]
         /\ list = [i \in 1 .. n |-> <<all[4 + 2 * i], all[5 + 2 * i]>>]
         /\ read = [bounds |-> box, rects |-> list]
  BY <1>8, <1>10, <1>11 DEF decodeImage
<1>13. ASSUME NEW i \in 1 .. n PROVE <<all[4 + 2 * i], all[5 + 2 * i]>> = runs[i]
  <2>1. 4 + 2 * i = 5 + (2 * i - 1)
    OBVIOUS
  <2>3. all[5 + (2 * i - 1)] = body[2 * i - 1] /\ all[5 + 2 * i] = body[2 * i]
    BY <1>4, <1>7
  <2>2. all[4 + 2 * i] = runs[i][1] /\ all[5 + 2 * i] = runs[i][2]
    BY <1>4, <2>1, <2>3
  <2>. QED BY <1>3, <2>2
<1>14. read.rects = list /\ read.bounds = box
  <2>1. read = [bounds |-> box, rects |-> list]
    BY <1>12
  <2>. QED BY ONLY <2>1
<1>15. Len(list) = n /\ \A i \in 1 .. n : list[i] = runs[i]
  BY <1>12, <1>13
<1>. QED BY <1>12, <1>14, <1>15 DEF ReadBack

\* An encoded image is drawn as it was, in the palette it was encoded with or an extension.
LEMMA ImageDrawn ==
  ASSUME NEW w \in 1 .. MaxByte, NEW h \in 1 .. MaxByte, NEW image \in Images(w, h),
         NEW old, Palette(old), Known(old, image), NEW pal, Palette(pal), Extended(pal, old)
  PROVE  buildSVG(toRLE(image, old), pal) = [p \in Opaque(image) |-> image[p].color]
<1>. DEFINE b == calcBounds(image)
            data == Indexes(image, old)
            runs == encode(data)
            n == Len(runs)
            read == decodeImage(toRLE(image, old))
<1>0. MaxByte \in Nat \ {0}
  BY ImageConstants
<1>1. Translated(data, image, old)
  BY IndexesTranslate
<1>2. Translated(data, image, pal)
  <2>. HIDE DEF data
  <2>1. Len(old) \in Nat /\ Len(pal) \in Nat /\ Len(old) <= Len(pal)
    BY DEF Palette, Extended
  <2>2. \A i \in 1 .. Len(old) : i \in 1 .. Len(pal) /\ pal[i] = old[i]
    BY <2>1 DEF Extended
  <2>. QED BY <1>1, <2>2 DEF Translated
<1>3. Area(b) \in Nat
  BY ScanIs
<1>4. PICK ends : Covered(runs, ends, data, Area(b))
  <2>1. data \in [1 .. Area(b) -> 0 .. MaxByte]
    BY <1>1 DEF Translated
  <2>. HIDE DEF data, b
  <2>. QED BY <1>3, <2>1, EncodeCovers
<1>5. Bounding(b, image, w, h)
  BY BoundsHold
<1>6. b.top \in 0 .. MaxByte /\ b.right \in 0 .. MaxByte /\ b.bottom \in 0 .. MaxByte /\ b.left \in 0 .. MaxByte
  <2>. HIDE DEF b
  <2>1. w \in Nat /\ h \in Nat /\ w <= MaxByte /\ h <= MaxByte
    BY <1>0
  <2>. QED BY <1>0, <1>5, <2>1 DEF Bounding
<1>7. toRLE(image, old) = <<0, Byte(b.top), Byte(b.right), Byte(b.bottom), Byte(b.left)>> \o Flattened(runs)
  BY DEF toRLE, Indexes
<1>8. runs \in Seq(RunType) /\ n \in Nat /\ \A i \in 1 .. n : runs[i][2] \in 0 .. MaxByte
  <2>. HIDE DEF runs, data, b
  <2>. QED BY <1>4 DEF Covered
<1>9. /\ SameLines(read.bounds, b)
      /\ Len(read.rects) = n /\ \A i \in 1 .. n : read.rects[i] = runs[i]
  <2>1. read = decodeImage(<<0, Byte(b.top), Byte(b.right), Byte(b.bottom), Byte(b.left)>> \o Flattened(runs))
    BY <1>7
  <2>2. PICK t \in 0 .. MaxByte, r \in 0 .. MaxByte, u \in 0 .. MaxByte, l \in 0 .. MaxByte :
          t = b.top /\ r = b.right /\ u = b.bottom /\ l = b.left
    BY <1>6
  <2>. HIDE DEF read, runs, b
  <2>3. WrittenAs(read, runs, t, r, u, l)
    BY <2>1, <2>2 DEF WrittenAs
  <2>4. PICK m \in Nat : m = n
    BY <1>8
  <2>5. Len(runs) = m
    BY <2>4
  <2>. HIDE DEF n
  <2>6. \A i \in 1 .. m : runs[i][2] \in 0 .. MaxByte
    BY <1>8, <2>4
  <2>7. ReadBack(read, m, runs, t, r, u, l)
    BY <1>8, <2>3, <2>5, <2>6, RunsRead
  <2>8. SameLines(read.bounds, b)
    BY <2>2, <2>7 DEF ReadBack, SameLines
  <2>. QED BY <2>4, <2>7, <2>8 DEF ReadBack
<1>10. /\ \E f : Strokes(f, n, runs, read.bounds, pal)
       /\ \A f : Strokes(f, n, runs, read.bounds, pal)
                  => f[n].drawn = [p \in Opaque(image) |-> image[p].color]
  <2>1. PICK box : box = read.bounds
    OBVIOUS
  <2>2. SameLines(box, calcBounds(image)) /\ Covered(runs, ends, data, Area(calcBounds(image)))
    BY <1>4, <1>9, <2>1
  <2>. HIDE DEF read, runs, data, b
  <2>4. PICK m \in Nat : m = Len(runs)
    BY <1>8
  <2>3. AllDraw(m, runs, box, pal, image)
    BY ONLY w \in 1 .. MaxByte, h \in 1 .. MaxByte, image \in Images(w, h), <1>2, <2>2, <2>4, RunsDraw
  <2>. QED BY <2>1, <2>3, <2>4 DEF AllDraw
<1>. DEFINE Does(f) == Strokes(f, n, read.rects, read.bounds, pal)
            c == CHOOSE f : Does(f)
<1>11. ASSUME NEW f PROVE Does(f) <=> Strokes(f, n, runs, read.bounds, pal)
  <2>. HIDE DEF read, runs
  <2>1. \A i \in 0 .. n : i # 0 => read.rects[i] = runs[i]
    BY <1>8, <1>9
  <2>. QED BY <2>1 DEF Strokes
<1>12. buildSVG(toRLE(image, old), pal) = c[n].drawn
  <2>1. Len(read.rects) = n
    BY <1>9
  <2>2. buildSVG(toRLE(image, old), pal) =
          (CHOOSE f : Strokes(f, Len(read.rects), read.rects, read.bounds, pal))[Len(read.rects)].drawn
    BY DEF buildSVG, Strokes
  <2>. HIDE DEF read, runs
  <2>. QED BY <2>1, <2>2
<1>13. Does(c)
  <2>. HIDE DEF Does
  <2>. QED BY <1>10, <1>11
<1>. HIDE DEF c, Does, n, read, runs
<1>. QED BY <1>10, <1>11, <1>12, <1>13

------------------------------------------------------------
(* The collection                                                          *)

AllImages == UNION {Images(size[1], size[2]) : size \in Sizes}

Encodings == {toRLE(image, pal) : image \in AllImages, pal \in Seq(Tones)}

\* what was encoded with a palette that was extended since
EncodedWith(rle, image, pal) ==
  \E old : Palette(old) /\ Known(old, image) /\ Extended(pal, old) /\ rle = toRLE(image, old)

ImagesInv ==
  /\ Palette(colors) /\ pngs \in Seq(AllImages) /\ encoded \in Seq(Encodings)
  /\ Len(pngs) = Len(encoded)
  /\ \A i \in 1 .. Len(pngs) : EncodedWith(encoded[i], pngs[i], colors)

\* Every image has a width and a height that fit in a byte.
LEMMA ImageSize ==
  ASSUME NEW image \in AllImages
  PROVE  \E w \in 1 .. MaxByte, h \in 1 .. MaxByte : image \in Images(w, h)
<1>1. PICK size \in Sizes : image \in Images(size[1], size[2])
  BY DEF AllImages
<1>2. Sizes \subseteq (1 .. MaxByte) \X (1 .. MaxByte)
  BY ImageConstants, Zenon
<1>3. size \in (1 .. MaxByte) \X (1 .. MaxByte)
  BY <1>2
<1>4. size[1] \in 1 .. MaxByte /\ size[2] \in 1 .. MaxByte
  BY <1>3
<1>. QED BY <1>1, <1>4

\* What the palette becomes has the colors of the image, and those it had.
LEMMA ImageInserted ==
  ASSUME NEW image \in AllImages, NEW pal, Palette(pal), NEW new, new = Inserted(pal, Scan(image))
  PROVE  Palette(new) /\ Extended(new, pal) /\ Known(new, image) /\ Extended(new, new)
<1>1. PICK w \in 1 .. MaxByte, h \in 1 .. MaxByte : image \in Images(w, h)
  BY ImageSize
<1>. DEFINE b == calcBounds(image)
<1>2. PICK n \in Nat : n = Area(b)
  BY <1>1, ScanIs
<1>3. /\ Scan(image) = [i \in 1 .. n |-> image[PixelAt(b, i - 1)]]
      /\ \A i \in 1 .. n : image[PixelAt(b, i - 1)] \in PixelType
  BY <1>1, <1>2, ScanIs
<1>. HIDE DEF b
<1>4. Scan(image) \in [1 .. n -> PixelType]
  BY <1>3
<1>5. PICK pixels : pixels = Scan(image)
  OBVIOUS
<1>6. /\ Palette(Inserted(pal, pixels)) /\ Extended(Inserted(pal, pixels), pal)
      /\ \A j \in 1 .. n : Holds(Inserted(pal, pixels), pixels[j].color)
  BY <1>4, <1>5, PixelsInserted
<1>7. Known(new, image)
  BY <1>2, <1>5, <1>6 DEF Known, b
<1>8. Extended(new, new)
  BY <1>5, <1>6 DEF Extended, Palette
<1>. QED BY <1>5, <1>6, <1>7, <1>8

\* The empty collection.
LEMMA ImagesInvInit == ImagesInit => ImagesInv
<1>. SUFFICES ASSUME ImagesInit PROVE ImagesInv
  OBVIOUS
<1>1. colors = <<Clear>>
  BY Zenon DEF ImagesInit, Clear
<1>2. pngs = <<>> /\ encoded = <<>>
  BY DEF ImagesInit
<1>3. Palette(colors)
  BY <1>1 DEF Palette, Tones
<1>. QED BY <1>2, <1>3 DEF ImagesInv

\* One more image.
LEMMA ImagesInvNext == ImagesInv /\ [ImagesNext]_imageVars => ImagesInv'
<1>. SUFFICES ASSUME ImagesInv, [ImagesNext]_imageVars PROVE ImagesInv'
  OBVIOUS
<1>. USE DEF ImagesInv
<1>1. ASSUME NEW image \in AllImages, encodeImage(image) PROVE ImagesInv'
  <2>1. PICK pal, new, rle : /\ pal = colors /\ new = colors' /\ rle = toRLE(image, new)
                             /\ new = Inserted(pal, Scan(image))
    BY <1>1 DEF encodeImage
  <2>2. Palette(new) /\ Extended(new, pal) /\ Known(new, image) /\ Extended(new, new)
    BY <2>1, ImageInserted
  <2>3. rle \in Encodings
    BY <2>1, <2>2 DEF Encodings, Palette
  <2>4. PICK was \in Seq(AllImages), said \in Seq(Encodings), n \in Nat :
          was = pngs /\ said = encoded /\ n = Len(was) /\ n = Len(said)
    OBVIOUS
  <2>5. pngs' = Append(was, image) /\ encoded' = Append(said, rle)
    BY <1>1, <2>1, <2>4 DEF encodeImage
  <2>6. /\ Append(was, image) \in Seq(AllImages) /\ Len(Append(was, image)) = n + 1
        /\ Append(was, image)[n + 1] = image /\ \A i \in 1 .. n : Append(was, image)[i] = was[i]
    BY <2>4
  <2>7. /\ Append(said, rle) \in Seq(Encodings) /\ Len(Append(said, rle)) = n + 1
        /\ Append(said, rle)[n + 1] = rle /\ \A i \in 1 .. n : Append(said, rle)[i] = said[i]
    BY <2>3, <2>4
  <2>8. EncodedWith(rle, image, new)
    BY <2>1, <2>2 DEF EncodedWith
  <2>9. ASSUME NEW i \in 1 .. n PROVE EncodedWith(said[i], was[i], new)
    <3>1. EncodedWith(said[i], was[i], pal)
      BY <2>1, <2>4
    <3>2. PICK old : Palette(old) /\ Known(old, was[i]) /\ Extended(pal, old) /\ said[i] = toRLE(was[i], old)
      BY <3>1 DEF EncodedWith
    <3>3. Palette(pal)
      BY <2>1
    <3>4. Extended(new, old)
      BY ONLY <2>2, <3>2, <3>3, LaterStill
    <3>. QED BY <3>2, <3>4 DEF EncodedWith
  <2>10. ASSUME NEW i \in 1 .. n + 1 PROVE EncodedWith(encoded'[i], pngs'[i], new)
    <3>1. CASE i = n + 1
      BY <2>5, <2>6, <2>7, <2>8, <3>1
    <3>2. CASE i # n + 1
      <4>1. i \in 1 .. n
        BY <3>2
      <4>. QED BY <2>5, <2>6, <2>7, <2>9, <4>1
    <3>. QED BY <3>1, <3>2
  <2>. QED BY <2>1, <2>2, <2>5, <2>6, <2>7, <2>10
<1>2. CASE ImagesNext
  <2>1. PICK size \in Sizes : \E image \in Images(size[1], size[2]) : encodeImage(image)
    BY <1>2 DEF ImagesNext
  <2>. QED BY <1>1, <2>1 DEF AllImages
<1>3. CASE UNCHANGED imageVars
  BY <1>3 DEF imageVars
<1>. QED BY <1>2, <1>3

(***************************************************************************)
(* What toRLE wrote of an image, buildSVG draws, however many images have  *)
(* added their colors to the palette since.                                *)
(***************************************************************************)
THEOREM ImagesAreDrawn == ImagesInit /\ [][ImagesNext]_imageVars => []ImagesSurvive
<1>1. ImagesInv => ImagesSurvive
  <2>. SUFFICES ASSUME ImagesInv, NEW i \in DOMAIN pngs
                PROVE  buildSVG(encoded[i], colors) = [p \in Opaque(pngs[i]) |-> pngs[i][p].color]
    BY DEF ImagesSurvive
  <2>1. i \in 1 .. Len(pngs) /\ pngs[i] \in AllImages
    BY DEF ImagesInv
  <2>2. PICK image \in AllImages : image = pngs[i]
    BY <2>1
  <2>3. PICK w \in 1 .. MaxByte, h \in 1 .. MaxByte : image \in Images(w, h)
    BY ImageSize
  <2>4. PICK old : Palette(old) /\ Known(old, image) /\ Extended(colors, old) /\ encoded[i] = toRLE(image, old)
    BY <2>1, <2>2 DEF ImagesInv, EncodedWith
  <2>5. PICK pal : pal = colors /\ Palette(pal)
    BY DEF ImagesInv
  <2>6. buildSVG(toRLE(image, old), pal) = [p \in Opaque(image) |-> image[p].color]
    BY <2>3, <2>4, <2>5, ImageDrawn
  <2>. QED BY <2>2, <2>4, <2>5, <2>6
<1>. QED BY <1>1, ImagesInvInit, ImagesInvNext, PTL

===============================================================================
