------------------------------ MODULE AuctionBot ------------------------------
(***************************************************************************)
(* The auction half of the bots: every 30 seconds a tick asks the subgraph *)
(* for the last auction, compares the answer with what Redis says was seen *)
(* before, and announces what is new on Discord and Twitter.  setInterval  *)
(* does not wait for a tick to finish, so ticks overlap when the network   *)
(* is slow.  Redis survives a restart of the process, a tick does not.     *)
(*                                                                         *)
(* A tick stops at every await at which another tick may write what it has *)
(* read.  The calls of one handler are one step.  Whether a lot is about   *)
(* to end is a property of the lot and the clock; extensions are shorter   *)
(* than the 20 minutes of the warning.                                     *)
(***************************************************************************)
EXTENDS Integers, FiniteSets

CONSTANTS
  NoBid,
  Ticks,          \* bound: the ticks that can be under way at once
  MaxLot,         \* bound: the lots
  Hashes,         \* bound: the transactions that bid
  MaxIncidents    \* bound: how often something goes wrong

ASSUME AuctionBotConstants ==
  /\ NoBid \notin Hashes /\ Hashes \subseteq Nat /\ 0 \notin Hashes
  /\ MaxLot \in Nat /\ MaxIncidents \in Nat

Media == {"twitter", "discord"}

-------------------------------------------------------------------------------
(* The subgraph's index of the auction house (nouns-auction-house.ts), one *)
(* handler per event, as an operator from the stored entities to the       *)
(* stored entities.  An event about an auction (or, for a new auction, a   *)
(* noun) that has no entity is logged and dropped.  A bid's id is the hash *)
(* of its transaction: a second bid of one transaction replaces the first. *)

EmptyAuctionIndex == [nouns |-> {}, auctions |-> <<>>, bids |-> <<>>]

\* a new entity, or a new version of one
Saved(entities, id, entity) ==
  [key \in DOMAIN entities \cup {id} |-> IF key = id THEN entity ELSE entities[key]]

\* what the handlers of the token leave behind when a noun is minted
NounMinted(store, noun) == [store EXCEPT !.nouns = @ \cup {noun}]

handleAuctionCreated(store, noun, startTime, endTime) ==
  IF noun \notin store.nouns THEN store
  ELSE [store EXCEPT !.auctions =
          Saved(@, noun, [amount |-> 0, bidder |-> NoBid, startTime |-> startTime,
                          endTime |-> endTime, settled |-> FALSE])]

handleAuctionBid(store, noun, bidder, value, hash, block) ==
  IF noun \notin DOMAIN store.auctions THEN store
  ELSE [store EXCEPT !.auctions[noun].amount = value,
                     !.auctions[noun].bidder = bidder,
                     !.bids = Saved(@, hash, [auction |-> noun, bidder |-> bidder,
                                              amount |-> value, blockNumber |-> block])]

handleAuctionExtended(store, noun, endTime) ==
  IF noun \notin DOMAIN store.auctions THEN store
  ELSE [store EXCEPT !.auctions[noun].endTime = endTime]

handleAuctionSettled(store, noun) ==
  IF noun \notin DOMAIN store.auctions THEN store
  ELSE [store EXCEPT !.auctions[noun].settled = TRUE]

-------------------------------------------------------------------------------
(* The query of the bots: the last auction, with one bid of its last block *)
(* (the order of equal block numbers is that of the hashes).               *)

LastAuction(store) ==
  CHOOSE noun \in DOMAIN store.auctions :
    \A other \in DOMAIN store.auctions :
      store.auctions[other].startTime <= store.auctions[noun].startTime

BidsOn(store, noun) == {h \in DOMAIN store.bids : store.bids[h].auction = noun}

LastBid(store, noun) ==
  IF BidsOn(store, noun) = {} THEN NoBid
  ELSE CHOOSE h \in BidsOn(store, noun) :
         \A g \in BidsOn(store, noun) \ {h} :
           \/ store.bids[g].blockNumber < store.bids[h].blockNumber
           \/ store.bids[g].blockNumber = store.bids[h].blockNumber /\ h < g

-------------------------------------------------------------------------------

VARIABLES
  store,     \* the subgraph
  endsSoon,  \* the last lot ends within 20 minutes, or has ended
  cache,     \* Redis: NOUNS_AUCTION_CACHE, _BID_, _ENDING_SOON_, REPLY_TWEET_ID
  tick,      \* what each tick has read, and where it is
  setup,     \* setupAuction, with the id it has read
  posts,     \* the announcements made, by medium, kind and subject
  replies,   \* the lot whose thread each bid was tweeted in
  glitches,  \* history: requests that failed before anything was cached
  mishaps,   \* history: announcements that failed, and restarts
  overlaps   \* history: ticks that began before a tick or the setup had ended

auctionBotVars ==
  <<store, endsSoon, cache, tick, setup, posts, replies, glitches, mishaps, overlaps>>

NoLot  == 0
NoTick == [at |-> "idle", cached |-> [auction |-> NoLot, bid |-> NoBid, ending |-> NoLot],
           lot |-> NoLot, bid |-> NoBid]

Blocks == {store.bids[h].blockNumber : h \in DOMAIN store.bids}

Subjects ==
  [kind : {"lot", "ending"}, of : 1 .. MaxLot] \cup [kind : {"bid"}, of : Hashes]

Posted(medium, kind, subject) == posts[medium, [kind |-> kind, of |-> subject]]

\* the first lot is on sale when the bots are started for the first time
AuctionBotInit ==
  /\ store = handleAuctionCreated(NounMinted(EmptyAuctionIndex, 1), 1, 1, 2)
  /\ endsSoon = FALSE
  /\ cache = [auction |-> NoLot, bid |-> NoBid, ending |-> NoLot, reply |-> NoLot]
  /\ tick = [t \in Ticks |-> NoTick]
  /\ setup = [at |-> "start", lot |-> NoLot]
  /\ posts = [p \in Media \X Subjects |-> 0]
  /\ replies = [h \in Hashes |-> NoLot]
  /\ glitches = 0
  /\ mishaps = 0
  /\ overlaps = 0

-------------------------------------------------------------------------------
(* The auction house, through its events.  A lot is settled when the next  *)
(* one is created.  The bids of one block reach the subgraph together.     *)

houseUnseen == <<cache, tick, setup, posts, replies, glitches, mishaps, overlaps>>

LotAuctioned ==
  LET lot == LastAuction(store)
  IN  /\ lot < MaxLot
      /\ endsSoon
      /\ store' = handleAuctionCreated(
                    NounMinted(handleAuctionSettled(store, lot), lot + 1),
                    lot + 1, lot + 1, lot + 2)
      /\ endsSoon' = FALSE
      /\ UNCHANGED houseUnseen

\* late bids extend the auction
BidsPlaced(hashes, extending) ==
  LET lot   == LastAuction(store)
      block == Cardinality(Blocks) + 1
      Bid(s, h) == handleAuctionBid(s, lot, h, 10 * block + h, h, block)
      first == CHOOSE h \in hashes : TRUE
      bids  == IF hashes = {first} THEN Bid(store, first)
               ELSE Bid(Bid(store, first), CHOOSE h \in hashes \ {first} : TRUE)
  IN  /\ hashes \subseteq Hashes \ DOMAIN store.bids
      /\ extending => endsSoon
      /\ store' = IF extending
                  THEN handleAuctionExtended(bids, lot, lot + 3)
                  ELSE bids
      /\ UNCHANGED <<endsSoon, houseUnseen>>

TimePasses ==
  /\ ~endsSoon
  /\ endsSoon' = TRUE
  /\ UNCHANGED <<store, houseUnseen>>

-------------------------------------------------------------------------------
(* One tick *)

At(t, where) == tick[t].at = where
Goes(t, where) == tick' = [tick EXCEPT ![t].at = where]
Ends(t) == tick' = [tick EXCEPT ![t] = NoTick]

MayGoWrong == glitches + mishaps + overlaps < MaxIncidents

Glitch == MayGoWrong /\ glitches' = glitches + 1
Mishap == MayGoWrong /\ mishaps' = mishaps + 1

unread == <<store, endsSoon, setup>>

\* setInterval; the three caches are read
StartTick(t) ==
  /\ At(t, "idle")
  /\ tick' = [tick EXCEPT ![t] =
                [NoTick EXCEPT !.at = "asking",
                   !.cached = [auction |-> cache.auction, bid |-> cache.bid,
                               ending |-> cache.ending]]]
  /\ IF setup.at = "done" /\ \A u \in Ticks : At(u, "idle")
     THEN UNCHANGED overlaps
     ELSE MayGoWrong /\ overlaps' = overlaps + 1
  /\ UNCHANGED <<unread, cache, posts, replies, glitches, mishaps>>

\* getLastAuctionBids
Answered(t) ==
  LET lot == LastAuction(store)
  IN  /\ At(t, "asking")
      /\ \/ /\ tick' = [tick EXCEPT ![t].at = "answered", ![t].lot = lot,
                                    ![t].bid = LastBid(store, lot)]
            /\ UNCHANGED glitches
         \/ Glitch /\ Ends(t)
      /\ UNCHANGED <<unread, cache, posts, replies, mishaps, overlaps>>

NewLot(t) == tick[t].cached.auction < tick[t].lot

\* seeded error: the cache is updated before the counter, whose failure then
\* loses the announcement
CacheAuctionFirst(t) ==
  /\ At(t, "answered")
  /\ IF ~NewLot(t) THEN Goes(t, "counting") /\ UNCHANGED <<cache, glitches>>
     ELSE /\ cache' = [cache EXCEPT !.auction = tick[t].lot]
          /\ \/ Goes(t, "cached lot") /\ UNCHANGED glitches
             \/ Glitch /\ Ends(t)
  /\ UNCHANGED <<unread, posts, replies, mishaps, overlaps>>

\* incrementCounter(auctions_discovered), then updateAuctionCache
CacheAuction(t) ==
  /\ At(t, "answered")
  /\ \/ ~NewLot(t) /\ Goes(t, "counting") /\ UNCHANGED <<cache, glitches>>
     \/ /\ NewLot(t)
        /\ cache' = [cache EXCEPT !.auction = tick[t].lot]
        /\ Goes(t, "cached lot")
        /\ UNCHANGED glitches
     \/ NewLot(t) /\ Glitch /\ Ends(t) /\ UNCHANGED cache
  /\ UNCHANGED <<unread, posts, replies, mishaps, overlaps>>

\* the media the handlers reach: if one fails, the other is reached all the
\* same, but the tick ends
Reaching(t, next, reached) ==
  IF reached = Media THEN Goes(t, next) /\ UNCHANGED mishaps
  ELSE Mishap /\ Ends(t)

\* without a picture a handler does nothing, and does not fail
ReachingSilently(t, next, reached) ==
  \/ Reaching(t, next, reached)
  \/ /\ reached # Media
     /\ Mishap
     /\ Goes(t, next)

\* 2 stands for more than once
PostedOn(media, kind, subject) ==
  [p \in Media \X Subjects |->
     IF p[1] \in media /\ p[2] = [kind |-> kind, of |-> subject] /\ posts[p] < 2
     THEN posts[p] + 1 ELSE posts[p]]

\* seeded error: the reply id is not updated
AnnounceAuctionUnthreaded(t) ==
  /\ At(t, "cached lot")
  /\ \E reached \in SUBSET Media :
       /\ ReachingSilently(t, "counting", reached)
       /\ posts' = PostedOn(reached, "lot", tick[t].lot)
       /\ cache' = IF "twitter" \in reached /\ cache.reply = NoLot
                   THEN [cache EXCEPT !.reply = tick[t].lot] ELSE cache
  /\ UNCHANGED <<unread, replies, glitches, overlaps>>

\* handleNewAuction: the tweet starts the thread of the lot
AnnounceAuction(t) ==
  /\ At(t, "cached lot")
  /\ \E reached \in SUBSET Media :
       /\ ReachingSilently(t, "counting", reached)
       /\ posts' = PostedOn(reached, "lot", tick[t].lot)
       /\ cache' = IF "twitter" \in reached THEN [cache EXCEPT !.reply = tick[t].lot] ELSE cache
  /\ UNCHANGED <<unread, replies, glitches, overlaps>>

NewBid(t) == tick[t].bid # NoBid /\ tick[t].cached.bid # tick[t].bid

\* seeded error: the bid is cached when its announcement has been made
CacheBidAfterwards(t) ==
  /\ At(t, "counting")
  /\ IF NewBid(t)
     THEN /\ posts' = PostedOn(Media, "bid", tick[t].bid)
          /\ \/ Goes(t, "announced bid") /\ cache' = [cache EXCEPT !.bid = tick[t].bid]
             \/ Ends(t) /\ UNCHANGED cache
     ELSE Goes(t, "announced bid") /\ UNCHANGED <<cache, posts>>
  /\ UNCHANGED <<unread, replies, glitches, mishaps, overlaps>>

\* the counters auction_cache_updates and auction_process_last_auction, then
\* updateBidCache
CacheBid(t) ==
  /\ At(t, "counting")
  /\ \/ /\ NewBid(t)
        /\ Goes(t, "cached bid")
        /\ cache' = [cache EXCEPT !.bid = tick[t].bid]
        /\ UNCHANGED glitches
     \/ ~NewBid(t) /\ Goes(t, "announced bid") /\ UNCHANGED <<cache, glitches>>
     \/ Glitch /\ Ends(t) /\ UNCHANGED cache
  /\ UNCHANGED <<unread, posts, replies, mishaps, overlaps>>

\* handleNewBid: Twitter replies to the last tweet, or does nothing if there is none
AnnounceBid(t) ==
  /\ At(t, "cached bid")
  /\ \E reached \in SUBSET Media :
       LET tweeted == "twitter" \in reached /\ cache.reply # NoLot
       IN  /\ Reaching(t, "announced bid", reached)
           /\ posts' = PostedOn(IF tweeted THEN reached ELSE reached \ {"twitter"},
                                "bid", tick[t].bid)
           /\ replies' = IF tweeted THEN [replies EXCEPT ![tick[t].bid] = cache.reply]
                         ELSE replies
  /\ UNCHANGED <<unread, cache, glitches, overlaps>>

EndsSoon(lot) == lot < LastAuction(store) \/ endsSoon

\* updateAuctionEndingSoonCache
CacheEnding(t) ==
  /\ At(t, "announced bid")
  /\ IF EndsSoon(tick[t].lot) /\ tick[t].cached.ending < tick[t].lot
     THEN Goes(t, "cached ending") /\ cache' = [cache EXCEPT !.ending = tick[t].lot]
     ELSE Ends(t) /\ UNCHANGED cache
  /\ UNCHANGED <<unread, posts, replies, glitches, mishaps, overlaps>>

\* handleAuctionEndingSoon: only Twitter has one
AnnounceEnding(t) ==
  /\ At(t, "cached ending")
  /\ Ends(t)
  /\ \/ /\ posts' = PostedOn(IF cache.reply # NoLot THEN {"twitter"} ELSE {},
                             "ending", tick[t].lot)
        /\ UNCHANGED mishaps
     \/ Mishap /\ UNCHANGED posts
  /\ UNCHANGED <<unread, cache, replies, glitches, overlaps>>

TickStep(t) ==
  \/ StartTick(t) \/ Answered(t)
  \/ CacheAuction(t) \/ AnnounceAuction(t)
  \/ CacheBid(t) \/ AnnounceBid(t)
  \/ CacheEnding(t) \/ AnnounceEnding(t)

-------------------------------------------------------------------------------
(* The process *)

\* setupAuction asks for the last auction and, later, makes it the one seen
SetupAsks ==
  /\ setup.at = "start"
  /\ setup' = [at |-> "asked", lot |-> LastAuction(store)]
  /\ UNCHANGED <<store, endsSoon, cache, tick, posts, replies, glitches, mishaps, overlaps>>

SetupStores ==
  /\ setup.at = "asked"
  /\ cache' = [cache EXCEPT !.auction = setup.lot]
  /\ setup' = [at |-> "done", lot |-> NoLot]
  /\ UNCHANGED <<store, endsSoon, tick, posts, replies, glitches, mishaps, overlaps>>

SetupFails ==
  /\ setup.at = "start"
  /\ Glitch
  /\ setup' = [at |-> "done", lot |-> NoLot]
  /\ UNCHANGED <<store, endsSoon, cache, tick, posts, replies, mishaps, overlaps>>

RestartAuctionBot ==
  /\ Mishap
  /\ tick' = [t \in Ticks |-> NoTick]
  /\ setup' = [at |-> "start", lot |-> NoLot]
  /\ UNCHANGED <<store, endsSoon, cache, posts, replies, glitches, overlaps>>

SetupStep == SetupAsks \/ SetupStores \/ SetupFails

AuctionBotNext ==
  \/ LotAuctioned
  \/ \E hashes \in SUBSET Hashes, extending \in BOOLEAN :
       Cardinality(hashes) \in 1 .. 2 /\ BidsPlaced(hashes, extending)
  \/ TimePasses
  \/ \E t \in Ticks : TickStep(t)
  \/ SetupStep
  \/ RestartAuctionBot

\* the interval keeps firing, and every request is answered in the end
AuctionBotFairness ==
  /\ WF_auctionBotVars(SetupStep)
  /\ \A t \in Ticks : WF_auctionBotVars(TickStep(t))

-------------------------------------------------------------------------------

(***************************************************************************)
(* Every lot, bid and warning is announced at most once on each medium, as *)
(* long as no tick starts before the last one and the setup have finished; *)
(* not even a failure or a restart half way makes the bots repeat an       *)
(* announcement, for the caches are written first.                         *)
(***************************************************************************)
AnnouncedOnce ==
  overlaps > 0 \/ \A p \in DOMAIN posts : posts[p] <= 1

(***************************************************************************)
(* A bid is tweeted as a reply in the thread of its own lot unless the     *)
(* announcement of a lot failed, the lot was on sale when the bots were    *)
(* started and so never announced (the thread is then that of an older     *)
(* lot), or ticks overlapped.                                              *)
(***************************************************************************)
RepliesStayInThread ==
  \A h \in DOMAIN store.bids :
    \/ replies[h] \in {NoLot, store.bids[h].auction}
    \/ mishaps > 0 \/ overlaps > 0

(***************************************************************************)
(* As long as no announcement fails and nobody restarts the bots, the lot  *)
(* on sale is announced in the end if it came after the setup, and so is a *)
(* leading bid that is alone in its block.  Failed queries and counters    *)
(* only delay it, and so do overlapping ticks that write older ids into    *)
(* the caches.                                                             *)
(***************************************************************************)
LotUnseen ==
  LET lot == LastAuction(store)
  IN  setup.at = "done" /\ cache.auction < lot

LeaderUnseen ==
  LET leader == LastBid(store, LastAuction(store))
  IN  /\ leader # NoBid
      /\ Posted("discord", "bid", leader) = 0
      /\ \A h \in DOMAIN store.bids \ {leader} :
           store.bids[h].blockNumber # store.bids[leader].blockNumber

LatestIsAnnounced ==
  /\ LotUnseen ~> Posted("discord", "lot", LastAuction(store)) > 0 \/ mishaps > 0
  /\ []<>(~LeaderUnseen \/ mishaps > 0)
===============================================================================
