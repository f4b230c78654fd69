-------------------------------- MODULE Explore --------------------------------
(***************************************************************************)
(* The page of all nouns.  A grid lists them, newest first: a few at once, *)
(* then ranges fetched one after another and put in by their position.     *)
(* The detail beside it shows one noun, found by its position, and its     *)
(* seed, which the app keeps once it has asked the chain for it.           *)
(***************************************************************************)
EXTENDS Integers, Sequences

CONSTANTS
  Counts,        \* how many nouns there may be when the page is opened
  InitialChunk,  \* initialChunkSize, 10 in the code
  RangeChunk,    \* rangeChunkSize, 100 in the code
  RowLength,     \* amountToMove, the nouns in a row
  NewNouns,      \* bound: auctions that start while the page is open
  MaxAstray,     \* bound: how far the arrows lead before the page has a count
  SeedIds,       \* the nouns whose seed is asked for
  ZeroSeeds      \* those minted with the first of everything, a seed of zeros

ASSUME ExploreConstants ==
  /\ {InitialChunk, RangeChunk, RowLength} \subseteq Nat \ {0} /\ {NewNouns, MaxAstray} \subseteq Nat
  /\ Counts \subseteq Nat /\ \A n \in Counts : n >= InitialChunk + 2
  /\ ZeroSeeds \subseteq SeedIds

VARIABLES
  minted,            \* on chain: the nouns there are
  nounCount,         \* what the page knows, or -1
  nounsList,         \* the ids in the grid; Null is a placeholder
  individualNouns,   \* how many were put in at once, the last time
  ranges,            \* the fetches under way: [count, before, start, end]
  flawless,          \* observed: no fetch failed, and there was one count
  isMobile,          \* the width of the window, which stays
  selectedNoun,      \* undefined, which is {}, or {id}
  isSidebarVisible, activeNoun, sortOrder,
  seedCache          \* undefined, or the seeds kept: [ids, zero]

Null == -1
gridVars == <<nounsList, individualNouns, ranges, flawless>>
detailVars == <<isSidebarVisible, selectedNoun, activeNoun, sortOrder>>
exploreVars == <<minted, nounCount, gridVars, isMobile, detailVars, seedCache>>

Placeholders == [i \in 1..RangeChunk |-> Null]
Downwards(from, to) == [i \in 1..from - to + 1 |-> from - i + 1]
NoSeeds == [loaded |-> FALSE, ids |-> {}, zero |-> {}]

ExploreInit ==
  /\ minted \in Counts /\ nounCount = -1
  /\ nounsList = Placeholders /\ individualNouns = 0 /\ ranges = {} /\ flawless = TRUE
  /\ isMobile \in BOOLEAN /\ isSidebarVisible = ~isMobile
  /\ selectedNoun = {} /\ activeNoun = -1 /\ sortOrder = "date-descending"
  /\ seedCache = NoSeeds

-------------------------------------------------------------------------------
(* the grid *)

\* the range that ends before noun i; the closure that puts it in has the number of
\* individual nouns of the rendering before
RangeBefore(i, count, before) ==
  IF i < 0 THEN {}
  ELSE {[count |-> count, before |-> before, end |-> i - 1,
         start |-> IF i < RangeChunk THEN 0 ELSE i - RangeChunk]}

\* the page hears of the noun on auction: getInitialNouns
AuctionKnown ==
  LET count == (minted % InitialChunk) + 1 IN
  /\ nounCount # minted /\ nounCount' = minted
  /\ nounsList' = Downwards(minted - 1, minted - count) \o Placeholders
  /\ individualNouns' = count
  /\ ranges' = ranges \union RangeBefore(minted - count, minted, individualNouns)
  /\ flawless' = (flawless /\ nounCount = -1)
  /\ IF isMobile THEN UNCHANGED <<selectedNoun, activeNoun>>
     ELSE selectedNoun' = {minted - 1} /\ activeNoun' = minted - 1
  /\ UNCHANGED <<minted, isMobile, isSidebarVisible, sortOrder, seedCache>>

AtMostAll(list, length) == SubSeq(list, 1, IF length < Len(list) THEN length ELSE Len(list))

\* seeded error: the range goes in one place further down
PutInTooLow(list, r) ==
  LET kept == IF list[r.before + 2] = Null THEN r.before ELSE r.count - r.end
  IN  AtMostAll(list, kept) \o Downwards(r.end, r.start)

\* by its position, or behind the individual nouns if there is nothing else
PutIn(list, r) ==
  LET kept == IF list[r.before + 2] = Null THEN r.before ELSE r.count - 1 - r.end
  IN  AtMostAll(list, kept) \o Downwards(r.end, r.start)

NextRange(r) == ranges' = (ranges \ {r}) \union
                            RangeBefore(r.end + 1 - RangeChunk, r.count, r.before)

\* an answer; reading an element that is not there breaks the page, which stays as it is
RangeAnswered(r) ==
  /\ r.before + 2 <= Len(nounsList)
  /\ nounsList' = PutIn(nounsList, r)
  /\ NextRange(r)
  /\ UNCHANGED <<minted, nounCount, individualNouns, flawless, isMobile, detailVars, seedCache>>

\* the chain goes on with the next range
RangeFails(r) ==
  /\ NextRange(r)
  /\ flawless' = FALSE
  /\ UNCHANGED <<minted, nounCount, nounsList, individualNouns, isMobile, detailVars, seedCache>>

AuctionStarts ==
  /\ \E n \in Counts : minted < n + NewNouns
  /\ minted' = minted + 1
  /\ UNCHANGED <<nounCount, gridVars, isMobile, detailVars, seedCache>>

-------------------------------------------------------------------------------
(* the noun beside it: arrows and order can be used before the page has a count, -1, *)
(* and lead to nouns there are not, which lasts until it has one                      *)

Unchanged == UNCHANGED <<minted, nounCount, gridVars, isMobile, seedCache>>

Listed == {nounsList[i] : i \in DOMAIN nounsList} \ {Null}

\* handleFocusNoun
Focus(id) ==
  /\ selectedNoun' = {id} /\ activeNoun' = id /\ isSidebarVisible' = TRUE
  /\ UNCHANGED sortOrder

FocusNoun == /\ \E id \in Listed : Focus(id)
             /\ Unchanged

HoverNoun == /\ activeNoun' \in Listed
             /\ Unchanged /\ UNCHANGED <<isSidebarVisible, selectedNoun, sortOrder>>

LeaveNoun == /\ activeNoun' \in selectedNoun
             /\ Unchanged /\ UNCHANGED <<isSidebarVisible, selectedNoun, sortOrder>>

\* which way an arrow goes
Onwards(direction) ==
  IF (sortOrder = "date-ascending") = (direction = "next") THEN 1 ELSE -1

Disabled(direction) ==
  activeNoun = (IF Onwards(direction) = 1 THEN nounCount - 1 ELSE 0)

\* the arrows of the detail, and swiping
handleNounNavigation(direction) ==
  /\ isSidebarVisible /\ ~Disabled(direction)
  /\ activeNoun' = activeNoun + Onwards(direction) /\ selectedNoun' = {activeNoun'}
  /\ nounCount < 0 => activeNoun' \in -MaxAstray..MaxAstray
  /\ Unchanged /\ UNCHANGED <<isSidebarVisible, sortOrder>>

\* a key pressed, one at a time: sideways, or a row up or down
KeyPressed(direction, steps) ==
  \E id \in selectedNoun :
    LET to == id + steps * Onwards(direction) IN
    /\ id >= 0 /\ IF Onwards(direction) = 1 THEN to < nounCount ELSE to >= 0
    /\ Focus(to)
    /\ Unchanged

\* sortOptions
SortOrders == {"date-ascending", "date-descending"}

handleSortOrderChange(order) ==
  /\ order # sortOrder /\ sortOrder' = order
  /\ IF isMobile \/ ~isSidebarVisible THEN UNCHANGED <<selectedNoun, activeNoun>>
     ELSE /\ activeNoun' = (IF sortOrder = "date-ascending" THEN nounCount - 1 ELSE 0)
          /\ selectedNoun' = {activeNoun'}
  /\ Unchanged /\ UNCHANGED isSidebarVisible

handleCloseDetail ==
  /\ isSidebarVisible
  /\ isSidebarVisible' = FALSE /\ activeNoun' = -1 /\ selectedNoun' = {}
  /\ Unchanged /\ UNCHANGED sortOrder

-------------------------------------------------------------------------------
(* its seed *)

KeepsDetail == UNCHANGED <<minted, nounCount, gridVars, isMobile, detailVars>>

\* useNounSeeds: the subgraph's seeds, if there are none yet
SeedsQueried ==
  /\ ~seedCache.loaded
  /\ LET ids == {id \in SeedIds : id < minted}
     IN  seedCache' = [loaded |-> ids # {}, ids |-> ids, zero |-> ids \intersect ZeroSeeds]
  /\ KeepsDetail

\* isSeedValid, of the chain's answer: zeros for a noun there is not, as for some there are
KeepsSeed(id) == seedCache.loaded /\ id < minted /\ id \notin ZeroSeeds

\* useNounSeed, of a noun in the address or in the detail
SeedAnswered(id) ==
  /\ id \notin seedCache.ids /\ KeepsSeed(id)
  /\ seedCache' = [seedCache EXCEPT
       !.ids = @ \union {id},
       !.zero = IF id < minted /\ id \notin ZeroSeeds THEN @ ELSE @ \union {id}]
  /\ KeepsDetail

ExploreNext ==
  \/ AuctionKnown \/ AuctionStarts
  \/ \E r \in ranges : RangeAnswered(r) \/ RangeFails(r)
  \/ FocusNoun \/ HoverNoun \/ LeaveNoun \/ handleCloseDetail
  \/ \E direction \in {"prev", "next"} :
       handleNounNavigation(direction) \/ KeyPressed(direction, 1)
                                       \/ KeyPressed(direction, RowLength)
  \/ \E order \in SortOrders : handleSortOrderChange(order)
  \/ SeedsQueried \/ \E id \in SeedIds : SeedAnswered(id)

ExploreSpec == ExploreInit /\ [][ExploreNext]_exploreVars

\* noun={[...nounsList].reverse()[activeNoun]}
DetailNoun ==
  LET i == Len(nounsList) - activeNoun
  IN  IF i \in DOMAIN nounsList THEN nounsList[i] ELSE Null

\* ExploreNounDetail asks for the seed of the noun, or of noun 0 while there is none
DetailSeed == IF DetailNoun = Null THEN 0 ELSE DetailNoun

\* getOrderedTraits: whether the seed kept gives the first of every trait; while there
\* is no seed, the traits say that they are loading
FirstTraits == DetailSeed \in seedCache.zero

\* a noun's traits and links; while there is no noun, that it is loading
DetailShown == [noun |-> DetailNoun, firstTraits |-> DetailNoun # Null /\ FirstTraits]

(***************************************************************************)
(* If no fetch failed, no auction started meanwhile and more than one noun *)
(* was put in at once, the grid ends as all nouns, newest first, and the   *)
(* detail as the noun pointed at.  Once the page has a count, a noun that  *)
(* is selected, or shown beside the grid, is one there is, whatever was    *)
(* pressed before and after in whatever order; and a seed that was kept is *)
(* the one the noun was minted with (ExploreGrid, the handlers of          *)
(* pages/Explore, isSeedValid).                                            *)
(***************************************************************************)
ExploreShowsNouns ==
  /\ flawless /\ nounCount >= 0 /\ ranges = {} /\ individualNouns > 1 =>
       /\ nounsList = Downwards(nounCount - 1, 0)
       /\ activeNoun >= 0 =>
            DetailShown = [noun        |-> activeNoun,
                           firstTraits |-> activeNoun \in seedCache.ids \intersect ZeroSeeds]
  /\ nounCount >= 0 => /\ selectedNoun \subseteq 0..nounCount - 1
                       /\ isSidebarVisible => activeNoun \in 0..nounCount - 1
  /\ seedCache.zero \intersect 0..minted - 1 \subseteq ZeroSeeds
===============================================================================
