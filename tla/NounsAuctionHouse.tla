--------------------------- MODULE NounsAuctionHouse ---------------------------
(***************************************************************************)
(* NounsAuctionHouse.sol, together with the token it mints from            *)
(* (NounsToken), the accounts that bid, and WETH as far as the house uses  *)
(* it.  Every external function is one transaction.                        *)
(*                                                                         *)
(* The auction's end is kept as the time left, endTime - block.timestamp   *)
(* (0 once it has passed), and so is the end of the Nouns DAO's share, so  *)
(* that time is not bounded.  An account in RejectsETH lets a transfer of  *)
(* ETH with 30,000 gas fail; with so little gas, and with nonReentrant on  *)
(* every entry, a receiver cannot change the house's state.                *)
(***************************************************************************)
EXTENDS NounsToken, FiniteSetsExt

CONSTANTS
  House,           \* address(this), the minter it was deployed for
  HallOfFame,      \* halloffame
  NounsTreasury,   \* nounsDAOTreasury
  Bidders,
  RejectsETH,      \* the accounts whose receive function fails
  StartIds,        \* bound: the next noun id when the house is deployed
  Budget,          \* bound: the ETH each bidder has
  ShareTime,       \* proceedsShareEndTime, as time from the deployment
  Duration,        \* duration
  TimeBuffers, ReservePrices, Percentages,  \* bounds: what may be configured
  NotYet           \* no value

ASSUME AuctionConstants ==
  /\ Duration \in Nat /\ Budget \in Nat /\ ShareTime \in Nat
  /\ TimeBuffers \subseteq Nat /\ ReservePrices \subseteq Nat
  /\ Percentages \subseteq 0 .. 255 /\ StartIds \subseteq Nat
  /\ Nouns \subseteq Nat /\ IsFiniteSet(Nouns)

\* the house neither bids nor receives proceeds; nobody is address(0)
ASSUME PartiesDiffer ==
  /\ House \notin Bidders \cup {DAO, NounsTreasury}
  /\ Zero \notin Bidders \cup Nouns
  /\ NotYet \notin [winner : Bidders \cup {HallOfFame}, amount : Nat]

VARIABLES
  paused,
  timeBuffer, reservePrice, minBidIncrementPercentage,
  shareTimeLeft,  \* proceedsShareEndTime - block.timestamp
  auction,        \* auction, without its end
  timeLeft,       \* auction.endTime - block.timestamp
  eth, weth,      \* what everybody owns
  settlements     \* the AuctionSettled events: winner and price of each noun

configVars == <<timeBuffer, reservePrice, minBidIncrementPercentage>>
moneyVars  == <<eth, weth>>
houseVars  == <<paused, configVars, shareTimeLeft, auction, timeLeft,
                moneyVars, settlements>>
vars       == <<tokenVars, houseVars>>

Parties == Bidders \cup {House, DAO, NounsTreasury}

\* after initialize(): paused, no auction yet
Init ==
  /\ currentNounId \in StartIds
  /\ nounOwner = [id \in Nouns |-> Zero]
  /\ minter = House
  /\ unoundersDAO = Unounders
  /\ isMinterLocked = FALSE
  /\ isDescriptorLocked = FALSE
  /\ artReady = TRUE
  /\ paused = TRUE
  /\ timeBuffer \in TimeBuffers
  /\ reservePrice \in ReservePrices \ {0}
  /\ minBidIncrementPercentage \in Percentages \cap 0 .. 100
  /\ shareTimeLeft = ShareTime
  /\ auction = [unounId |-> 0, amount |-> 0, started |-> FALSE,
                bidder |-> Zero, settled |-> FALSE]
  /\ timeLeft = 0
  /\ eth = [p \in Parties |-> IF p \in Bidders THEN Budget ELSE 0]
  /\ weth = [p \in Parties |-> 0]
  /\ settlements = [id \in Nouns |-> NotYet]

\* an auction runs, or has ended and waits for its settlement
Unsettled == auction.started /\ ~auction.settled

-------------------------------------------------------------------------------
(* Money: _safeTransferETHWithFallback from the house to `to', given the   *)
(* ETH balances at that point of the transaction.                          *)

CanPay(ethNow, amount) == ethNow[House] >= amount

EthPaid(ethNow, to, amount) ==
  [ethNow EXCEPT ![House] = @ - amount,
                 ![to] = IF to \in RejectsETH THEN @ ELSE @ + amount]

WethPaid(to, amount) ==
  [weth EXCEPT ![to] = IF to \in RejectsETH THEN @ + amount ELSE @]

-------------------------------------------------------------------------------
(* Settling and creating, the two halves of the settlement.                *)

CanSettle ==
  /\ Unsettled
  /\ timeLeft = 0
  /\ nounOwner[auction.unounId] = House
  /\ CanPay(eth, auction.amount)

\* Seeded error: the Nouns DAO's treasury gets a share of every noun.
BeneficiaryOfEveryNoun ==
  IF shareTimeLeft > 0 THEN NounsTreasury ELSE DAO

Beneficiary ==
  IF shareTimeLeft > 0 /\ auction.unounId % 100 = 88 THEN NounsTreasury ELSE DAO

\* who gets the noun
AuctionWinner == IF auction.bidder = Zero THEN HallOfFame ELSE auction.bidder

\* the owners of the nouns after the settlement
SettledOwners == [nounOwner EXCEPT ![auction.unounId] = AuctionWinner]

\* what _settleAuction changes, besides auction.settled and the owners
Settle ==
  /\ CanSettle
  /\ settlements' = [settlements EXCEPT ![auction.unounId] =
                      [winner |-> AuctionWinner, amount |-> auction.amount]]
  /\ IF auction.amount > 0
     THEN /\ eth' = EthPaid(eth, Beneficiary, auction.amount)
          /\ weth' = WethPaid(Beneficiary, auction.amount)
     ELSE UNCHANGED moneyVars

\* Seeded error: the revert of the mint is not caught.
CreateAuctionUncaught(auc, own, pausedNow) ==
  /\ Mint(House, own)
  /\ auction' = [unounId |-> MintedId, amount |-> 0, started |-> TRUE,
                 bidder |-> Zero, settled |-> FALSE]
  /\ timeLeft' = Duration
  /\ paused' = pausedNow

\* _createAuction, after the record `auc' and the owners `own': a mint that
\* reverts with a reason pauses the house, a panic reverts everything
CreateAuction(auc, own, pausedNow) ==
  \/ /\ Mint(House, own)
     /\ auction' = [unounId |-> MintedId, amount |-> 0, started |-> TRUE,
                    bidder |-> Zero, settled |-> FALSE]
     /\ timeLeft' = Duration
     /\ paused' = pausedNow
  \/ /\ MintReverts(House)
     /\ auction' = auc
     /\ nounOwner' = own
     /\ paused' = TRUE
     /\ UNCHANGED <<timeLeft, currentNounId, settingVars>>

-------------------------------------------------------------------------------

SettleCurrentAndCreateNewAuction ==
  /\ ~paused
  /\ Settle
  /\ CreateAuction([auction EXCEPT !.settled = TRUE], SettledOwners, FALSE)
  /\ UNCHANGED <<configVars, shareTimeLeft>>

SettleAuction ==
  /\ paused
  /\ Settle
  /\ auction' = [auction EXCEPT !.settled = TRUE]
  /\ nounOwner' = SettledOwners
  /\ UNCHANGED <<paused, configVars, shareTimeLeft, timeLeft, currentNounId,
                 settingVars>>

\* Seeded error: the increment is not added to the last bid.
MinBidOfIncrement == (auction.amount * minBidIncrementPercentage) \div 100

\* the percentage is taken of whole wei, rounded down
MinBid ==
  auction.amount + (auction.amount * minBidIncrementPercentage) \div 100

\* Seeded error: the last bidder is refunded after the new bid is stored.
CreateBidThenRefund(b, unounId, v) ==
  /\ v <= eth[b]
  /\ auction.unounId = unounId
  /\ timeLeft > 0
  /\ v >= MinBid /\ v >= reservePrice
  /\ LET received == [eth EXCEPT ![b] = @ - v, ![House] = @ + v]
     IN  IF auction.bidder = Zero
         THEN eth' = received /\ weth' = weth
         ELSE /\ eth' = EthPaid(received, auction.bidder, v)
              /\ weth' = WethPaid(auction.bidder, v)
  /\ auction' = [auction EXCEPT !.amount = v, !.bidder = b]
  /\ timeLeft' = IF timeLeft < timeBuffer THEN timeBuffer ELSE timeLeft
  /\ UNCHANGED <<tokenVars, paused, configVars, shareTimeLeft, settlements>>

\* not stopped by a pause; the refund goes out before the record changes
CreateBid(b, unounId, v) ==
  /\ v <= eth[b]
  /\ auction.unounId = unounId
  /\ timeLeft > 0
  /\ v >= reservePrice
  /\ v >= MinBid
  /\ LET received == [eth EXCEPT ![b] = @ - v, ![House] = @ + v]
     IN  IF auction.bidder = Zero
         THEN eth' = received /\ weth' = weth
         ELSE /\ CanPay(received, auction.amount)
              /\ eth' = EthPaid(received, auction.bidder, auction.amount)
              /\ weth' = WethPaid(auction.bidder, auction.amount)
  /\ auction' = [auction EXCEPT !.amount = v, !.bidder = b]
  /\ timeLeft' = IF timeLeft < timeBuffer THEN timeBuffer ELSE timeLeft
  /\ UNCHANGED <<tokenVars, paused, configVars, shareTimeLeft, settlements>>

Pause ==
  /\ ~paused
  /\ paused' = TRUE
  /\ UNCHANGED <<tokenVars, configVars, shareTimeLeft, auction, timeLeft,
                 moneyVars, settlements>>

\* Seeded error: an auction is created although one is not settled.
UnpauseCreating ==
  /\ paused
  /\ CreateAuction(auction, nounOwner, FALSE)
  /\ UNCHANGED <<configVars, shareTimeLeft, moneyVars, settlements>>

Unpause ==
  /\ paused
  /\ IF ~auction.started \/ auction.settled
     THEN CreateAuction(auction, nounOwner, FALSE)
     ELSE paused' = FALSE /\ UNCHANGED <<tokenVars, auction, timeLeft>>
  /\ UNCHANGED <<configVars, shareTimeLeft, moneyVars, settlements>>

FinishNounsDAOTreasuryShare ==
  /\ shareTimeLeft' = 0
  /\ UNCHANGED <<tokenVars, paused, configVars, auction, timeLeft, moneyVars,
                 settlements>>

\* the setters check nothing
Configure ==
  /\ \/ /\ timeBuffer' \in TimeBuffers
        /\ UNCHANGED <<reservePrice, minBidIncrementPercentage>>
     \/ /\ reservePrice' \in ReservePrices
        /\ UNCHANGED <<timeBuffer, minBidIncrementPercentage>>
     \/ /\ minBidIncrementPercentage' \in Percentages
        /\ UNCHANGED <<timeBuffer, reservePrice>>
  /\ UNCHANGED <<tokenVars, paused, shareTimeLeft, auction, timeLeft,
                 moneyVars, settlements>>

\* the settings of the token, and a minter that is not the house
TokenStep ==
  /\ \/ \E m \in NewMinters : SetMinter(m)
     \/ LockMinter
     \/ \E ready \in BOOLEAN : SetDescriptor(ready)
     \/ LockDescriptor
     \/ SetUNoundersDAO(Zero)
     \/ \E m \in NewMinters \ {House} : Mint(m, nounOwner)
     \/ \E m \in NewMinters \ {House}, id \in Nouns : Burn(m, id)
  /\ UNCHANGED houseVars

Tick ==
  /\ timeLeft > 0 \/ shareTimeLeft > 0
  /\ timeLeft' = IF timeLeft > 0 THEN timeLeft - 1 ELSE 0
  /\ shareTimeLeft' = IF shareTimeLeft > 0 THEN shareTimeLeft - 1 ELSE 0
  /\ UNCHANGED <<tokenVars, paused, configVars, auction, moneyVars, settlements>>

Next ==
  \/ SettleCurrentAndCreateNewAuction
  \/ SettleAuction
  \/ \E b \in Bidders, id \in Nouns, v \in 0 .. Budget : CreateBid(b, id, v)
  \/ Pause
  \/ Unpause
  \/ FinishNounsDAOTreasuryShare
  \/ Configure
  \/ TokenStep
  \/ Tick

Spec == Init /\ [][Next]_vars

\* time goes on, and somebody calls the settlement that is open
FairSpec ==
  /\ Spec
  /\ WF_vars(Tick)
  /\ WF_vars(SettleCurrentAndCreateNewAuction \/ SettleAuction)

-------------------------------------------------------------------------------

TypeOK ==
  /\ nounOwner \in [Nouns -> Parties \cup NewMinters
                               \cup {Zero, Unounders, Unouncil, HallOfFame}]
  /\ currentNounId \in Nat
  /\ minter \in NewMinters \cup {House}
  /\ unoundersDAO \in {Unounders, Zero}
  /\ {isMinterLocked, isDescriptorLocked, artReady, paused} \subseteq BOOLEAN
  /\ timeBuffer \in TimeBuffers
  /\ reservePrice \in ReservePrices
  /\ minBidIncrementPercentage \in Percentages
  /\ {shareTimeLeft, timeLeft} \subseteq Nat
  /\ auction \in [unounId : Nouns \cup {0}, amount : Nat, started : BOOLEAN,
                  bidder : Bidders \cup {Zero}, settled : BOOLEAN]
  /\ eth \in [Parties -> Nat]
  /\ weth \in [Parties -> Nat]
  /\ settlements \in [Nouns -> {NotYet} \cup [winner : Bidders \cup {HallOfFame}, amount : Nat]]

(***************************************************************************)
(* The house is solvent and keeps nothing: its ETH is the leading bid of   *)
(* the auction that is not settled, and nothing in between.  createBid     *)
(* refunds before it stores the new bid and _settleAuction marks the       *)
(* auction before it pays, so a payment made twice or not at all shows.    *)
(***************************************************************************)
HouseHoldsLiveBid ==
  /\ eth[House] = IF Unsettled THEN auction.amount ELSE 0
  /\ weth[House] = 0

(***************************************************************************)
(* The two treasuries together own the price of every settled auction, no  *)
(* more and no less, whichever way they were paid, and the Nouns DAO's     *)
(* treasury only has a share in the nouns whose id ends in 88.             *)
(***************************************************************************)
ProceedsForwarded ==
  LET Owned(p)  == eth[p] + weth[p]
      Sold(ids) == {id \in ids : settlements[id] # NotYet}
      Paid(ids) == MapThenSumSet(LAMBDA id : settlements[id].amount, Sold(ids))
  IN  /\ Owned(DAO) + Owned(NounsTreasury) = Paid(Nouns)
      /\ Owned(NounsTreasury) <= Paid({id \in Nouns : id % 100 = 88})

(***************************************************************************)
(* The noun on sale stays with the house until its auction is settled; it  *)
(* is missing only if the owner appointed another minter, who burned it.   *)
(* And while an auction is not settled no other one replaces it: unpause,  *)
(* which creates auctions too, cannot orphan a noun with its bid.          *)
(***************************************************************************)
HouseKeepsTheLot ==
  [][ Unsettled =>
      /\ nounOwner[auction.unounId] = House
           => \/ nounOwner'[auction.unounId] = House
              \/ settlements'[auction.unounId] # NotYet
              \/ minter # House
      /\ auction'.unounId # auction.unounId
           => /\ settlements'[auction.unounId] # NotYet
              /\ settlements'[auction.unounId].winner = AuctionWinner ]_vars

(***************************************************************************)
(* Refinement: bidders only ever experience an English auction, in which   *)
(* ETH and WETH are the same money.                                        *)
(***************************************************************************)
EA == INSTANCE EnglishAuction WITH
  Nobody <- Zero,
  Keeper <- HallOfFame,
  Lots   <- Nouns,
  lot    <- IF Unsettled THEN auction.unounId ELSE Zero,
  leader <- IF Unsettled THEN auction.bidder ELSE Zero,
  price  <- IF Unsettled THEN auction.amount ELSE 0,
  money  <- [b \in Bidders |-> eth[b] + weth[b]],
  winner <- [id \in Nouns |-> IF settlements[id] = NotYet THEN NotYet
                             ELSE settlements[id].winner]

ImplementsEnglishAuction == EA!Spec

\* nothing outside the house stands in the way of a settlement
SettlementPossible ==
  /\ nounOwner[auction.unounId] = House
  /\ paused \/ MintReverts(House) \/ CanMint(House)

\* the increment has not been configured, or rounded, down to nothing
BidsMustRise == auction.bidder # Zero => MinBid > auction.amount

(***************************************************************************)
(* Every auction is settled in the end, however often it is extended, and  *)
(* whether or not the owner pauses the house meanwhile, if from some time  *)
(* on the lot is there, minting neither panics nor runs out of ids, and    *)
(* the increment is not zero: createBid takes an equal bid when the        *)
(* increment rounds to zero, and extends the auction for it every time.    *)
(***************************************************************************)
AuctionsGetSettled ==
  <>[](Unsettled => SettlementPossible /\ BidsMustRise)
    => \A id \in Nouns : (Unsettled /\ auction.unounId = id)
                           ~> settlements[id] # NotYet
===============================================================================
