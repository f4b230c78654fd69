----------------------- MODULE NounsAuctionHouse_proofs -----------------------
(***************************************************************************)
(* Invariance proofs for the auction house and the token it mints from:    *)
(* for any bidders, whichever of them reject ETH, any prices, times and    *)
(* settings, and any owner's use of them; and that bidders experience an   *)
(* English auction, if the two treasuries do not bid.                      *)
(***************************************************************************)
EXTENDS NounsAuctionHouse, DataTheorems

-------------------------------------------------------------------------------
(* The inductive invariant.                                                *)

OwnersType ==
  [Nouns -> Parties \cup NewMinters \cup {Zero, Unounders, Unouncil, HallOfFame}]

AuctionType ==
  [unounId : Nouns \cup {0}, amount : Nat, started : BOOLEAN,
   bidder : Bidders \cup {Zero}, settled : BOOLEAN]

Sale == [winner : Bidders \cup {HallOfFame}, amount : Nat]

TokenTyped ==
  /\ nounOwner \in OwnersType
  /\ currentNounId \in Nat
  /\ minter \in NewMinters \cup {House}
  /\ unoundersDAO \in {Unounders, Zero}
  /\ isMinterLocked \in BOOLEAN /\ isDescriptorLocked \in BOOLEAN /\ artReady \in BOOLEAN

HouseTyped ==
  /\ paused \in BOOLEAN
  /\ timeBuffer \in TimeBuffers
  /\ reservePrice \in ReservePrices
  /\ minBidIncrementPercentage \in Percentages
  /\ shareTimeLeft \in Nat
  /\ auction \in AuctionType
  /\ timeLeft \in Nat

MoneyTyped == eth \in [Parties -> Nat] /\ weth \in [Parties -> Nat]

\* only an auction that is not settled has time left, and nobody bids nothing
Running ==
  /\ timeLeft > 0 => Unsettled
  /\ auction.bidder = Zero => auction.amount = 0

\* ids are minted upwards, and sold once
Fresh ==
  /\ \A id \in Nouns : settlements[id] # NotYet => id < currentNounId
  /\ auction.started => auction.unounId \in Nouns /\ auction.unounId < currentNounId
  /\ Unsettled => settlements[auction.unounId] = NotYet

AuctionInv ==
  /\ TokenTyped /\ HouseTyped /\ MoneyTyped
  /\ settlements \in [Nouns -> {NotYet} \cup Sale]
  /\ Running
  /\ Fresh
  /\ HouseHoldsLiveBid

\* neither treasury is an account that bids, and they are two
TreasuriesOnlyReceive ==
  DAO \notin Bidders /\ NounsTreasury \notin Bidders /\ DAO # NounsTreasury

(***************************************************************************)
(* The invariant says of the types what TypeOK says.                       *)
(***************************************************************************)
LEMMA TypesAre ==
  TypeOK <=> /\ TokenTyped /\ HouseTyped /\ MoneyTyped
             /\ settlements \in [Nouns -> {NotYet} \cup Sale]
BY DEF TypeOK, TokenTyped, HouseTyped, MoneyTyped, OwnersType, AuctionType, Sale

-------------------------------------------------------------------------------
(* What the operations change.                                             *)

\* mint() took the ids from currentNounId to id
Minted(id, own) ==
  /\ id \in Nouns /\ currentNounId <= id /\ currentNounId' = id + 1
  /\ nounOwner'[id] = minter
  /\ \A j \in Nouns : j < currentNounId => nounOwner'[j] = own[j]

NewAuction(id) ==
  [unounId |-> id, amount |-> 0, started |-> TRUE, bidder |-> Zero, settled |-> FALSE]

(***************************************************************************)
(* mint() creates new ids only, the last of them for the minter.           *)
(***************************************************************************)
LEMMA MintChanges ==
  ASSUME TokenTyped, NEW own \in OwnersType, NEW sender, Mint(sender, own)
  PROVE  Minted(MintedId, own) /\ TokenTyped'
<1>1. currentNounId \in Nat /\ MintedId \in currentNounId .. currentNounId + 2
  <2>1. AfterUnounders(currentNounId) \in currentNounId .. currentNounId + 1
    BY DEF TokenTyped, AfterUnounders
  <2>. QED BY <2>1 DEF TokenTyped, MintedId
<1>2. currentNounId .. MintedId \subseteq Nouns /\ MintedId \in Nouns
  BY <1>1 DEF Mint, CanMint
<1>3. nounOwner' = MintedOwners(own) /\ currentNounId' = MintedId + 1
  BY DEF Mint
<1>4. MintedOwners(own)[MintedId] = minter
  BY <1>1, <1>2 DEF MintedOwners
<1>5. \A j \in Nouns : j < currentNounId => MintedOwners(own)[j] = own[j]
  BY <1>1, AuctionConstants DEF MintedOwners
<1>6. MintedOwners(own) \in OwnersType
  <2>1. /\ minter \in Parties \cup NewMinters
        /\ unoundersDAO \in {Unounders, Zero}
    BY DEF TokenTyped, Parties
  <2>. QED BY <2>1 DEF MintedOwners, OwnersType
<1>7. currentNounId' \in Nat
  BY <1>1, <1>3
<1>. QED
  BY <1>1, <1>2, <1>3, <1>4, <1>5, <1>6, <1>7 DEF Minted, Mint, settingVars, TokenTyped

(***************************************************************************)
(* _createAuction mints and starts the auction of what it minted, or       *)
(* leaves the record and the owners as they are and pauses.                *)
(***************************************************************************)
LEMMA CreateChanges ==
  ASSUME TokenTyped, timeLeft \in Nat, NEW auc \in AuctionType, NEW own \in OwnersType,
         CreateAuction(auc, own, FALSE)
  PROVE  /\ TokenTyped' /\ paused' \in BOOLEAN /\ auction' \in AuctionType
         /\ UNCHANGED minter /\ timeLeft' \in Nat
         /\ \/ /\ auction' = auc /\ nounOwner' = own
               /\ UNCHANGED <<timeLeft, currentNounId>>
            \/ \E id \in Nouns : Minted(id, own) /\ auction' = NewAuction(id)
<1>1. CASE /\ Mint(House, own)
           /\ auction' = NewAuction(MintedId)
           /\ timeLeft' = Duration
           /\ paused' = FALSE
  <2>1. Minted(MintedId, own) /\ TokenTyped'
    BY <1>1, MintChanges
  <2>2. MintedId \in Nouns
    BY <2>1 DEF Minted
  <2>3. NewAuction(MintedId) \in AuctionType
    BY <2>2 DEF NewAuction, AuctionType
  <2>4. UNCHANGED minter
    BY <1>1 DEF Mint, settingVars
  <2>. QED BY <1>1, <2>1, <2>2, <2>3, <2>4, AuctionConstants
<1>2. CASE /\ auction' = auc
           /\ nounOwner' = own
           /\ paused' = TRUE
           /\ UNCHANGED <<timeLeft, currentNounId, settingVars>>
  BY <1>2 DEF settingVars, TokenTyped
<1>. QED BY <1>1, <1>2 DEF CreateAuction, NewAuction

(***************************************************************************)
(* A payment of the house: in ETH or, if that is rejected, in WETH, the    *)
(* receiver has what the house gives.                                      *)
(***************************************************************************)
LEMMA PaymentArrives ==
  ASSUME weth \in [Parties -> Nat], NEW e \in [Parties -> Nat], NEW to \in Parties \ {House},
         NEW n \in Nat, CanPay(e, n)
  PROVE  /\ EthPaid(e, to, n) \in [Parties -> Nat]
         /\ WethPaid(to, n) \in [Parties -> Nat]
         /\ EthPaid(e, to, n)[House] = e[House] - n
         /\ WethPaid(to, n)[House] = weth[House]
         /\ \A p \in Parties \ {House} :
              EthPaid(e, to, n)[p] + WethPaid(to, n)[p]
                = IF p = to THEN e[p] + weth[p] + n ELSE e[p] + weth[p]
<1>1. House \in Parties /\ e[House] \in Nat /\ e[House] - n \in Nat
  BY DEF Parties, CanPay
<1>2. CASE to \in RejectsETH
  BY <1>1, <1>2 DEF EthPaid, WethPaid
<1>3. CASE to \notin RejectsETH
  BY <1>1, <1>3 DEF EthPaid, WethPaid
<1>. QED BY <1>2, <1>3

-------------------------------------------------------------------------------
(* The settlement and the bid.                                             *)

SaleNow == [winner |-> AuctionWinner, amount |-> auction.amount]

(***************************************************************************)
(* _settleAuction records the sale, leaves the house without money, and    *)
(* the beneficiary with the price.                                         *)
(***************************************************************************)
LEMMA SettleChanges ==
  ASSUME AuctionInv, Settle
  PROVE  /\ Unsettled /\ timeLeft = 0 /\ auction.unounId \in Nouns
         /\ settlements' = [settlements EXCEPT ![auction.unounId] = SaleNow]
         /\ SaleNow \in Sale
         /\ MoneyTyped'
         /\ eth'[House] = 0 /\ weth'[House] = 0
         /\ \A p \in Parties \ {House} :
              eth'[p] + weth'[p] = IF p = Beneficiary THEN eth[p] + weth[p] + auction.amount
                                   ELSE eth[p] + weth[p]
<1>1. /\ Unsettled /\ timeLeft = 0 /\ CanPay(eth, auction.amount)
      /\ settlements' = [settlements EXCEPT ![auction.unounId] = SaleNow]
  BY DEF Settle, CanSettle, SaleNow
<1>2. auction.unounId \in Nouns
  BY <1>1 DEF AuctionInv, Fresh, Unsettled
<1>3. auction.amount \in Nat /\ auction.bidder \in Bidders \cup {Zero}
  BY DEF AuctionInv, HouseTyped, AuctionType
<1>4. SaleNow \in Sale
  BY <1>3 DEF SaleNow, Sale, AuctionWinner
<1>5. eth \in [Parties -> Nat] /\ weth \in [Parties -> Nat]
  BY DEF AuctionInv, MoneyTyped
<1>6. eth[House] = auction.amount /\ weth[House] = 0
  BY <1>1 DEF AuctionInv, HouseHoldsLiveBid
<1>7. Beneficiary \in Parties \ {House}
  BY PartiesDiffer DEF Beneficiary, Parties
<1>8. CASE auction.amount > 0
  <2>1. eth' = EthPaid(eth, Beneficiary, auction.amount) /\ weth' = WethPaid(Beneficiary, auction.amount)
    BY <1>8 DEF Settle
  <2>. HIDE DEF Beneficiary
  <2>. QED
    BY <1>1, <1>2, <1>3, <1>4, <1>5, <1>6, <1>7, <2>1, PaymentArrives DEF MoneyTyped
<1>9. CASE ~ (auction.amount > 0)
  <2>1. eth' = eth /\ weth' = weth /\ auction.amount = 0
    BY <1>3, <1>9 DEF Settle, moneyVars
  <2>2. \A p \in Parties : eth[p] + weth[p] + 0 = eth[p] + weth[p]
    BY <1>5
  <2>. HIDE DEF Beneficiary
  <2>. QED
    BY <1>1, <1>2, <1>4, <1>5, <1>6, <2>1, <2>2 DEF MoneyTyped
<1>. QED BY <1>8, <1>9

(***************************************************************************)
(* createBid takes the new bid from one bidder, gives the old one back to  *)
(* the other, and keeps the difference.                                    *)
(***************************************************************************)
LEMMA BidChanges ==
  ASSUME AuctionInv, NEW b \in Bidders, NEW v \in Nat, NEW id, CreateBid(b, id, v)
  PROVE  /\ Unsettled /\ v >= auction.amount /\ v <= eth[b]
         /\ auction' = [auction EXCEPT !.amount = v, !.bidder = b]
         /\ timeLeft' \in Nat
         /\ MoneyTyped'
         /\ eth'[House] = v /\ weth'[House] = 0
         /\ \A p \in Parties \ {House} :
              eth'[p] + weth'[p] =
                (eth[p] + weth[p]) - (IF p = b THEN v ELSE 0)
                  + (IF p = auction.bidder THEN auction.amount ELSE 0)
<1>. DEFINE received == [eth EXCEPT ![b] = @ - v, ![House] = @ + v]
<1>1. /\ v <= eth[b] /\ timeLeft > 0 /\ v >= MinBid
      /\ auction' = [auction EXCEPT !.amount = v, !.bidder = b]
      /\ timeLeft' = IF timeLeft < timeBuffer THEN timeBuffer ELSE timeLeft
  BY DEF CreateBid
<1>2. Unsettled
  BY <1>1 DEF AuctionInv, Running
<1>3. timeLeft' \in Nat
  BY <1>1, AuctionConstants DEF AuctionInv, HouseTyped
<1>4. auction.amount \in Nat /\ auction.bidder \in Bidders \cup {Zero}
  BY DEF AuctionInv, HouseTyped, AuctionType
<1>5. v >= auction.amount
  <2>1. minBidIncrementPercentage \in Nat
    BY AuctionConstants DEF AuctionInv, HouseTyped
  <2>. DEFINE increase == auction.amount * minBidIncrementPercentage
  <2>2. increase \in Nat
    BY <1>4, <2>1
  <2>. HIDE DEF increase
  <2>3. increase \div 100 \in Nat
    BY <2>2
  <2>4. v >= auction.amount + (increase \div 100)
    BY <1>1 DEF MinBid, increase
  <2>. QED BY <1>4, <2>3, <2>4
<1>6. eth \in [Parties -> Nat] /\ weth \in [Parties -> Nat]
  BY DEF AuctionInv, MoneyTyped
<1>7. eth[House] = auction.amount /\ weth[House] = 0
  BY <1>2 DEF AuctionInv, HouseHoldsLiveBid
<1>8. Bidders \subseteq Parties \ {House} /\ House \in Parties /\ Zero \notin Bidders
  BY PartiesDiffer DEF Parties
<1>9. /\ received \in [Parties -> Nat]
      /\ received[House] = auction.amount + v
      /\ \A p \in Parties \ {House} : received[p] = eth[p] - (IF p = b THEN v ELSE 0)
  BY <1>1, <1>4, <1>6, <1>7, <1>8
<1>10. CASE auction.bidder = Zero
  <2>1. eth' = received /\ weth' = weth /\ auction.amount = 0
    BY <1>10 DEF CreateBid, AuctionInv, Running
  <2>. HIDE DEF received
  <2>2. ASSUME NEW p \in Parties \ {House}
        PROVE  received[p] + weth[p] =
                 (eth[p] + weth[p]) - (IF p = b THEN v ELSE 0) + 0
    BY <1>6, <1>9
  <2>. QED
    BY <1>1, <1>2, <1>3, <1>5, <1>6, <1>7, <1>8, <1>9, <2>1, <2>2 DEF MoneyTyped
<1>11. CASE auction.bidder # Zero
  <2>1. /\ CanPay(received, auction.amount)
        /\ eth' = EthPaid(received, auction.bidder, auction.amount)
        /\ weth' = WethPaid(auction.bidder, auction.amount)
        /\ auction.bidder \in Parties \ {House}
    BY <1>4, <1>8, <1>11 DEF CreateBid
  <2>. HIDE DEF received
  <2>2. /\ MoneyTyped' /\ eth'[House] = received[House] - auction.amount /\ weth'[House] = weth[House]
        /\ \A p \in Parties \ {House} :
             eth'[p] + weth'[p] = IF p = auction.bidder THEN received[p] + weth[p] + auction.amount
                                  ELSE received[p] + weth[p]
    BY <1>4, <1>6, <1>9, <2>1, PaymentArrives DEF MoneyTyped
  <2>3. eth'[House] = v
    BY <1>4, <1>9, <2>2
  <2>4. ASSUME NEW p \in Parties \ {House}
        PROVE  eth'[p] + weth'[p] =
                (eth[p] + weth[p]) - (IF p = b THEN v ELSE 0)
                  + (IF p = auction.bidder THEN auction.amount ELSE 0)
    BY <1>4, <1>6, <1>9, <2>2
  <2>. QED BY <1>1, <1>2, <1>3, <1>5, <1>7, <2>2, <2>3, <2>4
<1>. QED BY <1>10, <1>11

-------------------------------------------------------------------------------
(* The invariant holds: one lemma per kind of step.                        *)

(***************************************************************************)
(* The owners after a settlement are accounts, and the others' nouns stay. *)
(***************************************************************************)
LEMMA SettledOwnersAre ==
  ASSUME AuctionInv
  PROVE  /\ SettledOwners \in OwnersType
         /\ \A j \in Nouns \ {auction.unounId} : SettledOwners[j] = nounOwner[j]
<1>1. nounOwner \in OwnersType /\ auction.bidder \in Bidders \cup {Zero}
  BY DEF AuctionInv, TokenTyped, HouseTyped, AuctionType
<1>. QED BY <1>1 DEF SettledOwners, AuctionWinner, OwnersType, Parties

(***************************************************************************)
(* A settlement sells a noun that was not sold; the next auction, if there *)
(* is one, is of a noun that did not exist.                                *)
(***************************************************************************)
LEMMA SalesKeep ==
  ASSUME AuctionInv, SettleCurrentAndCreateNewAuction \/ SettleAuction
  PROVE  AuctionInv' /\ Settle
<1>1. Settle
  BY DEF SettleCurrentAndCreateNewAuction, SettleAuction
<1>2. /\ Unsettled /\ timeLeft = 0 /\ auction.unounId \in Nouns
      /\ settlements' = [settlements EXCEPT ![auction.unounId] = SaleNow]
      /\ SaleNow \in Sale
      /\ MoneyTyped' /\ eth'[House] = 0 /\ weth'[House] = 0
  BY <1>1, SettleChanges
<1>. DEFINE auc == [auction EXCEPT !.settled = TRUE]
<1>3. /\ auc \in AuctionType /\ auc.settled /\ auc.unounId = auction.unounId
      /\ auc.amount = auction.amount /\ auc.bidder = auction.bidder /\ auc.started
  BY <1>2 DEF AuctionInv, HouseTyped, AuctionType, Unsettled
<1>4. /\ TokenTyped' /\ paused' \in BOOLEAN /\ auction' \in AuctionType /\ timeLeft' \in Nat
      /\ \/ auction' = auc /\ UNCHANGED <<timeLeft, currentNounId>>
         \/ \E id \in Nouns : Minted(id, SettledOwners) /\ auction' = NewAuction(id)
  <2>1. CASE SettleCurrentAndCreateNewAuction
    <3>1. CreateAuction(auc, SettledOwners, FALSE)
      BY <2>1 DEF SettleCurrentAndCreateNewAuction
    <3>2. TokenTyped /\ timeLeft \in Nat
      BY DEF AuctionInv, HouseTyped
    <3>. HIDE DEF auc
    <3>. QED BY <1>3, <3>1, <3>2, SettledOwnersAre, CreateChanges
  <2>2. CASE SettleAuction
    <3>1. /\ auction' = auc /\ nounOwner' = SettledOwners /\ UNCHANGED paused
          /\ UNCHANGED <<timeLeft, currentNounId, settingVars>>
      BY <2>2 DEF SettleAuction
    <3>. HIDE DEF auc
    <3>2. TokenTyped'
      BY <3>1, SettledOwnersAre DEF AuctionInv, TokenTyped, settingVars
    <3>. QED BY <1>3, <3>1, <3>2 DEF AuctionInv, HouseTyped
  <2>. QED BY <2>1, <2>2
<1>. HIDE DEF auc
<1>5. HouseTyped'
  <2>1. UNCHANGED configVars /\ UNCHANGED shareTimeLeft
    BY DEF SettleCurrentAndCreateNewAuction, SettleAuction
  <2>. QED BY <1>4, <2>1 DEF AuctionInv, HouseTyped, configVars
<1>6. settlements' \in [Nouns -> {NotYet} \cup Sale]
  BY <1>2 DEF AuctionInv
<1>7. ~ Unsettled' \/ (Unsettled' /\ auction'.amount = 0)
  BY <1>3, <1>4 DEF Unsettled, NewAuction
<1>8. HouseHoldsLiveBid'
  BY <1>2, <1>7 DEF HouseHoldsLiveBid
<1>9. Running'
  <2>1. CASE auction' = auc /\ UNCHANGED <<timeLeft, currentNounId>>
    BY <1>2, <1>3, <2>1 DEF AuctionInv, Running
  <2>2. CASE \E id \in Nouns : Minted(id, SettledOwners) /\ auction' = NewAuction(id)
    BY <2>2 DEF Running, NewAuction, Unsettled
  <2>. QED BY <1>4, <2>1, <2>2
<1>10. Fresh'
  <2>0. currentNounId \in Nat /\ auction.unounId < currentNounId /\ currentNounId' \in Nat
    BY <1>2, <1>4 DEF AuctionInv, TokenTyped, Fresh, Unsettled
  <2>1. ASSUME NEW id \in Nouns, settlements'[id] # NotYet PROVE id < currentNounId
    BY <1>2, <2>0, <2>1 DEF AuctionInv, Fresh
  <2>2. CASE auction' = auc /\ UNCHANGED <<timeLeft, currentNounId>>
    BY <1>2, <1>3, <2>0, <2>1, <2>2 DEF Fresh, Unsettled
  <2>3. CASE \E id \in Nouns : Minted(id, SettledOwners) /\ auction' = NewAuction(id)
    <3>1. PICK id \in Nouns : Minted(id, SettledOwners) /\ auction' = NewAuction(id)
      BY <2>3
    <3>2. id \in Nat /\ Nouns \subseteq Nat /\ currentNounId <= id /\ currentNounId' = id + 1
      BY <3>1, AuctionConstants DEF Minted
    <3>3. auction'.unounId = id
      BY <3>1 DEF NewAuction
    <3>4. \A j \in Nouns : settlements'[j] # NotYet => j < currentNounId'
      BY <2>0, <2>1, <3>2
    <3>5. settlements'[id] = NotYet
      BY <2>0, <2>1, <3>2
    <3>6. id < currentNounId'
      BY <3>2
    <3>. QED BY <3>3, <3>4, <3>5, <3>6 DEF Fresh
  <2>. QED BY <1>4, <2>2, <2>3
<1>. QED
  BY <1>1, <1>2, <1>4, <1>5, <1>6, <1>8, <1>9, <1>10 DEF AuctionInv

(***************************************************************************)
(* A bid moves money, and leaves the house with the new one.               *)
(***************************************************************************)
LEMMA BidsKeep ==
  ASSUME AuctionInv, NEW b \in Bidders, NEW v \in Nat, NEW id, CreateBid(b, id, v)
  PROVE  AuctionInv'
<1>1. /\ Unsettled
      /\ auction' = [auction EXCEPT !.amount = v, !.bidder = b]
      /\ timeLeft' \in Nat /\ MoneyTyped' /\ eth'[House] = v /\ weth'[House] = 0
  BY BidChanges
<1>2. UNCHANGED <<tokenVars, paused, configVars, shareTimeLeft, settlements>>
  BY DEF CreateBid
<1>3. /\ auction' \in AuctionType /\ auction'.amount = v /\ auction'.bidder = b
      /\ auction'.unounId = auction.unounId /\ auction'.started /\ ~ auction'.settled
  BY <1>1 DEF AuctionInv, HouseTyped, AuctionType, Unsettled
<1>4. Unsettled'
  BY <1>3 DEF Unsettled
<1>5. TokenTyped' /\ HouseTyped'
  BY <1>1, <1>2, <1>3 DEF AuctionInv, TokenTyped, HouseTyped, tokenVars, configVars
<1>6. Running'
  BY <1>3, <1>4, PartiesDiffer DEF Running
<1>7. Fresh'
  BY <1>1, <1>2, <1>3 DEF AuctionInv, Fresh, Unsettled, tokenVars
<1>8. HouseHoldsLiveBid'
  BY <1>1, <1>3, <1>4 DEF HouseHoldsLiveBid
<1>. QED BY <1>1, <1>2, <1>5, <1>6, <1>7, <1>8 DEF AuctionInv

(***************************************************************************)
(* unpause opens an auction only when none is waiting for its settlement.  *)
(***************************************************************************)
LEMMA UnpauseKeeps ==
  ASSUME AuctionInv, Unpause
  PROVE  /\ AuctionInv'
         /\ \/ UNCHANGED <<auction, nounOwner>>
            \/ ~ Unsettled /\ \E id \in Nouns : Minted(id, nounOwner) /\ auction' = NewAuction(id)
<1>1. UNCHANGED <<configVars, shareTimeLeft, moneyVars, settlements>>
  BY DEF Unpause
<1>2. CASE ~ Unsettled
  <2>1. CreateAuction(auction, nounOwner, FALSE)
    BY <1>2 DEF Unpause, Unsettled, AuctionInv, HouseTyped, AuctionType
  <2>2. TokenTyped /\ timeLeft \in Nat /\ auction \in AuctionType /\ nounOwner \in OwnersType
    BY DEF AuctionInv, TokenTyped, HouseTyped
  <2>3. /\ TokenTyped' /\ paused' \in BOOLEAN /\ auction' \in AuctionType /\ timeLeft' \in Nat
        /\ \/ /\ auction' = auction /\ nounOwner' = nounOwner
              /\ UNCHANGED <<timeLeft, currentNounId>>
           \/ \E id \in Nouns : Minted(id, nounOwner) /\ auction' = NewAuction(id)
    BY <2>1, <2>2, CreateChanges
  <2>4. TokenTyped' /\ HouseTyped' /\ MoneyTyped' /\ settlements' \in [Nouns -> {NotYet} \cup Sale]
    BY <1>1, <2>3 DEF AuctionInv, HouseTyped, MoneyTyped, configVars, moneyVars
  <2>5. CASE /\ auction' = auction /\ nounOwner' = nounOwner
             /\ UNCHANGED <<timeLeft, currentNounId>>
    <3>1. Running' /\ Fresh' /\ HouseHoldsLiveBid'
      BY <1>1, <2>5 DEF AuctionInv, Running, Fresh, HouseHoldsLiveBid, Unsettled, moneyVars
    <3>. QED BY <2>4, <2>5, <3>1 DEF AuctionInv
  <2>6. CASE \E id \in Nouns : Minted(id, nounOwner) /\ auction' = NewAuction(id)
    <3>1. PICK id \in Nouns : Minted(id, nounOwner) /\ auction' = NewAuction(id)
      BY <2>6
    <3>2. /\ id \in Nat /\ Nouns \subseteq Nat /\ currentNounId \in Nat
          /\ currentNounId <= id /\ currentNounId' = id + 1
      BY <2>2, <3>1, AuctionConstants DEF Minted, TokenTyped
    <3>3. /\ auction'.unounId = id /\ auction'.amount = 0 /\ auction'.bidder = Zero
          /\ auction'.started /\ ~ auction'.settled
      BY <3>1 DEF NewAuction
    <3>4. \A j \in Nouns : settlements'[j] # NotYet => j < currentNounId
      BY <1>1 DEF AuctionInv, Fresh
    <3>5. Fresh'
      <4>1. \A j \in Nouns : settlements'[j] # NotYet => j < currentNounId'
        BY <3>2, <3>4
      <4>2. settlements'[id] = NotYet /\ id < currentNounId'
        BY <3>2, <3>4
      <4>. QED BY <3>3, <4>1, <4>2 DEF Fresh
    <3>6. Running' /\ HouseHoldsLiveBid'
      BY <1>1, <1>2, <3>3 DEF AuctionInv, Running, HouseHoldsLiveBid, Unsettled, moneyVars
    <3>. QED BY <1>2, <2>4, <2>6, <3>5, <3>6 DEF AuctionInv
  <2>. QED BY <2>3, <2>5, <2>6
<1>3. CASE Unsettled
  <2>1. paused' = FALSE /\ UNCHANGED <<tokenVars, auction, timeLeft>>
    BY <1>3 DEF Unpause, Unsettled
  <2>2. TokenTyped' /\ HouseTyped' /\ MoneyTyped'
    BY <1>1, <2>1 DEF AuctionInv, TokenTyped, HouseTyped, MoneyTyped, tokenVars, configVars, moneyVars
  <2>3. Running' /\ Fresh' /\ HouseHoldsLiveBid'
    BY <1>1, <2>1 DEF AuctionInv, Running, Fresh, HouseHoldsLiveBid, Unsettled, moneyVars, tokenVars
  <2>. QED BY <1>1, <2>1, <2>2, <2>3 DEF AuctionInv, tokenVars
<1>. QED BY <1>2, <1>3

(***************************************************************************)
(* The token's settings leave the nouns alone; another minter mints ids    *)
(* that did not exist, and may burn any noun.                              *)
(***************************************************************************)
LEMMA TokenStepChanges ==
  ASSUME AuctionInv, TokenStep
  PROVE  /\ TokenTyped' /\ UNCHANGED houseVars /\ currentNounId <= currentNounId'
         /\ minter = House => UNCHANGED nounOwner
<1>1. UNCHANGED houseVars /\ TokenTyped
  BY DEF TokenStep, AuctionInv
<1>2. currentNounId \in Nat
  BY <1>1 DEF TokenTyped
<1>3. ASSUME NEW m \in NewMinters \ {House}, Mint(m, nounOwner)
      PROVE  TokenTyped' /\ currentNounId <= currentNounId' /\ minter # House
  <2>1. Minted(MintedId, nounOwner) /\ TokenTyped'
    BY <1>1, <1>3, MintChanges DEF TokenTyped
  <2>2. MintedId \in Nat /\ currentNounId <= MintedId /\ currentNounId' = MintedId + 1
    BY <2>1, AuctionConstants DEF Minted
  <2>3. m = minter
    BY <1>3 DEF Mint, CanMint, MintReverts
  <2>. QED BY <1>2, <2>1, <2>2, <2>3
<1>4. ASSUME NEW m \in NewMinters \ {House}, NEW id \in Nouns, Burn(m, id)
      PROVE  TokenTyped' /\ currentNounId <= currentNounId' /\ minter # House
  BY <1>1, <1>2, <1>4 DEF Burn, TokenTyped, OwnersType, settingVars
<1>5. ASSUME NEW m \in NewMinters, SetMinter(m)
      PROVE  TokenTyped' /\ UNCHANGED <<currentNounId, nounOwner>>
  BY <1>1, <1>5 DEF SetMinter, TokenTyped
<1>6. ASSUME LockMinter \/ (\E ready \in BOOLEAN : SetDescriptor(ready)) \/ LockDescriptor
             \/ SetUNoundersDAO(Zero)
      PROVE  TokenTyped' /\ UNCHANGED <<currentNounId, nounOwner>>
  BY <1>1, <1>6 DEF LockMinter, SetDescriptor, LockDescriptor, SetUNoundersDAO, TokenTyped
<1>7. \/ \E m \in NewMinters : SetMinter(m)
      \/ LockMinter \/ (\E ready \in BOOLEAN : SetDescriptor(ready)) \/ LockDescriptor
      \/ SetUNoundersDAO(Zero)
      \/ \E m \in NewMinters \ {House} : Mint(m, nounOwner)
      \/ \E m \in NewMinters \ {House}, id \in Nouns : Burn(m, id)
  BY DEF TokenStep
<1>8. TokenTyped' /\ currentNounId <= currentNounId' /\ (minter = House => UNCHANGED nounOwner)
  <2>1. UNCHANGED currentNounId => currentNounId <= currentNounId'
    BY <1>2
  <2>. QED BY <1>3, <1>4, <1>5, <1>6, <1>7, <2>1
<1>. QED BY <1>1, <1>8

\* steps that touch neither the token, nor money, nor a sale
Quietly ==
  /\ UNCHANGED <<tokenVars, auction, moneyVars, settlements>>
  /\ paused' \in BOOLEAN
  /\ timeBuffer' \in TimeBuffers /\ reservePrice' \in ReservePrices
  /\ minBidIncrementPercentage' \in Percentages
  /\ shareTimeLeft' \in Nat
  /\ timeLeft' \in Nat /\ (timeLeft' > 0 => timeLeft > 0)

(***************************************************************************)
(* Pausing, configuring, ending the share and the passing of time are      *)
(* quiet, and quiet steps keep the invariant.                              *)
(***************************************************************************)
LEMMA QuietKeeps ==
  ASSUME AuctionInv, Pause \/ FinishNounsDAOTreasuryShare \/ Configure \/ Tick \/ UNCHANGED vars
  PROVE  Quietly /\ AuctionInv'
<1>1. HouseTyped
  BY DEF AuctionInv
<1>2. Quietly
  <2>1. CASE Pause
    BY <1>1, <2>1 DEF Pause, Quietly, HouseTyped, configVars
  <2>2. CASE FinishNounsDAOTreasuryShare
    BY <1>1, <2>2 DEF FinishNounsDAOTreasuryShare, Quietly, HouseTyped, configVars
  <2>3. CASE Configure
    BY <1>1, <2>3 DEF Configure, Quietly, HouseTyped
  <2>4. CASE Tick
    BY <1>1, <2>4 DEF Tick, Quietly, HouseTyped, configVars
  <2>5. CASE UNCHANGED vars
    BY <1>1, <2>5 DEF vars, houseVars, Quietly, HouseTyped, configVars
  <2>. QED BY <2>1, <2>2, <2>3, <2>4, <2>5
<1>3. TokenTyped' /\ HouseTyped' /\ MoneyTyped' /\ settlements' \in [Nouns -> {NotYet} \cup Sale]
  BY <1>2 DEF Quietly, AuctionInv, TokenTyped, HouseTyped, MoneyTyped, tokenVars, moneyVars
<1>4. Running' /\ Fresh' /\ HouseHoldsLiveBid'
  BY <1>2 DEF Quietly, AuctionInv, Running, Fresh, HouseHoldsLiveBid, Unsettled, tokenVars, moneyVars
<1>. QED BY <1>2, <1>3, <1>4 DEF AuctionInv

(***************************************************************************)
(* After initialize() there is no auction, no sale and no noun.            *)
(***************************************************************************)
LEMMA Initially == Init => AuctionInv
<1>. SUFFICES ASSUME Init PROVE AuctionInv
  OBVIOUS
<1>1. TokenTyped /\ HouseTyped /\ MoneyTyped /\ settlements \in [Nouns -> {NotYet} \cup Sale]
  BY AuctionConstants
     DEF Init, TokenTyped, HouseTyped, MoneyTyped, OwnersType, AuctionType, Parties
<1>2. Running /\ Fresh /\ HouseHoldsLiveBid
  BY PartiesDiffer DEF Init, Running, Fresh, HouseHoldsLiveBid, Unsettled, Parties
<1>. QED BY <1>1, <1>2 DEF AuctionInv

(***************************************************************************)
(* Every step keeps the invariant.                                         *)
(***************************************************************************)
LEMMA Inductive == AuctionInv /\ [Next]_vars => AuctionInv'
<1>. SUFFICES ASSUME AuctionInv, [Next]_vars PROVE AuctionInv'
  OBVIOUS
<1>1. CASE SettleCurrentAndCreateNewAuction \/ SettleAuction
  BY <1>1, SalesKeep
<1>2. CASE \E b \in Bidders, id \in Nouns, v \in 0 .. Budget : CreateBid(b, id, v)
  <2>1. 0 .. Budget \subseteq Nat
    BY AuctionConstants
  <2>. QED BY <1>2, <2>1, BidsKeep
<1>3. CASE Unpause
  BY <1>3, UnpauseKeeps
<1>4. CASE TokenStep
  <2>1. TokenTyped' /\ UNCHANGED houseVars /\ currentNounId <= currentNounId'
    BY <1>4, TokenStepChanges
  <2>2. HouseTyped' /\ MoneyTyped' /\ settlements' \in [Nouns -> {NotYet} \cup Sale]
    BY <2>1 DEF AuctionInv, houseVars, configVars, moneyVars, HouseTyped, MoneyTyped
  <2>3. Running' /\ HouseHoldsLiveBid'
    BY <2>1 DEF AuctionInv, houseVars, moneyVars, Running, HouseHoldsLiveBid, Unsettled
  <2>4. \A n \in Nat : n < currentNounId => n < currentNounId'
    BY <2>1 DEF AuctionInv, TokenTyped
  <2>5. Fresh'
    BY <2>1, <2>4, AuctionConstants DEF AuctionInv, houseVars, Fresh, Unsettled
  <2>. QED BY <2>1, <2>2, <2>3, <2>5 DEF AuctionInv
<1>5. CASE Pause \/ FinishNounsDAOTreasuryShare \/ Configure \/ Tick \/ UNCHANGED vars
  BY <1>5, QuietKeeps
<1>. QED BY <1>1, <1>2, <1>3, <1>4, <1>5 DEF Next

(***************************************************************************)
(* The invariant holds of every behaviour.                                 *)
(***************************************************************************)
LEMMA InvariantHolds == Spec => []AuctionInv
BY Initially, Inductive, PTL DEF Spec

-------------------------------------------------------------------------------
(* The properties.                                                         *)

(***************************************************************************)
(* Whatever the house's functions and the token's owner do, their state    *)
(* has its types: no transfer of the house takes more than it has.         *)
(***************************************************************************)
THEOREM TypeCorrect == Spec => []TypeOK
<1>1. AuctionInv => TypeOK
  BY TypesAre DEF AuctionInv
<1>. QED BY <1>1, InvariantHolds, PTL

(***************************************************************************)
(* The house owns the live bid, in ETH, and nothing else, for any sequence *)
(* of bids, refunds that are rejected, settlements, pauses and settings.   *)
(***************************************************************************)
THEOREM SolventAndEmpty == Spec => []HouseHoldsLiveBid
<1>1. AuctionInv => HouseHoldsLiveBid
  BY DEF AuctionInv
<1>. QED BY <1>1, InvariantHolds, PTL

(***************************************************************************)
(* The noun on sale stays until it is sold, unless another minter burns    *)
(* it, and no auction replaces one that is not settled.                    *)
(***************************************************************************)
THEOREM LotIsKept == Spec => HouseKeepsTheLot
<1>. DEFINE Lot == auction.unounId
            Stays == nounOwner[Lot] = House
                       => \/ nounOwner'[Lot] = House
                          \/ settlements'[Lot] # NotYet
                          \/ minter # House
            NotReplaced == auction'.unounId # Lot
                             => /\ settlements'[Lot] # NotYet
                                /\ settlements'[Lot].winner = AuctionWinner
            Kept == Unsettled => Stays /\ NotReplaced
<1>1. ASSUME AuctionInv, [Next]_vars PROVE Kept
  <2>1. CASE SettleCurrentAndCreateNewAuction \/ SettleAuction
    <3>1. Lot \in Nouns /\ settlements' = [settlements EXCEPT ![Lot] = SaleNow] /\ SaleNow \in Sale
      BY <1>1, <2>1, SalesKeep, SettleChanges
    <3>2. settlements'[Lot] = SaleNow
      BY <1>1, <3>1 DEF AuctionInv
    <3>3. SaleNow # NotYet /\ SaleNow.winner = AuctionWinner
      BY <3>1, PartiesDiffer DEF Sale, SaleNow
    <3>. QED BY <3>2, <3>3
  <2>2. CASE \E b \in Bidders, id \in Nouns, v \in 0 .. Budget : CreateBid(b, id, v)
    <3>1. PICK b \in Bidders, id \in Nouns, v \in 0 .. Budget : CreateBid(b, id, v)
      BY <2>2
    <3>2. auction' = [auction EXCEPT !.amount = v, !.bidder = b] /\ UNCHANGED nounOwner
      BY <3>1 DEF CreateBid, tokenVars
    <3>. QED BY <1>1, <3>2 DEF AuctionInv, HouseTyped, AuctionType
  <2>3. CASE Unpause
    BY <1>1, <2>3, UnpauseKeeps
  <2>4. CASE TokenStep
    BY <1>1, <2>4, TokenStepChanges DEF houseVars
  <2>5. CASE Pause \/ FinishNounsDAOTreasuryShare \/ Configure \/ Tick \/ UNCHANGED vars
    BY <1>1, <2>5, QuietKeeps DEF Quietly, tokenVars
  <2>. QED BY <1>1, <2>1, <2>2, <2>3, <2>4, <2>5 DEF Next
<1>2. AuctionInv /\ [Next]_vars => [Kept]_vars
  BY <1>1
<1>. QED BY <1>2, InvariantHolds, PTL DEF Spec, HouseKeepsTheLot

-------------------------------------------------------------------------------
(* The proceeds.                                                           *)

Amounts == [id \in Nouns |-> settlements[id].amount]

SoldOf(ids) == {id \in ids : settlements[id] # NotYet}

Shared == {id \in Nouns : id % 100 = 88}

Proceeds ==
  /\ (eth[DAO] + weth[DAO]) + (eth[NounsTreasury] + weth[NounsTreasury])
       = Sum(Amounts, SoldOf(Nouns))
  /\ eth[NounsTreasury] + weth[NounsTreasury] <= Sum(Amounts, SoldOf(Shared))

(***************************************************************************)
(* The sum that ProceedsForwarded folds over the sales is a sum of the     *)
(* function that assigns each noun its price.                              *)
(***************************************************************************)
LEMMA PaidIs ==
  ASSUME settlements \in [Nouns -> {NotYet} \cup Sale], NEW ids \in SUBSET Nouns
  PROVE  MapThenSumSet(LAMBDA id : settlements[id].amount, SoldOf(ids)) = Sum(Amounts, SoldOf(ids))
<1>. DEFINE B == SoldOf(ids)
            First(s) == CHOOSE v \in s : TRUE
            Paying(h) == h = [s \in SUBSET B |-> IF s = {} THEN 0
                                ELSE settlements[First(s)].amount + h[s \ {First(s)}]]
            g == CHOOSE h : Paying(h)
<1>1. MapThenSumSet(LAMBDA id : settlements[id].amount, B) = g[B]
  BY DEF MapThenSumSet, MapThenFoldSet
<1>2. ASSUME NEW h PROVE Paying(h) <=> SummedBy(Amounts, B, h)
  <2>. DEFINE L(s) == IF s = {} THEN 0 ELSE settlements[First(s)].amount + h[s \ {First(s)}]
  <2>1. ASSUME NEW s \in SUBSET B PROVE L(s) = Summed(Amounts, h, s)
    <3>1. CASE s = {}
      BY <3>1 DEF Summed
    <3>2. CASE s # {}
      <4>1. First(s) \in s
        BY <3>2
      <4>2. First(s) \in Nouns
        BY <4>1 DEF SoldOf
      <4>3. Amounts[First(s)] = settlements[First(s)].amount
        BY <4>2 DEF Amounts
      <4>. QED BY <3>2, <4>3 DEF Summed
    <3>. QED BY <3>1, <3>2
  <2>2. [s \in SUBSET B |-> L(s)] = [s \in SUBSET B |-> Summed(Amounts, h, s)]
    <3>. HIDE DEF L, B
    <3>. QED BY <2>1
  <2>. QED BY <2>2 DEF SummedBy
<1>3. IsFiniteSet(B) /\ \A v \in B : Amounts[v] \in Nat
  <2>1. B \subseteq Nouns /\ IsFiniteSet(Nouns)
    BY AuctionConstants DEF SoldOf
  <2>2. IsFiniteSet(B)
    BY <2>1, FS_Subset
  <2>. QED BY <2>1, <2>2 DEF Amounts, SoldOf, Sale
<1>. HIDE DEF Paying, B
<1>4. PICK f \in [SUBSET B -> Nat] : SummedBy(Amounts, B, f)
  BY <1>3, SumExists
<1>5. SummedBy(Amounts, B, g)
  <2>1. Paying(g)
    BY <1>2, <1>4
  <2>. QED BY <1>2, <2>1
<1>. HIDE DEF g
<1>6. Sum(Amounts, B) = g[B]
  BY <1>3, <1>5, SumIs
<1>. QED BY <1>1, <1>6 DEF B

(***************************************************************************)
(* ProceedsForwarded in terms of these sums.                               *)
(***************************************************************************)
LEMMA ProceedsAre ==
  ASSUME settlements \in [Nouns -> {NotYet} \cup Sale]
  PROVE  ProceedsForwarded <=> Proceeds
<1>1. Nouns \in SUBSET Nouns /\ Shared \in SUBSET Nouns
  BY DEF Shared
<1>2. \A ids \in SUBSET Nouns :
        MapThenSumSet(LAMBDA id : settlements[id].amount, SoldOf(ids)) = Sum(Amounts, SoldOf(ids))
  BY PaidIs
<1>3. ProceedsForwarded <=>
        /\ (eth[DAO] + weth[DAO]) + (eth[NounsTreasury] + weth[NounsTreasury])
             = MapThenSumSet(LAMBDA id : settlements[id].amount, SoldOf(Nouns))
        /\ eth[NounsTreasury] + weth[NounsTreasury]
             <= MapThenSumSet(LAMBDA id : settlements[id].amount, SoldOf(Shared))
  BY DEF ProceedsForwarded, SoldOf, Shared
<1>4. /\ MapThenSumSet(LAMBDA id : settlements[id].amount, SoldOf(Nouns)) = Sum(Amounts, SoldOf(Nouns))
      /\ MapThenSumSet(LAMBDA id : settlements[id].amount, SoldOf(Shared)) = Sum(Amounts, SoldOf(Shared))
  BY <1>1, <1>2
<1>. QED BY <1>3, <1>4 DEF Proceeds

(***************************************************************************)
(* One more sale adds its price to the sums it belongs to.                 *)
(***************************************************************************)
LEMMA SaleAdds ==
  ASSUME AuctionInv, Settle, NEW ids \in SUBSET Nouns
  PROVE  /\ Sum(Amounts, SoldOf(ids)) \in Nat
         /\ Sum(Amounts', SoldOf(ids)') =
              Sum(Amounts, SoldOf(ids)) + (IF auction.unounId \in ids THEN auction.amount ELSE 0)
<1>. DEFINE lot == auction.unounId
            S == SoldOf(ids)
            w == Amounts
            u == Amounts'
<1>1. /\ Unsettled /\ lot \in Nouns /\ SaleNow \in Sale
      /\ settlements' = [settlements EXCEPT ![lot] = SaleNow]
  BY SettleChanges
<1>2. settlements \in [Nouns -> {NotYet} \cup Sale] /\ settlements[lot] = NotYet
  BY <1>1 DEF AuctionInv, Fresh
<1>3. lot \notin S
  BY <1>2 DEF SoldOf
<1>4. SoldOf(ids)' = IF lot \in ids THEN S \cup {lot} ELSE S
  BY <1>1, <1>2, PartiesDiffer DEF SoldOf, Sale
<1>5. IsFiniteSet(S)
  <2>1. S \subseteq Nouns
    BY DEF SoldOf
  <2>. QED BY <2>1, AuctionConstants, FS_Subset
<1>6. /\ \A v \in S : w[v] \in Nat /\ u[v] = w[v]
      /\ u[lot] = auction.amount /\ auction.amount \in Nat
  <2>1. \A v \in S : v \in Nouns /\ v # lot /\ settlements[v] \in Sale
    BY <1>2, <1>3 DEF SoldOf
  <2>2. \A v \in S : settlements'[v] = settlements[v]
    BY <1>1, <1>2, <2>1
  <2>3. \A v \in S : w[v] \in Nat /\ u[v] = w[v]
    BY <2>1, <2>2 DEF Amounts, Sale
  <2>4. u[lot] = auction.amount
    BY <1>1, <1>2 DEF Amounts, SaleNow
  <2>. QED BY <2>3, <2>4 DEF AuctionInv, HouseTyped, AuctionType
<1>. HIDE DEF S, w, u, lot
<1>7. Sum(u, S) = Sum(w, S)
  BY <1>5, <1>6, SumSame
<1>8. Sum(w, S) \in Nat /\ Sum(u, S \cup {lot}) = Sum(w, S) + u[lot]
  <2>1. \A v \in S : u[v] \in Nat
    BY <1>6
  <2>2. u[lot] \in Nat
    BY <1>6
  <2>3. Sum(u, S) \in Nat /\ Sum(u, S \cup {lot}) = Sum(u, S) + u[lot]
    BY <1>3, <1>5, <2>1, <2>2, SumGrows
  <2>. QED BY <1>7, <2>3
<1>9. Sum(u, SoldOf(ids)') = Sum(w, S) + (IF lot \in ids THEN auction.amount ELSE 0)
  BY <1>4, <1>6, <1>7, <1>8
<1>. QED BY <1>8, <1>9 DEF S, w, u, lot

(***************************************************************************)
(* A settlement pays what it adds to the sums; a bid passes the treasuries *)
(* by; nothing else moves money or sells.                                  *)
(***************************************************************************)
LEMMA ProceedsStep ==
  ASSUME AuctionInv, Proceeds, [Next]_vars, TreasuriesOnlyReceive
  PROVE  Proceeds'
<1>. DEFINE Dao == eth[DAO] + weth[DAO]
            Other == eth[NounsTreasury] + weth[NounsTreasury]
            Same == Dao' = Dao /\ Other' = Other /\ UNCHANGED settlements
<1>1. {DAO, NounsTreasury} \subseteq Parties \ {House} /\ DAO # NounsTreasury
  BY PartiesDiffer DEF Parties, TreasuriesOnlyReceive
<1>2. Dao \in Nat /\ Other \in Nat
  BY <1>1 DEF AuctionInv, MoneyTyped
<1>3. ASSUME Same PROVE Proceeds'
  BY <1>3 DEF Proceeds, Amounts, SoldOf, Shared
<1>4. CASE SettleCurrentAndCreateNewAuction \/ SettleAuction
  <2>. DEFINE price == auction.amount
              all == Sum(Amounts, SoldOf(Nouns))
              part == Sum(Amounts, SoldOf(Shared))
  <2>1. Settle
    BY <1>4, SalesKeep
  <2>2. price \in Nat /\ auction.unounId \in Nouns
    BY <2>1, SettleChanges DEF AuctionInv, HouseTyped, AuctionType
  <2>3. all \in Nat /\ all' = all + price
    <3>1. Nouns \in SUBSET Nouns
      OBVIOUS
    <3>. QED BY <2>1, <2>2, <3>1, SaleAdds
  <2>4. part \in Nat /\ part' = part + (IF auction.unounId \in Shared THEN price ELSE 0)
    <3>1. Shared \in SUBSET Nouns
      BY DEF Shared
    <3>. QED BY <2>1, <3>1, SaleAdds
  <2>5. /\ Dao' = (IF Beneficiary = DAO THEN Dao + price ELSE Dao)
        /\ Other' = (IF Beneficiary = NounsTreasury THEN Other + price ELSE Other)
    BY <1>1, <2>1, SettleChanges
  <2>6. \/ Beneficiary = DAO
        \/ Beneficiary = NounsTreasury /\ auction.unounId \in Shared
    BY <2>2 DEF Beneficiary, Shared
  <2>7. Dao + Other = all /\ Other <= part
    BY DEF Proceeds
  <2>8. Dao' + Other' = all' /\ Other' <= part'
    <3>. HIDE DEF Dao, Other, all, part, price, Beneficiary
    <3>1. CASE Beneficiary = DAO
      <4>1. Dao' = Dao + price /\ Other' = Other
        BY <1>1, <2>5, <3>1
      <4>2. part' >= part
        BY <2>2, <2>4
      <4>. QED BY <1>2, <2>2, <2>3, <2>4, <2>7, <4>1, <4>2
    <3>2. CASE Beneficiary = NounsTreasury /\ auction.unounId \in Shared
      <4>1. Dao' = Dao /\ Other' = Other + price /\ part' = part + price
        BY <1>1, <2>4, <2>5, <3>2
      <4>. QED BY <1>2, <2>2, <2>3, <2>4, <2>7, <4>1
    <3>. QED BY <2>6, <3>1, <3>2
  <2>. QED BY <2>8 DEF Proceeds
<1>5. CASE \E b \in Bidders, id \in Nouns, v \in 0 .. Budget : CreateBid(b, id, v)
  <2>1. PICK b \in Bidders, id \in Nouns, v \in 0 .. Budget : CreateBid(b, id, v)
    BY <1>5
  <2>2. v \in Nat
    BY AuctionConstants
  <2>3. \A p \in Parties \ {House} :
          eth'[p] + weth'[p] =
            (eth[p] + weth[p]) - (IF p = b THEN v ELSE 0)
              + (IF p = auction.bidder THEN auction.amount ELSE 0)
    BY <2>1, <2>2, BidChanges
  <2>4. ASSUME NEW p \in {DAO, NounsTreasury} PROVE eth'[p] + weth'[p] = eth[p] + weth[p]
    <3>1. p # b /\ p \in Parties \ {House}
      BY <1>1 DEF TreasuriesOnlyReceive
    <3>2. p = auction.bidder => auction.amount = 0
      BY DEF TreasuriesOnlyReceive, AuctionInv, Running, HouseTyped, AuctionType
    <3>3. eth[p] + weth[p] \in Nat
      BY <1>1 DEF AuctionInv, MoneyTyped
    <3>. DEFINE m == eth[p] + weth[p]
                n == eth'[p] + weth'[p]
    <3>4. n = m - 0 + 0
      BY <2>3, <3>1, <3>2
    <3>. HIDE DEF m, n
    <3>5. n = m
      BY <3>3, <3>4 DEF m
    <3>. QED BY <3>5 DEF m, n
  <2>5. Same
    BY <2>1, <2>4 DEF CreateBid
  <2>. QED BY <1>3, <2>5
<1>6. CASE Unpause
  BY <1>3, <1>6 DEF Unpause, moneyVars
<1>7. CASE TokenStep
  BY <1>3, <1>7 DEF TokenStep, houseVars, moneyVars
<1>8. CASE Pause \/ FinishNounsDAOTreasuryShare \/ Configure \/ Tick \/ UNCHANGED vars
  BY <1>3, <1>8, QuietKeeps DEF Quietly, moneyVars
<1>. QED BY <1>4, <1>5, <1>6, <1>7, <1>8 DEF Next

(***************************************************************************)
(* The treasuries own the price of every settled auction, exactly once,    *)
(* for any number of nouns and whether or not they reject ETH; the Nouns   *)
(* DAO's treasury only from the nouns it has a share in.  If a treasury    *)
(* also bid, it would own less, by what it bids.                           *)
(***************************************************************************)
THEOREM ProceedsReachTheTreasuries ==
  ASSUME TreasuriesOnlyReceive
  PROVE  Spec => []ProceedsForwarded
<1>1. ASSUME Init PROVE Proceeds
  <2>1. settlements = [id \in Nouns |-> NotYet]
    BY <1>1 DEF Init
  <2>2. SoldOf(Nouns) = {} /\ SoldOf(Shared) = {}
    BY <2>1 DEF SoldOf, Shared
  <2>3. \A p \in {DAO, NounsTreasury} : eth[p] = 0 /\ weth[p] = 0
    BY <1>1 DEF Init, Parties, TreasuriesOnlyReceive
  <2>. QED BY <2>2, <2>3, SumOfNone DEF Proceeds
<1>2. AuctionInv /\ Proceeds /\ [Next]_vars => Proceeds'
  BY ProceedsStep
<1>3. AuctionInv /\ Proceeds => ProceedsForwarded
  BY ProceedsAre DEF AuctionInv
<1>. QED BY <1>1, <1>2, <1>3, InvariantHolds, PTL DEF Spec

-------------------------------------------------------------------------------
(* The refinement of EnglishAuction.                                       *)

Lot    == IF Unsettled THEN auction.unounId ELSE Zero
Leader == IF Unsettled THEN auction.bidder ELSE Zero
Price  == IF Unsettled THEN auction.amount ELSE 0
Money  == [b \in Bidders |-> eth[b] + weth[b]]
Winner == [id \in Nouns |-> IF settlements[id] = NotYet THEN NotYet ELSE settlements[id].winner]

(***************************************************************************)
(* An auction that is created opens a lot that nobody has won.             *)
(***************************************************************************)
LEMMA NewLotOpens ==
  ASSUME AuctionInv, NEW own, NEW id \in Nouns, Minted(id, own), auction' = NewAuction(id)
  PROVE  EA!Open(id) /\ Lot' \in Nouns
<1>1. settlements[id] = NotYet
  BY AuctionConstants DEF AuctionInv, TokenTyped, Fresh, Minted
<1>2. Unsettled'
  BY DEF NewAuction, Unsettled
<1>3. Lot' = id /\ Leader' = Zero /\ Price' = 0
  BY <1>2 DEF NewAuction, Lot, Leader, Price
<1>4. id # Lot
  <2>1. CASE Unsettled
    BY <2>1, AuctionConstants DEF AuctionInv, TokenTyped, Fresh, Minted, Lot, Unsettled
  <2>2. CASE ~ Unsettled
    BY <2>2, PartiesDiffer DEF Lot
  <2>. QED BY <2>1, <2>2
<1>5. Winner[id] = NotYet
  BY <1>1 DEF Winner
<1>. QED BY <1>3, <1>4, <1>5 DEF EA!Open, Lot, Leader, Price, Winner

(***************************************************************************)
(* A settlement closes the lot; with the money of the bidders it does      *)
(* nothing, since the price was paid with the bid.                         *)
(***************************************************************************)
LEMMA SaleCloses ==
  ASSUME AuctionInv, SettleCurrentAndCreateNewAuction \/ SettleAuction, TreasuriesOnlyReceive
  PROVE  EA!Close
<1>1. /\ Settle /\ Unsettled /\ auction.unounId \in Nouns /\ SaleNow \in Sale
      /\ settlements' = [settlements EXCEPT ![auction.unounId] = SaleNow]
      /\ \A p \in Parties \ {House} :
           eth'[p] + weth'[p] = IF p = Beneficiary THEN eth[p] + weth[p] + auction.amount
                                ELSE eth[p] + weth[p]
  BY SalesKeep, SettleChanges
<1>2. Lot = auction.unounId /\ Leader = auction.bidder /\ Lot # Zero
  BY <1>1, PartiesDiffer DEF Lot, Leader
<1>. DEFINE buyer == IF Leader = Zero THEN HallOfFame ELSE Leader
<1>3. Winner' = [Winner EXCEPT ![Lot] = buyer]
  <2>1. settlements \in [Nouns -> {NotYet} \cup Sale] /\ SaleNow # NotYet /\ SaleNow.winner = buyer
    BY <1>1, <1>2, PartiesDiffer DEF AuctionInv, SaleNow, Sale, AuctionWinner
  <2>. HIDE DEF SaleNow, buyer
  <2>2. ASSUME NEW id \in Nouns PROVE Winner'[id] = [Winner EXCEPT ![Lot] = buyer][id]
    <3>. HIDE DEF Leader, Lot
    <3>1. CASE id = Lot
      BY <1>1, <1>2, <2>1, <3>1 DEF Winner
    <3>2. CASE id # Lot
      BY <1>1, <1>2, <2>1, <3>2 DEF Winner
    <3>. QED BY <3>1, <3>2
  <2>3. /\ Winner' = [id \in Nouns |-> Winner'[id]]
        /\ [Winner EXCEPT ![Lot] = buyer] = [id \in Nouns |-> [Winner EXCEPT ![Lot] = buyer][id]]
    BY DEF Winner
  <2>. QED BY <2>2, <2>3
<1>4. Money' = Money
  <2>1. Beneficiary \notin Bidders /\ Bidders \subseteq Parties \ {House}
    BY PartiesDiffer DEF TreasuriesOnlyReceive, Beneficiary, Parties
  <2>. HIDE DEF Beneficiary
  <2>. QED BY <1>1, <2>1 DEF Money
<1>5. \/ Lot' = Zero /\ Leader' = Zero /\ Price' = 0
      \/ \E l \in Nouns : EA!Open(l)
  <2>. DEFINE auc == [auction EXCEPT !.settled = TRUE]
  <2>1. auc.settled
    BY DEF AuctionInv, HouseTyped, AuctionType
  <2>2. \/ auction' = auc
        \/ \E id \in Nouns : Minted(id, SettledOwners) /\ auction' = NewAuction(id)
    <3>1. CASE SettleCurrentAndCreateNewAuction
      <4>1. CreateAuction(auc, SettledOwners, FALSE) /\ auc \in AuctionType
        BY <3>1 DEF SettleCurrentAndCreateNewAuction, AuctionInv, HouseTyped, AuctionType
      <4>. HIDE DEF auc
      <4>. QED BY <4>1, SettledOwnersAre, CreateChanges DEF AuctionInv, HouseTyped
    <3>2. CASE SettleAuction
      BY <3>2 DEF SettleAuction
    <3>. QED BY <3>1, <3>2
  <2>3. CASE auction' = auc
    <3>. HIDE DEF auc
    <3>. QED BY <2>1, <2>3 DEF Lot, Leader, Price, Unsettled
  <2>4. CASE \E id \in Nouns : Minted(id, SettledOwners) /\ auction' = NewAuction(id)
    BY <2>4, NewLotOpens
  <2>. QED BY <2>2, <2>3, <2>4
<1>. QED
  BY <1>2, <1>3, <1>4, <1>5 DEF EA!Close, Lot, Leader, Price, Money, Winner

(***************************************************************************)
(* createBid is a bid: the other bidder has its money back in the step.    *)
(***************************************************************************)
LEMMA BidIsBid ==
  ASSUME AuctionInv, NEW b \in Bidders, NEW v \in 0 .. Budget, NEW id, CreateBid(b, id, v)
  PROVE  EA!Bid(b, v)
<1>1. v \in Nat
  BY AuctionConstants
<1>2. /\ Unsettled /\ v >= auction.amount /\ v <= eth[b]
      /\ auction' = [auction EXCEPT !.amount = v, !.bidder = b]
      /\ \A p \in Parties \ {House} :
           eth'[p] + weth'[p] =
             (eth[p] + weth[p]) - (IF p = b THEN v ELSE 0)
               + (IF p = auction.bidder THEN auction.amount ELSE 0)
  BY <1>1, BidChanges
<1>3. /\ Lot = auction.unounId /\ Lot # Zero /\ Leader = auction.bidder /\ Price = auction.amount
      /\ Price \in Nat /\ Leader \in Bidders \cup {Zero}
  BY <1>2, PartiesDiffer DEF Lot, Leader, Price, AuctionInv, Fresh, Unsettled, HouseTyped, AuctionType
<1>4. Lot' = Lot /\ Leader' = b /\ Price' = v
  BY <1>2 DEF Lot, Leader, Price, Unsettled, AuctionInv, HouseTyped, AuctionType
<1>5. Winner' = Winner
  BY DEF CreateBid, Winner
<1>6. Bidders \subseteq Parties \ {House} /\ Zero \notin Bidders
  BY PartiesDiffer DEF Parties
<1>7. /\ Money \in [Bidders -> Nat] /\ v <= Money[b]
      /\ \A p \in Bidders : /\ Money[p] = eth[p] + weth[p]
                            /\ Money'[p] = eth'[p] + weth'[p]
  BY <1>1, <1>2, <1>6 DEF AuctionInv, MoneyTyped, Money
<1>8. \A p \in Bidders : Money'[p] = Money[p] - (IF p = b THEN v ELSE 0)
                                      + (IF p = Leader THEN Price ELSE 0)
  BY <1>2, <1>3, <1>6, <1>7
<1>. DEFINE refunded == IF Leader = Zero THEN Money ELSE [Money EXCEPT ![Leader] = @ + Price]
<1>9. Money' = [refunded EXCEPT ![b] = @ - v]
  <2>1. Money' = [p \in Bidders |-> Money'[p]]
    BY DEF Money
  <2>. HIDE DEF Money, Leader, Price
  <2>2. ASSUME NEW p \in Bidders PROVE Money'[p] = [refunded EXCEPT ![b] = @ - v][p]
    BY <1>1, <1>3, <1>6, <1>7, <1>8
  <2>3. [refunded EXCEPT ![b] = @ - v] = [p \in Bidders |-> [refunded EXCEPT ![b] = @ - v][p]]
    BY <1>7
  <2>. HIDE DEF refunded
  <2>. QED BY <2>1, <2>2, <2>3
<1>. QED
  BY <1>2, <1>3, <1>4, <1>5, <1>7, <1>9 DEF EA!Bid, Lot, Leader, Price, Money, Winner

(***************************************************************************)
(* Every step is one of the auction, or none that bidders see.             *)
(***************************************************************************)
LEMMA AuctionSteps ==
  ASSUME AuctionInv, [Next]_vars, TreasuriesOnlyReceive
  PROVE  [EA!Next]_(EA!eaVars)
<1>. DEFINE Unseen == UNCHANGED <<Lot, Leader, Price, Money, Winner>>
<1>0. Unseen => UNCHANGED EA!eaVars
  BY DEF EA!eaVars, Lot, Leader, Price, Money, Winner
<1>1. CASE SettleCurrentAndCreateNewAuction \/ SettleAuction
  BY <1>1, SaleCloses DEF EA!Next
<1>2. CASE \E b \in Bidders, id \in Nouns, v \in 0 .. Budget : CreateBid(b, id, v)
  BY <1>2, BidIsBid DEF EA!Next
<1>3. CASE Unpause
  <2>1. UNCHANGED <<moneyVars, settlements>>
    BY <1>3 DEF Unpause
  <2>2. CASE UNCHANGED <<auction, nounOwner>>
    BY <1>0, <2>1, <2>2 DEF Lot, Leader, Price, Money, Winner, Unsettled, moneyVars
  <2>3. CASE ~ Unsettled /\ \E id \in Nouns : Minted(id, nounOwner) /\ auction' = NewAuction(id)
    <3>1. PICK id \in Nouns : Minted(id, nounOwner) /\ auction' = NewAuction(id)
      BY <2>3
    <3>2. EA!Open(id)
      BY <3>1, NewLotOpens
    <3>3. Lot = Zero
      BY <2>3 DEF Lot
    <3>4. UNCHANGED <<Money, Winner>>
      BY <2>1 DEF Money, Winner, moneyVars
    <3>5. EA!Start
      BY <3>2, <3>3, <3>4 DEF EA!Start, Lot, Money, Winner
    <3>. QED BY <3>5 DEF EA!Next
  <2>. QED BY <1>3, <2>2, <2>3, UnpauseKeeps
<1>4. CASE TokenStep
  BY <1>0, <1>4 DEF TokenStep, houseVars, moneyVars, Lot, Leader, Price, Money, Winner, Unsettled
<1>5. CASE Pause \/ FinishNounsDAOTreasuryShare \/ Configure \/ Tick \/ UNCHANGED vars
  BY <1>0, <1>5, QuietKeeps DEF Quietly, moneyVars, Lot, Leader, Price, Money, Winner, Unsettled
<1>. QED BY <1>1, <1>2, <1>3, <1>4, <1>5 DEF Next

(***************************************************************************)
(* Bidders experience an English auction: the house, with its pauses,      *)
(* settings, rejected transfers and minters, implements EnglishAuction, if *)
(* no bidder is a treasury that receives the proceeds.                     *)
(***************************************************************************)
THEOREM HouseImplementsEnglishAuction ==
  ASSUME TreasuriesOnlyReceive
  PROVE  Spec => ImplementsEnglishAuction
<1>1. Init => EA!Init
  <2>. SUFFICES ASSUME Init PROVE EA!Init
    OBVIOUS
  <2>1. Lot = Zero /\ Leader = Zero /\ Price = 0
    BY DEF Init, Unsettled, Lot, Leader, Price
  <2>2. Money = [b \in Bidders |-> Budget]
    <3>1. \A b \in Bidders : eth[b] = Budget /\ weth[b] = 0 /\ Budget + 0 = Budget
      BY AuctionConstants DEF Init, Parties
    <3>. QED BY <3>1 DEF Money
  <2>3. Winner = [id \in Nouns |-> NotYet]
    BY DEF Init, Winner
  <2>. QED BY <2>1, <2>2, <2>3 DEF EA!Init, Lot, Leader, Price, Money, Winner
<1>2. AuctionInv /\ [Next]_vars => [EA!Next]_(EA!eaVars)
  BY AuctionSteps
<1>. QED BY <1>1, <1>2, InvariantHolds, PTL DEF Spec, ImplementsEnglishAuction, EA!Spec
===============================================================================
