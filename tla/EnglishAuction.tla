---------------------------- MODULE EnglishAuction ----------------------------
(***************************************************************************)
(* What the auction house promises to bidders, without clocks, settings,   *)
(* pauses or WETH: lots are sold one after the other.  A bid is at least   *)
(* the standing one and replaces it, the replaced bidder has its money     *)
(* back in the same step, and when the lot closes the leader has it and    *)
(* has paid its bid, once.  NounsAuctionHouse implements this.             *)
(***************************************************************************)
EXTENDS Naturals

CONSTANTS
  Bidders, Nobody,
  Keeper,    \* who has a lot for which nobody bid
  Lots, NotYet,
  Budget     \* what each bidder owns at the beginning

VARIABLES
  lot,       \* the lot on sale, or Nobody between two sales
  leader,    \* the highest bidder so far, or Nobody
  price,     \* the highest bid so far
  money,     \* what each bidder owns, in whatever currency
  winner     \* who got each lot; NotYet before it closes

eaVars == <<lot, leader, price, money, winner>>

Init ==
  /\ lot = Nobody
  /\ leader = Nobody
  /\ price = 0
  /\ money = [b \in Bidders |-> Budget]
  /\ winner = [l \in Lots |-> NotYet]

Open(l) ==
  /\ l # lot /\ winner[l] = NotYet
  /\ lot' = l
  /\ leader' = Nobody
  /\ price' = 0

Bid(b, v) ==
  /\ lot # Nobody
  /\ v >= price
  /\ leader' = b
  /\ price' = v
  /\ LET refunded == IF leader = Nobody THEN money
                     ELSE [money EXCEPT ![leader] = @ + price]
     IN  v <= money[b] /\ money' = [refunded EXCEPT ![b] = @ - v]
  /\ UNCHANGED <<lot, winner>>

\* the lot goes to the leader, if there is one; the next one may open at once
Close ==
  /\ lot # Nobody
  /\ winner' = [winner EXCEPT ![lot] = IF leader = Nobody THEN Keeper ELSE leader]
  /\ \/ lot' = Nobody /\ leader' = Nobody /\ price' = 0
     \/ \E l \in Lots : Open(l)
  /\ UNCHANGED money

Start ==
  /\ lot = Nobody
  /\ \E l \in Lots : Open(l)
  /\ UNCHANGED <<money, winner>>

Next ==
  \/ \E b \in Bidders, v \in 0 .. Budget : Bid(b, v)
  \/ Close
  \/ Start

Spec == Init /\ [][Next]_eaVars
===============================================================================
