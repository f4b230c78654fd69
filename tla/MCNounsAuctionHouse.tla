-------------------------- MODULE MCNounsAuctionHouse --------------------------
(***************************************************************************)
(* Instances of NounsAuctionHouse: two bidders, one of which rejects ETH.  *)
(* The house takes over minting near one of the special ids: 2 and 90 are  *)
(* rewards, one of the council's and one of the founders', the proceeds of *)
(* 88 are shared.                                                          *)
(***************************************************************************)
EXTENDS NounsAuctionHouse

CONSTANTS b1, b2, otherMinter

MCBidders == {b1, b2}

MCRejectsETH == {b2}

MCNewMinters == {House, otherMinter}
===============================================================================
