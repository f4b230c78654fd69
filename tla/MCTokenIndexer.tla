---------------------------- MODULE MCTokenIndexer ----------------------------
(***************************************************************************)
(* Instances of TokenIndexer.  Three nouns make a swap-and-pop move an     *)
(* element from the end to the front or the middle.  a1 is the creator     *)
(* too, and has signed a delegation to the zero address.                   *)
(***************************************************************************)
EXTENDS TokenIndexer

CONSTANTS a1, a2

MCAccounts == {a1, a2}

MCTokens == 0..2

MCSignatures ==
  {[signatory |-> a1, delegatee |-> Zero, nonce |-> 0, expiry |-> 1]}
===============================================================================
