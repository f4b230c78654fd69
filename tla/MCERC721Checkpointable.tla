------------------------ MODULE MCERC721Checkpointable ------------------------
(***************************************************************************)
(* Instances of ERC721Checkpointable for model checking.  a1 signs; the    *)
(* configurations choose which delegations it has signed.                  *)
(***************************************************************************)
EXTENDS ERC721Checkpointable, TLC

CONSTANTS a1, a2, a3

MCAccounts == {a1, a2, a3}

MCTwoAccounts == {a1, a2}

MCTokens == 0..1

MCApproved == {a2}

\* sound without signatures, when the accounts differ in nothing
MCSymmetry == Permutations(MCAccounts)

\* for the same nonce a delegation to a2 that expires in the first block and
\* one to the zero address; for the nonce after, one back to a1
MCSignatures ==
  { [signatory |-> a1, delegatee |-> a2, nonce |-> 0, expiry |-> 1],
    [signatory |-> a1, delegatee |-> Zero, nonce |-> 0, expiry |-> 2],
    [signatory |-> a1, delegatee |-> a1, nonce |-> 1, expiry |-> 2] }
===============================================================================
