----------------------------- MODULE DynamicQuorum -----------------------------
(***************************************************************************)
(* The quorum of NounsDAOLogicV2: it grows with the votes against, between *)
(* a minimum and a maximum share of the supply.  Shares are in basis       *)
(* points, the coefficient is a fixed point number, and every division     *)
(* rounds down.                                                            *)
(***************************************************************************)
EXTENDS Naturals, Checkpoints

CONSTANTS
  quorumVotesBPS,  \* the fixed quorum a V1 governor left behind
  CoefficientOne   \* the coefficient that stands for 1, 1e6 in the code

bps2Uint(bps, number) == (number * bps) \div 10000

AtMost(bound, n) == IF n < bound THEN n ELSE bound

dynamicQuorumVotes(againstVotes, totalSupply, params) ==
  LET againstVotesBPS == (10000 * againstVotes) \div totalSupply
      adjustmentBPS   == (params.coefficient * againstVotesBPS) \div CoefficientOne
  IN  bps2Uint(AtMost(params.max, params.min + adjustmentBPS), totalSupply)

\* before the first checkpoint, V1's fixed quorum
getDynamicQuorumParamsAt(cps, block) ==
  ValueAt(cps, [min |-> quorumVotesBPS, max |-> quorumVotesBPS, coefficient |-> 0],
          block)
===============================================================================
