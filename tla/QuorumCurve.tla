------------------------------ MODULE QuorumCurve ------------------------------
(***************************************************************************)
(* The dialog that explains a proposal's dynamic quorum while it is voted  *)
(* on.  It computes the quorum once more, with fractions, from the votes   *)
(* against and the parameters at the proposal's start; the governor        *)
(* computes in integers, from the parameters when it was proposed.         *)
(***************************************************************************)
EXTENDS Integers

CONSTANTS
  Supplies,      \* how many nouns there may be when the proposal is made; one a day for
                 \* 27 years is less than 10000, so that each is a basis point or more
  Shares,        \* of the supply, for minimum and maximum, in basis points
  Coefficients,  \* of the quorum
  One            \* the coefficient that stands for 1, 1e6 in the code

ASSUME CurveConstants ==
  /\ Supplies \subseteq 1..10000
  /\ Shares \subseteq 0..10000
  /\ Coefficients \subseteq Nat /\ One \in Nat \ {0}

VARIABLES
  supply,        \* when the proposal was made
  againstVotes,
  proposedWith,  \* the parameters when the proposal was made
  startedWith,   \* the latest ones, and those of the start once it has started
  started

curveVars == <<supply, againstVotes, proposedWith, startedWith, started>>

Quorum == INSTANCE DynamicQuorum WITH quorumVotesBPS <- 0, CoefficientOne <- One

\* within MIN_QUORUM_VOTES_BPS_UPPER_BOUND
CurveParams == {p \in [min : Shares, max : Shares, coefficient : Coefficients] :
                           p.min <= 2000 /\ p.min <= p.max}

CurveInit ==
  /\ supply \in Supplies
  /\ againstVotes = 0
  /\ proposedWith \in CurveParams /\ startedWith = proposedWith
  /\ started = FALSE

SetParams(params) ==
  /\ ~started
  /\ startedWith' = params
  /\ UNCHANGED <<supply, againstVotes, proposedWith, started>>

StartVoting ==
  /\ ~started /\ started' = TRUE
  /\ UNCHANGED <<supply, againstVotes, proposedWith, startedWith>>

VoteAgainst ==
  /\ started /\ againstVotes < supply
  /\ againstVotes' = againstVotes + 1
  /\ UNCHANGED <<supply, proposedWith, startedWith, started>>

CurveNext == \/ \E p \in CurveParams : SetParams(p)
             \/ StartVoting \/ VoteAgainst

CurveSpec == CurveInit /\ [][CurveNext]_curveVars

\* what DynamicQuorumInfoModal hands to its overlay
againstVotesBps == (againstVotes * 10000) \div supply

\* dqmFunction, in units of 1/One basis point
dqmFunction(bps) ==
  Quorum!AtMost(startedWith.max * One, startedWith.min * One + startedWith.coefficient * bps)

\* the "Current Threshold" of a small screen, in nouns
ThresholdShown == (dqmFunction(againstVotesBps) * supply) \div (10000 * One)

\* seeded error: the point stays on the slope when it has reached the top
OnPlateauLate ==
  startedWith.coefficient * againstVotesBps > (startedWith.max - startedWith.min) * One

\* whether the point of the graph is at or beyond linearToConstantCrossoverBPS, which is
\* infinite, or no number, if the coefficient is 0
OnPlateau ==
  startedWith.coefficient * againstVotesBps >= (startedWith.max - startedWith.min) * One

\* the nouns at which the slope ends, rounded down; the slope is 470 wide
SlopeEnd ==
  ((startedWith.max - startedWith.min) * supply * One) \div (startedWith.coefficient * 10000)

\* x of the point, times SlopeEnd
PointShown ==
  IF OnPlateau \/ startedWith.coefficient = 0 \/ SlopeEnd <= 0 THEN 0 ELSE againstVotes * 470

(***************************************************************************)
(* With the governor's parameters the dialog shows the governor's quorum,  *)
(* or one noun more where a fraction of a basis point tips the balance;    *)
(* its point leaves the slope exactly when the governor's quorum reaches   *)
(* its maximum, and until then is no more than a noun beyond the slope's   *)
(* end, which is rounded down to nouns (DynamicQuorumInfoModal against     *)
(* NounsDAOLogicV2.dynamicQuorumVotes).                                    *)
(***************************************************************************)
CurveIsGovernors ==
  startedWith = proposedWith =>
    LET quorum     == Quorum!dynamicQuorumVotes(againstVotes, supply, proposedWith)
        adjustment == (proposedWith.coefficient * againstVotesBps) \div One
        exact      == (proposedWith.coefficient * againstVotesBps) % One = 0
    IN  /\ ThresholdShown \in {quorum, quorum + 1}
        /\ exact => ThresholdShown = quorum
        /\ OnPlateau <=> proposedWith.min + adjustment >= proposedWith.max
        /\ PointShown > 0 => PointShown <= 470 * (SlopeEnd + 1)
===============================================================================
