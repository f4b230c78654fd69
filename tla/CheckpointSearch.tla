--------------------------- MODULE CheckpointSearch ---------------------------
(***************************************************************************)
(* A checkpoint list driven by arbitrary writes, next to the plain record  *)
(* of what the value was when each block ended, which is the reference the *)
(* binary search is checked against.                                       *)
(***************************************************************************)
EXTENDS Checkpoints

CONSTANTS
  Values,    \* what is written
  LastBlock  \* bound: the last block of a behaviour

VARIABLES cps, searchBlock, written, past

searchVars == <<cps, searchBlock, written, past>>

Default == 0

SearchInit ==
  /\ cps = <<>>
  /\ searchBlock = 1
  /\ written = Default
  /\ past = <<>>

WriteCheckpoint(v) ==
  /\ cps' = Written(cps, searchBlock, v)
  /\ written' = v
  /\ UNCHANGED <<searchBlock, past>>

EndBlock ==
  /\ searchBlock < LastBlock
  /\ searchBlock' = searchBlock + 1
  /\ past' = Append(past, written)
  /\ UNCHANGED <<cps, written>>

SearchNext == EndBlock \/ \E v \in Values : WriteCheckpoint(v)

SearchSpec == SearchInit /\ [][SearchNext]_searchVars

(***************************************************************************)
(* The search of getPriorVotes and getDynamicQuorumParamsAt returns, for   *)
(* every finished block, the value that held when that block ended,        *)
(* whatever the list's length and whichever blocks have no checkpoint.     *)
(***************************************************************************)
SearchReturnsPast ==
  \A b \in 1 .. searchBlock - 1 : ValueAt(cps, Default, b) = past[b]
===============================================================================
