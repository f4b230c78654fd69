------------------------------ MODULE Checkpoints ------------------------------
(***************************************************************************)
(* The checkpoint lists of the contracts: a value together with the block  *)
(* since which it holds.  ERC721Checkpointable keeps one list per account  *)
(* (its votes), NounsDAOLogicV2 one list of quorum parameters.  Both write *)
(* at most one checkpoint per block and look a past block up by the same   *)
(* binary search.  A list is a sequence: index i of the contracts' mapping *)
(* is element i + 1 here.                                                  *)
(***************************************************************************)
EXTENDS Naturals, Sequences

\* the current value; `default' before the first checkpoint
Latest(cps, default) == IF cps = <<>> THEN default ELSE cps[Len(cps)].value

\* seeded error: every write replaces, the block is not compared
WrittenInPlace(cps, block, v) ==
  IF cps # <<>>
  THEN [cps EXCEPT ![Len(cps)].value = v]
  ELSE Append(cps, [fromBlock |-> block, value |-> v])

\* a second write in the same block replaces the first
Written(cps, block, v) ==
  IF cps # <<>> /\ cps[Len(cps)].fromBlock = block
  THEN [cps EXCEPT ![Len(cps)] = [fromBlock |-> block, value |-> v]]
  ELSE Append(cps, [fromBlock |-> block, value |-> v])

\* seeded error: the middle is excluded when it is an earlier block
SearchIndexPastMiddle(cps, block) ==
  LET search[range \in (1 .. Len(cps)) \X (1 .. Len(cps))] ==
        LET lower  == range[1]
            upper  == range[2]
            center == lower + ((upper - lower) \div 2)
        IN  IF upper <= lower THEN lower
            ELSE IF cps[center].fromBlock = block THEN center
            ELSE IF cps[center].fromBlock < block THEN search[<<center + 1, upper>>]
            ELSE search[<<lower, center>>]
  IN  search[<<1, Len(cps)>>]

\* the index the binary search of the contracts ends at
SearchIndex(cps, block) ==
  LET search[range \in (1 .. Len(cps)) \X (1 .. Len(cps))] ==
        LET lower  == range[1]
            upper  == range[2]
            center == upper - ((upper - lower) \div 2)
        IN  IF upper <= lower THEN lower
            ELSE IF cps[center].fromBlock = block THEN center
            ELSE IF cps[center].fromBlock < block THEN search[<<center, upper>>]
            ELSE search[<<lower, center - 1>>]
  IN  search[<<1, Len(cps)>>]

\* the value at the end of a past block: the newest checkpoint first, then
\* the time before the first one, then the search
ValueAt(cps, default, block) ==
  IF cps = <<>> THEN default
  ELSE IF cps[Len(cps)].fromBlock <= block THEN cps[Len(cps)].value
  ELSE IF cps[1].fromBlock > block THEN default
  ELSE cps[SearchIndex(cps, block)].value

-------------------------------------------------------------------------------

\* strictly ascending blocks, none in the future
Ascending(cps, block) ==
  /\ \A i, j \in 1 .. Len(cps) : i < j => cps[i].fromBlock < cps[j].fromBlock
  /\ \A i \in 1 .. Len(cps) : cps[i].fromBlock <= block
===============================================================================
