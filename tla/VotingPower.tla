------------------------------ MODULE VotingPower ------------------------------
(***************************************************************************)
(* What the voting side of the noun token promises, without checkpoints:   *)
(* an account has as many votes as there are nouns whose owner delegates   *)
(* to it (everybody delegates to itself until it chooses otherwise), and   *)
(* the votes of a finished block are those at the block's end, forever.    *)
(* ERC721Checkpointable implements this specification; the governance      *)
(* modules read votes only through it.                                     *)
(***************************************************************************)
EXTENDS Naturals, FiniteSets

CONSTANTS Accounts, Zero, Tokens, MaxBlock

VARIABLES
  owner,     \* the owner of every noun, Zero if it does not exist
  delegate,  \* the account that casts the votes of every account
  block,     \* the number of the block being built
  past       \* past[b]: the votes of every account at the end of block b

vpVars == <<owner, delegate, block, past>>

Votes(a) ==
  Cardinality({id \in Tokens : owner[id] # Zero /\ delegate[owner[id]] = a})

Init ==
  /\ owner = [id \in Tokens |-> Zero]
  /\ delegate = [a \in Accounts |-> a]
  /\ block = 1
  /\ past = [b \in {0} |-> [a \in Accounts |-> 0]]

\* mint, transfer or burn
Reassign(id, to) ==
  /\ owner' = [owner EXCEPT ![id] = to]
  /\ UNCHANGED <<delegate, block, past>>

Delegate(a, to) ==
  /\ delegate' = [delegate EXCEPT ![a] = to]
  /\ UNCHANGED <<owner, block, past>>

Mine ==
  /\ block < MaxBlock
  /\ block' = block + 1
  /\ past' = [b \in 0 .. block |->
                IF b < block THEN past[b] ELSE [a \in Accounts |-> Votes(a)]]
  /\ UNCHANGED <<owner, delegate>>

Next ==
  \/ \E id \in Tokens, to \in Accounts \cup {Zero} : Reassign(id, to)
  \/ \E a, to \in Accounts : Delegate(a, to)
  \/ Mine

Spec == Init /\ [][Next]_vpVars
===============================================================================
