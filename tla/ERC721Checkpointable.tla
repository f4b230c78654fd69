-------------------------- MODULE ERC721Checkpointable --------------------------
(***************************************************************************)
(* base/ERC721Checkpointable.sol: delegation of votes and the checkpoints  *)
(* of the votes of every account, on top of ERC721Enumerable.  Votes move  *)
(* in the _beforeTokenTransfer hook and in _delegate, both through         *)
(* _moveDelegates; several transactions can share a block.                 *)
(*                                                                         *)
(* checkpoints[a] holds both the mapping `checkpoints' of a and its length *)
(* numCheckpoints[a].  One clock serves for block.number and for           *)
(* block.timestamp, which grows with it: an expiry is a block number.      *)
(***************************************************************************)
EXTENDS TokenDomain, Checkpoints

CONSTANTS
  Signatures,  \* the delegations signed off chain, for delegateBySig
  MaxBlock     \* bound: the last block

ASSUME SignaturesAreDelegations ==
  Signatures \subseteq [signatory : Accounts, delegatee : Accounts \cup {Zero},
                        nonce : Nat, expiry : Nat]

VARIABLES
  owners, balances, tokenApprovals, operatorApprovals,
  ownedTokens, ownedTokensIndex, allTokens, allTokensIndex

VARIABLES
  delegatees,   \* _delegates: Zero if the account never delegated
  checkpoints,  \* checkpoints and numCheckpoints
  nonces,       \* nonces: the delegations by signature of each account
  block         \* block.number of the transaction being executed

Enum == INSTANCE ERC721Enumerable

tokenVars == <<owners, balances, tokenApprovals, operatorApprovals,
               ownedTokens, ownedTokensIndex, allTokens, allTokensIndex>>
voteVars  == <<delegatees, checkpoints, nonces>>
vars      == <<tokenVars, voteVars, block>>

Init ==
  /\ Enum!Init
  /\ delegatees = [a \in Accounts |-> Zero]
  /\ checkpoints = [a \in Accounts |-> <<>>]
  /\ nonces = [a \in Accounts |-> 0]
  /\ block = 1

-------------------------------------------------------------------------------

\* delegates(a): the zero address stands for itself, for mints and burns
Delegates(a) ==
  IF a = Zero \/ delegatees[a] = Zero THEN a ELSE delegatees[a]

GetCurrentVotes(a) == Latest(checkpoints[a], 0)

\* reverts, that is has no value, for a block that is not finished
GetPriorVotes(a, b) == ValueAt(checkpoints[a], 0, b)

\* _moveDelegates does not revert: sub96 finds enough votes at the source
CanMove(src, dst, amount) ==
  src # dst /\ amount > 0 /\ src # Zero => amount <= GetCurrentVotes(src)

\* the checkpoints after _moveDelegates
MovedDelegates(src, dst, amount) ==
  [a \in Accounts |->
     IF src = dst \/ amount = 0 \/ a \notin {src, dst} THEN checkpoints[a]
     ELSE IF a = src
          THEN Written(checkpoints[a], block, GetCurrentVotes(a) - amount)
          ELSE Written(checkpoints[a], block, GetCurrentVotes(a) + amount)]

MoveDelegates(src, dst, amount) ==
  /\ CanMove(src, dst, amount)
  /\ checkpoints' = MovedDelegates(src, dst, amount)

\* seeded error: the votes of the accounts move, not those of their delegates
BeforeTokenTransferUndelegated(from, to) ==
  /\ MoveDelegates(from, to, 1)
  /\ UNCHANGED <<delegatees, nonces, block>>

\* the hook of this contract; Enum's actions contain super's
BeforeTokenTransfer(from, to) ==
  /\ MoveDelegates(Delegates(from), Delegates(to), 1)
  /\ UNCHANGED <<delegatees, nonces, block>>

-------------------------------------------------------------------------------

Mint(to, id) ==
  /\ Enum!Mint(to, id)
  /\ BeforeTokenTransfer(Zero, to)

Burn(id) ==
  /\ Enum!Burn(id)
  /\ BeforeTokenTransfer(owners[id], Zero)

TransferFrom(sender, from, to, id) ==
  /\ Enum!TransferFrom(sender, from, to, id)
  /\ BeforeTokenTransfer(from, to)

Approve(sender, to, id) ==
  /\ Enum!Approve(sender, to, id)
  /\ UNCHANGED <<voteVars, block>>

SetApprovalForAll(sender, operator, approved) ==
  /\ Enum!SetApprovalForAll(sender, operator, approved)
  /\ UNCHANGED <<voteVars, block>>

\* seeded error: no self-delegation by default, as in the original Comp.sol
SetDelegateNoDefault(delegator, delegatee) ==
  /\ MoveDelegates(delegatees[delegator], delegatee, balances[delegator])
  /\ delegatees' = [delegatees EXCEPT ![delegator] = delegatee]

\* _delegate: the mapping changes first, the votes move from the old delegate
SetDelegate(delegator, delegatee) ==
  /\ MoveDelegates(Delegates(delegator), delegatee, balances[delegator])
  /\ delegatees' = [delegatees EXCEPT ![delegator] = delegatee]

Delegate(sender, delegatee) ==
  /\ SetDelegate(sender, IF delegatee = Zero THEN sender ELSE delegatee)
  /\ UNCHANGED <<tokenVars, nonces, block>>

\* anybody may submit the signature; the zero address is not replaced here
DelegateBySig(sig) ==
  /\ sig.nonce = nonces[sig.signatory]
  /\ block <= sig.expiry
  /\ nonces' = [nonces EXCEPT ![sig.signatory] = @ + 1]
  /\ SetDelegate(sig.signatory, sig.delegatee)
  /\ UNCHANGED <<tokenVars, block>>

Mine ==
  /\ block < MaxBlock
  /\ block' = block + 1
  /\ UNCHANGED <<tokenVars, voteVars>>

Next ==
  \/ \E to \in Accounts, id \in Tokens : Mint(to, id)
  \/ \E id \in Tokens : Burn(id)
  \/ \E sender, from, to \in Accounts, id \in Tokens :
       TransferFrom(sender, from, to, id)
  \/ \E sender \in Accounts, to \in Approvees \cup {Zero}, id \in Tokens :
       Approve(sender, to, id)
  \/ \E sender \in Accounts, operator \in Operators, approved \in BOOLEAN :
       SetApprovalForAll(sender, operator, approved)
  \/ \E sender \in Accounts, delegatee \in Accounts \cup {Zero} :
       Delegate(sender, delegatee)
  \/ \E sig \in Signatures : DelegateBySig(sig)
  \/ Mine

Spec == Init /\ [][Next]_vars

-------------------------------------------------------------------------------

CheckpointType == [fromBlock : Nat, value : Nat]

TypeOK ==
  /\ Enum!TypeOK
  /\ delegatees \in [Accounts -> Accounts \cup {Zero}]
  /\ checkpoints \in [Accounts -> Seq(CheckpointType)]
  /\ nonces \in [Accounts -> Nat]
  /\ block \in Nat

\* the nouns whose votes are cast by a
Represented(a) ==
  {id \in Tokens : owners[id] # Zero /\ Delegates(owners[id]) = a}

(***************************************************************************)
(* The last checkpoint of an account is the number of nouns whose owner's  *)
(* delegate it is: `delegates' gives an account that has not delegated its *)
(* own votes, so those are counted as well.  It has to hold through every  *)
(* order of transfers, mints, burns and (re)delegations, also when they    *)
(* concern the same accounts in the same block.                            *)
(***************************************************************************)
VotesMatchDelegation ==
  \A a \in Accounts : GetCurrentVotes(a) = Cardinality(Represented(a))

(***************************************************************************)
(* Weaker, and true whatever has been signed: no account ever has more     *)
(* votes than nouns stand behind it, so votes are never counted twice.     *)
(***************************************************************************)
VotesNeverExceedNouns ==
  \A a \in Accounts : GetCurrentVotes(a) <= Cardinality(Represented(a))

(***************************************************************************)
(* No noun is stuck: the sub96 of _moveDelegates, which would make every   *)
(* transfer, burn and delegation of an account revert, always finds the    *)
(* votes of all the account's nouns at its delegate.                       *)
(***************************************************************************)
NothingFrozen ==
  \A a \in Accounts : balances[a] <= GetCurrentVotes(Delegates(a))

(***************************************************************************)
(* Every account's checkpoints ascend strictly and none lies in the future *)
(* (_writeCheckpoint), which the search of getPriorVotes relies on.        *)
(***************************************************************************)
CheckpointsAscending ==
  \A a \in Accounts : Ascending(checkpoints[a], block)

(***************************************************************************)
(* What getPriorVotes has once answered for a finished block it answers    *)
(* forever: nobody can change the votes a proposal is decided by.          *)
(***************************************************************************)
PastVotesFinal ==
  [][\A a \in Accounts : \A b \in 0 .. block - 1 :
       GetPriorVotes(a, b)' = GetPriorVotes(a, b)]_vars

(***************************************************************************)
(* Refinement: getPriorVotes of every finished block, and the delegates,   *)
(* behave as VotingPower says.                                             *)
(***************************************************************************)
VP == INSTANCE VotingPower WITH
  owner    <- owners,
  delegate <- [a \in Accounts |-> Delegates(a)],
  past     <- [b \in 0 .. block - 1 |->
                 [a \in Accounts |-> GetPriorVotes(a, b)]]

ImplementsVotingPower == VP!Spec
===============================================================================
