---------------------------- MODULE ERC721Enumerable ----------------------------
(***************************************************************************)
(* base/ERC721Enumerable.sol: the list of all nouns and the list of each   *)
(* account's nouns, kept by the _beforeTokenTransfer hook with swap-and-   *)
(* pop removals.  Every action is the ERC721 action together with the hook.*)
(* The hook runs first, so it reads the balances from before the transfer. *)
(*                                                                         *)
(* _allTokens is a sequence: index i of the contract is element i + 1.     *)
(* _ownedTokens[a] is a mapping from index to id, and what `delete' leaves *)
(* in a mapping is 0, which is also the id of a noun and a valid index.    *)
(***************************************************************************)
EXTENDS TokenDomain, Sequences

VARIABLES owners, balances, tokenApprovals, operatorApprovals

VARIABLES
  ownedTokens,       \* _ownedTokens: account, index -> id
  ownedTokensIndex,  \* _ownedTokensIndex: id -> its index in its owner's list
  allTokens,         \* _allTokens
  allTokensIndex     \* _allTokensIndex: id -> its index in allTokens

Base == INSTANCE ERC721

ownedVars == <<ownedTokens, ownedTokensIndex>>
allVars   == <<allTokens, allTokensIndex>>
enumVars  == <<owners, balances, tokenApprovals, operatorApprovals,
               ownedVars, allVars>>

Slots == 0 .. Cardinality(Tokens) - 1

Init ==
  /\ Base!Init
  /\ ownedTokens = [a \in Accounts |-> [i \in Slots |-> 0]]
  /\ ownedTokensIndex = [id \in Tokens |-> 0]
  /\ allTokens = <<>>
  /\ allTokensIndex = [id \in Tokens |-> 0]

-------------------------------------------------------------------------------
(* The four private functions of the hook.                                 *)

AddToAll(id) ==
  /\ allTokensIndex' = [allTokensIndex EXCEPT ![id] = Len(allTokens)]
  /\ allTokens' = Append(allTokens, id)

\* always swaps, even when id is the last element
RemoveFromAll(id) ==
  LET last == Len(allTokens) - 1
      i    == allTokensIndex[id]
      lastId == allTokens[last + 1]
  IN  /\ allTokens' = SubSeq([allTokens EXCEPT ![i + 1] = lastId], 1, last)
      /\ allTokensIndex' =
           [[allTokensIndex EXCEPT ![lastId] = i] EXCEPT ![id] = 0]

\* The values of the owner enumeration, as the pair
\* <<ownedTokens, ownedTokensIndex>>, after a removal and after an addition.
RemovedFromOwner(from, id) ==
  LET last == balances[from] - 1
      i    == ownedTokensIndex[id]
      lastId == ownedTokens[from][last]
  IN  IF i # last
      THEN << [ownedTokens EXCEPT ![from] =
                 [@ EXCEPT ![i] = lastId, ![last] = 0]],
              [ownedTokensIndex EXCEPT ![lastId] = i, ![id] = 0] >>
      ELSE << [ownedTokens EXCEPT ![from][last] = 0],
              [ownedTokensIndex EXCEPT ![id] = 0] >>

AddedToOwner(pair, to, id) ==
  << [pair[1] EXCEPT ![to][balances[to]] = id],
     [pair[2] EXCEPT ![id] = balances[to]] >>

\* from and to are never both the zero address
BeforeTokenTransfer(from, to, id) ==
  /\ CASE from = Zero -> AddToAll(id)
       [] to = Zero   -> RemoveFromAll(id)
       [] OTHER       -> UNCHANGED allVars
  /\ LET pair ==
           CASE from = to   -> ownedVars
             [] from = Zero -> AddedToOwner(ownedVars, to, id)
             [] to = Zero   -> RemovedFromOwner(from, id)
             [] OTHER       -> AddedToOwner(RemovedFromOwner(from, id), to, id)
     IN  /\ ownedTokens' = pair[1]
         /\ ownedTokensIndex' = pair[2]

-------------------------------------------------------------------------------

Mint(to, id) ==
  /\ Base!Mint(to, id)
  /\ BeforeTokenTransfer(Zero, to, id)

Burn(id) ==
  /\ Base!Burn(id)
  /\ BeforeTokenTransfer(owners[id], Zero, id)

TransferFrom(sender, from, to, id) ==
  /\ Base!TransferFrom(sender, from, to, id)
  /\ BeforeTokenTransfer(from, to, id)

Approve(sender, to, id) ==
  /\ Base!Approve(sender, to, id)
  /\ UNCHANGED <<ownedVars, allVars>>

SetApprovalForAll(sender, operator, approved) ==
  /\ Base!SetApprovalForAll(sender, operator, approved)
  /\ UNCHANGED <<ownedVars, allVars>>

Next ==
  \/ \E to \in Accounts, id \in Tokens : Mint(to, id)
  \/ \E id \in Tokens : Burn(id)
  \/ \E sender, from, to \in Accounts, id \in Tokens :
       TransferFrom(sender, from, to, id)
  \/ \E sender \in Accounts, to \in Approvees \cup {Zero}, id \in Tokens :
       Approve(sender, to, id)
  \/ \E sender \in Accounts, operator \in Operators, approved \in BOOLEAN :
       SetApprovalForAll(sender, operator, approved)

Spec == Init /\ [][Next]_enumVars

-------------------------------------------------------------------------------

TypeOK ==
  /\ Base!TypeOK
  /\ ownedTokens \in [Accounts -> [Slots -> Tokens \cup {0}]]
  /\ ownedTokensIndex \in [Tokens -> Slots]
  /\ allTokens \in Seq(Tokens)
  /\ allTokensIndex \in [Tokens -> Slots]

\* the properties of ERC721, which the hook must not disturb
BalancesCountTokens       == Base!BalancesCountTokens
ApprovalsDieWithOwnership == Base!ApprovalsDieWithOwnership

(***************************************************************************)
(* tokenByIndex and totalSupply list exactly the nouns that exist, each    *)
(* once, and the back-pointer of every listed noun is its position: what   *)
(* RemoveFromAll relies on to overwrite the right element.                 *)
(***************************************************************************)
AllTokensListed ==
  /\ {allTokens[i] : i \in DOMAIN allTokens} = {id \in Tokens : Base!Exists(id)}
  /\ \A i \in DOMAIN allTokens : allTokensIndex[allTokens[i]] = i - 1

(***************************************************************************)
(* tokenOfOwnerByIndex lists exactly the nouns of the account in the first *)
(* balanceOf slots, with correct back-pointers, and holds nothing beyond   *)
(* them: the swap-and-pop of a transfer, which works on the balances from  *)
(* before it, never loses a noun or leaves a stale one behind.             *)
(***************************************************************************)
OwnedTokensListed ==
  \A a \in Accounts :
    /\ {ownedTokens[a][i] : i \in 0 .. balances[a] - 1} = Base!TokensOf(a)
    /\ \A i \in 0 .. balances[a] - 1 : ownedTokensIndex[ownedTokens[a][i]] = i
    /\ \A i \in Slots : i >= balances[a] => ownedTokens[a][i] = 0
===============================================================================
