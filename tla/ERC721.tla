-------------------------------- MODULE ERC721 --------------------------------
(***************************************************************************)
(* base/ERC721.sol: who owns each noun, how many nouns each account holds, *)
(* and who besides its owner may move a noun.                              *)
(*                                                                         *)
(* Every external function is one transaction: it either reverts, and then *)
(* no step happens, or takes effect as one step.  A parameter `sender' is  *)
(* msg.sender.  The contract is abstract; what derived contracts do in the *)
(* _beforeTokenTransfer hook is added by the modules that instantiate this *)
(* one (ERC721Enumerable, then ERC721Checkpointable), as the contracts do  *)
(* with `super'.                                                           *)
(***************************************************************************)
EXTENDS TokenDomain

VARIABLES
  owners,            \* _owners: Zero for a noun that does not exist
  balances,          \* _balances
  tokenApprovals,    \* _tokenApprovals: the one account approved for a noun
  operatorApprovals  \* _operatorApprovals: the operators of each account

ercVars == <<owners, balances, tokenApprovals, operatorApprovals>>

Init ==
  /\ owners = [id \in Tokens |-> Zero]
  /\ balances = [a \in Accounts |-> 0]
  /\ tokenApprovals = [id \in Tokens |-> Zero]
  /\ operatorApprovals = [a \in Accounts |-> {}]

Exists(id) == owners[id] # Zero

TokensOf(a) == {id \in Tokens : owners[id] = a}

MayMove(spender, id) ==
  /\ Exists(id)
  /\ \/ spender = owners[id]
     \/ spender = tokenApprovals[id]
     \/ spender \in operatorApprovals[owners[id]]

-------------------------------------------------------------------------------

Mint(to, id) ==
  /\ to \in Accounts
  /\ ~Exists(id)
  /\ balances' = [balances EXCEPT ![to] = @ + 1]
  /\ owners' = [owners EXCEPT ![id] = to]
  /\ UNCHANGED <<tokenApprovals, operatorApprovals>>

Burn(id) ==
  /\ Exists(id)
  /\ tokenApprovals' = [tokenApprovals EXCEPT ![id] = Zero]
  /\ balances' = [balances EXCEPT ![owners[id]] = @ - 1]
  /\ owners' = [owners EXCEPT ![id] = Zero]
  /\ UNCHANGED operatorApprovals

\* seeded error: the new balance of `to' is computed from the old one, which
\* credits an account for a transfer to itself
TransferFromOldBalance(sender, from, to, id) ==
  /\ MayMove(sender, id)
  /\ owners[id] = from
  /\ to \in Accounts
  /\ tokenApprovals' = [tokenApprovals EXCEPT ![id] = Zero]
  /\ balances' = [balances EXCEPT ![from] = balances[from] - 1,
                                 ![to] = balances[to] + 1]
  /\ owners' = [owners EXCEPT ![id] = to]
  /\ UNCHANGED operatorApprovals

\* A transfer to oneself is legal: it only drops the approval.  The receiver's
\* callback of safeTransferFrom runs after every assignment, so what it does
\* is a later step of the receiver, or the transaction reverts as a whole.
TransferFrom(sender, from, to, id) ==
  /\ MayMove(sender, id)
  /\ owners[id] = from
  /\ to \in Accounts
  /\ tokenApprovals' = [tokenApprovals EXCEPT ![id] = Zero]
  /\ balances' = [[balances EXCEPT ![from] = @ - 1] EXCEPT ![to] = @ + 1]
  /\ owners' = [owners EXCEPT ![id] = to]
  /\ UNCHANGED operatorApprovals

Approve(sender, to, id) ==
  /\ Exists(id)
  /\ to # owners[id]
  /\ sender = owners[id] \/ sender \in operatorApprovals[owners[id]]
  /\ tokenApprovals' = [tokenApprovals EXCEPT ![id] = to]
  /\ UNCHANGED <<owners, balances, operatorApprovals>>

SetApprovalForAll(sender, operator, approved) ==
  /\ operator # sender
  /\ operatorApprovals' =
       [operatorApprovals EXCEPT ![sender] =
          IF approved THEN @ \cup {operator} ELSE @ \ {operator}]
  /\ UNCHANGED <<owners, balances, tokenApprovals>>

Next ==
  \/ \E to \in Accounts, id \in Tokens : Mint(to, id)
  \/ \E id \in Tokens : Burn(id)
  \/ \E sender, from, to \in Accounts, id \in Tokens :
       TransferFrom(sender, from, to, id)
  \/ \E sender \in Accounts, to \in Approvees \cup {Zero}, id \in Tokens :
       Approve(sender, to, id)
  \/ \E sender \in Accounts, operator \in Operators, approved \in BOOLEAN :
       SetApprovalForAll(sender, operator, approved)

Spec == Init /\ [][Next]_ercVars

-------------------------------------------------------------------------------

TypeOK ==
  /\ owners \in [Tokens -> Addresses]
  /\ balances \in [Accounts -> Nat]
  /\ tokenApprovals \in [Tokens -> Addresses]
  /\ operatorApprovals \in [Accounts -> SUBSET Accounts]

(***************************************************************************)
(* balanceOf(a) is the number of nouns whose owner is a, though _mint,     *)
(* _burn and _transfer keep the two mappings by separate assignments.      *)
(* Delegation moves balanceOf votes at once, so an error here would create *)
(* or destroy votes.                                                       *)
(***************************************************************************)
BalancesCountTokens ==
  \A a \in Accounts : balances[a] = Cardinality(TokensOf(a))

(***************************************************************************)
(* No approval outlives the ownership it was given under: whenever a noun  *)
(* changes hands, by transfer, mint or burn, nobody is left approved for   *)
(* it, so a former owner's spender cannot take it from the new owner.      *)
(***************************************************************************)
ApprovalsDieWithOwnership ==
  [][\A id \in Tokens :
       owners'[id] # owners[id] => tokenApprovals'[id] = Zero]_ercVars
===============================================================================
