------------------------------ MODULE TokenDomain ------------------------------
(***************************************************************************)
(* The addresses and ids the contracts of the noun token range over.       *)
(***************************************************************************)
EXTENDS Naturals, FiniteSets

CONSTANTS
  Accounts,    \* addresses that can own nouns and send transactions
  Zero,        \* address(0)
  Tokens,      \* the ids that can be minted
  Approvees,   \* bound: the accounts approved for a single noun
  Operators    \* bound: the accounts approved for all of an account's nouns

ASSUME ZeroIsNoAccount      == Zero \notin Accounts
ASSUME TokensAreNumbers     == Tokens \subseteq Nat /\ IsFiniteSet(Tokens)
ASSUME ApprovedAreAccounts  == Approvees \subseteq Accounts /\ Operators \subseteq Accounts

Addresses == Accounts \cup {Zero}
===============================================================================
