----------------------------- MODULE TokenIndexer -----------------------------
(***************************************************************************)
(* The noun token together with the subgraph that indexes its events.  The *)
(* subgraph handles the events of a transaction in the order of its log;   *)
(* that it does so later than the transaction changes nothing of what it   *)
(* stores, so it keeps up here.                                            *)
(***************************************************************************)
EXTENDS ERC721Checkpointable, TokenIndex, FiniteSetsExt

CONSTANTS
  Creator,  \* owner() of the token, named in the events of every mint
  MaxOdd,   \* bound: the steps the index does not follow, see historyVars
  MaxCopies \* bound: how often a noun is stored in the same array

ASSUME IndexerConstants ==
  Creator \in Accounts /\ IsFiniteSet(Accounts) /\ MaxOdd \in Nat /\ MaxCopies \in Nat

VARIABLES
  store,     \* the subgraph's entities
  selfMoves, \* history: the transfers of a noun to its own owner
  renewals,  \* history: the delegations to the delegate an account had, or
             \* by signature to the zero address
  strayed    \* history: an account that holds nothing had delegated

historyVars == <<selfMoves, renewals, strayed>>
indexVars   == <<vars, store, historyVars>>

IndexInit ==
  /\ Init
  /\ store = EmptyStore
  /\ selfMoves = 0
  /\ renewals = 0
  /\ strayed = FALSE

-------------------------------------------------------------------------------
(* The events of a transaction, applied in the order they are emitted.     *)

\* the one or two DelegateVotesChanged of _moveDelegates, source first
VotesMoved(s, src, dst, amount) ==
  LET Voted(t, d) ==
        IF d = Zero THEN t
        ELSE handleDelegateVotesChanged(t, d, GetCurrentVotes(d), Latest(checkpoints'[d], 0))
  IN  IF src = dst \/ amount = 0 THEN s ELSE Voted(Voted(s, src), dst)

Moved(s, from, to) == VotesMoved(s, Delegates(from), Delegates(to), 1)

\* an account that holds nothing has a delegate other than itself
DelegatedEmptyHanded ==
  \E a \in Accounts : balances[a] = 0 /\ delegatees[a] \notin {Zero, a}

History(selfMove, renewal) ==
  /\ selfMoves' = selfMoves + Flag(selfMove)
  /\ renewals' = renewals + Flag(renewal)
  /\ \A a \in Accounts, id \in Tokens :
       /\ store'.delegates[a].nounsRepresented[id] <= MaxCopies
       /\ store'.accounts[a].nouns[id] <= MaxCopies
  /\ strayed' = (strayed \/ DelegatedEmptyHanded')
  /\ selfMoves' + renewals' + Flag(strayed') <= MaxOdd

\* Ids are minted in order, by currentNounId, and once.  A mint's log says
\* the noun went through the hands of the creator
IndexMint(to, id) ==
  /\ \A i \in Tokens : store.nouns[i].exists <=> i < id
  /\ Mint(to, id)
  /\ store' = handleNounCreated(
                handleTransfer(
                  handleTransfer(Moved(store, Zero, to), Zero, Creator, id),
                  Creator, to, id), id)
  /\ History(to = Creator, FALSE)

IndexBurn(id) ==
  /\ Burn(id)
  /\ store' = handleTransfer(Moved(store, owners[id], Zero), owners[id], Zero, id)
  /\ History(FALSE, FALSE)

IndexTransferFrom(sender, from, to, id) ==
  /\ TransferFrom(sender, from, to, id)
  /\ store' = handleTransfer(Moved(store, from, to), from, to, id)
  /\ History(from = to, FALSE)

\* _delegate, by whichever function
IndexSetDelegate(delegator, delegatee) ==
  /\ store' = VotesMoved(
                handleDelegateChanged(store, delegator, Delegates(delegator), delegatee),
                Delegates(delegator), delegatee, balances[delegator])
  /\ History(FALSE, delegatee \in {Delegates(delegator), Zero})

IndexDelegate(sender, delegatee) ==
  /\ Delegate(sender, delegatee)
  /\ IndexSetDelegate(sender, IF delegatee = Zero THEN sender ELSE delegatee)

IndexDelegateBySig(sig) ==
  /\ DelegateBySig(sig)
  /\ IndexSetDelegate(sig.signatory, sig.delegatee)

\* Approvals and new blocks emit nothing the subgraph handles and are left
\* out: who moves a noun, and when, makes no difference to the index.
IndexNext ==
  \/ \E to \in Accounts, id \in Tokens : IndexMint(to, id)
  \/ \E id \in Tokens : IndexBurn(id)
  \/ \E sender, from, to \in Accounts, id \in Tokens :
       IndexTransferFrom(sender, from, to, id)
  \/ \E sender \in Accounts, delegatee \in Accounts \cup {Zero} :
       IndexDelegate(sender, delegatee)
  \/ \E sig \in Signatures : IndexDelegateBySig(sig)

IndexSpec == IndexInit /\ [][IndexNext]_indexVars

-------------------------------------------------------------------------------

(***************************************************************************)
(* The two enumerations of the token are exact: balanceOf, totalSupply and *)
(* tokenByIndex, and tokenOfOwnerByIndex agree with ownerOf after every    *)
(* order of mints, burns and transfers, a transfer to oneself included,    *)
(* and each back-pointer the swap-and-pop relies on is right.              *)
(***************************************************************************)
ListsEnumerate ==
  Enum!BalancesCountTokens /\ Enum!AllTokensListed /\ Enum!OwnedTokensListed

(***************************************************************************)
(* What the subgraph copies from events that carry the whole value, or     *)
(* counts by differences, is exact in every order of events: the votes of  *)
(* each delegate, their sum, the number of delegates with votes, the owner *)
(* of each noun, its seed, and the supply that proposals are created with. *)
(***************************************************************************)
VotesIndexed ==
  /\ \A a \in Accounts : store.delegates[a].delegatedVotes = GetCurrentVotes(a)
  /\ store.governance.delegatedVotes =
       MapThenSumSet(GetCurrentVotes, Accounts)
  /\ store.governance.currentDelegates =
       Cardinality({a \in Accounts : GetCurrentVotes(a) > 0})
  /\ \A id \in Tokens : /\ store.nouns[id].owner = owners[id]
                        /\ store.nouns[id].seeded = store.nouns[id].exists
  /\ store.governance.totalTokenHolders = Len(allTokens)

Listed(nouns, ids) == nouns = [id \in Tokens |-> Flag(id \in ids)]

HoldingsIndexed ==
  selfMoves = 0 =>
    /\ \A a \in Accounts :
         /\ store.accounts[a].tokenBalance = balances[a]
         /\ Listed(store.accounts[a].nouns, {id \in Tokens : owners[id] = a})
    /\ store.governance.currentTokenHolders =
         Cardinality({a \in Accounts : balances[a] > 0})
         + Flag(store.accounts[Zero].tokenBalance > 0)

DelegatesIndexed ==
  selfMoves = 0 /\ renewals = 0 /\ ~strayed =>
    \A a \in Accounts :
      /\ Listed(store.delegates[a].nounsRepresented, Represented(a))
      /\ balances[a] > 0 => store.accounts[a].delegate = Delegates(a)

(***************************************************************************)
(* As long as no noun is transferred to its own owner (the sender is saved *)
(* and then overwritten by the receiver, loaded before), the index lists   *)
(* each account's nouns exactly and counts the holders, the zero address   *)
(* being one since the first burn, although every mint passes through the  *)
(* account of the creator.  The nouns a delegate represents, stored with   *)
(* each of its votes, are the nouns whose holders delegate to it, and the  *)
(* delegate of each holder is the contract's, if besides no delegation was *)
(* renewed or signed for the zero address and no account without nouns     *)
(* has delegated (handleTransfer and handleDelegateChanged).               *)
(***************************************************************************)
AccountsIndexed == HoldingsIndexed /\ DelegatesIndexed
===============================================================================
