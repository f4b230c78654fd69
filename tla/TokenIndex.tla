------------------------------ MODULE TokenIndex ------------------------------
(***************************************************************************)
(* The subgraph's index of the noun token (nouns-erc-721.ts): one handler  *)
(* per event, as an operator from the stored entities to the stored        *)
(* entities.  Loading an entity makes a copy and saving writes the whole   *)
(* copy back, so an entity that a handler loads twice, or that a helper    *)
(* saves in between, is overwritten by whatever is saved last.             *)
(*                                                                         *)
(* An entity that does not exist is the same as a new one, except for      *)
(* delegates and nouns.  An array of nouns is kept as the number of times  *)
(* each noun is in it.  Left out are fields nobody reads back: the event   *)
(* entities, totalTokensHeld, and the unnormalised copies of counters.     *)
(***************************************************************************)
EXTENDS TokenDomain, Integers

CONSTANT NoDelegate   \* null

ASSUME NullIsNoAddress == NoDelegate \notin Addresses

NoNouns == [id \in Tokens |-> 0]

EmptyStore ==
  [accounts   |-> [a \in Addresses |->
                     [delegate |-> NoDelegate, tokenBalance |-> 0, nouns |-> NoNouns]],
   delegates  |-> [a \in Addresses |->
                     [exists |-> FALSE, delegatedVotes |-> 0,
                      tokenHoldersRepresentedAmount |-> 0, nounsRepresented |-> NoNouns]],
   governance |-> [currentTokenHolders |-> 0, totalTokenHolders |-> 0,
                   currentDelegates |-> 0, totalDelegates |-> 0, delegatedVotes |-> 0],
   nouns      |-> [id \in Tokens |->
                     [exists |-> FALSE, owner |-> Zero, seeded |-> FALSE]]]

Flag(condition) == IF condition THEN 1 ELSE 0

\* array.filter(n => !removed.includes(n)), and a push of every element
Without(nouns, removed) == [id \in Tokens |-> IF removed[id] > 0 THEN 0 ELSE nouns[id]]
With(nouns, added)      == [id \in Tokens |-> nouns[id] + added[id]]
Only(id)                == [NoNouns EXCEPT ![id] = 1]

\* getOrCreateDelegate: a new delegate is counted at once, in the stored
\* governance entity
DelegateCreated(store, d) ==
  IF store.delegates[d].exists THEN store
  ELSE [store EXCEPT !.delegates[d].exists = TRUE,
                     !.governance.totalDelegates = @ + Flag(d # Zero)]

\* A noun gets its seed only if the transfer has made an entity of it.
handleNounCreated(store, id) ==
  IF store.nouns[id].exists THEN [store EXCEPT !.nouns[id].seeded = TRUE] ELSE store

handleDelegateChanged(store, delegator, fromDelegate, toDelegate) ==
  LET accountNouns == store.accounts[delegator].nouns
      created  == DelegateCreated(DelegateCreated(store, fromDelegate), toDelegate)
      previous == [created.delegates[fromDelegate] EXCEPT
                     !.tokenHoldersRepresentedAmount = @ - 1,
                     !.nounsRepresented = Without(@, accountNouns)]
      new      == [created.delegates[toDelegate] EXCEPT
                     !.tokenHoldersRepresentedAmount = @ + 1,
                     !.nounsRepresented = With(@, accountNouns)]
  IN  [created EXCEPT
         !.accounts[delegator].delegate = toDelegate,
         !.delegates = [[@ EXCEPT ![fromDelegate] = previous] EXCEPT ![toDelegate] = new]]

\* seeded error: a delegate counts whenever it has votes
handleDelegateVotesChangedRecount(store, d, previousBalance, newBalance) ==
  [DelegateCreated(store, d) EXCEPT
     !.delegates[d].delegatedVotes = newBalance,
     !.governance =
       [store.governance EXCEPT
          !.currentDelegates = @ + Flag(newBalance > 0) - Flag(newBalance = 0),
          !.delegatedVotes = @ + (newBalance - previousBalance)]]

\* The governance entity is loaded before the delegate is created and saved
\* after it: the creation is counted in vain.
handleDelegateVotesChanged(store, d, previousBalance, newBalance) ==
  [DelegateCreated(store, d) EXCEPT
     !.delegates[d].delegatedVotes = newBalance,
     !.governance =
       [store.governance EXCEPT
          !.currentDelegates = @ + Flag(previousBalance = 0 /\ newBalance > 0)
                                 - Flag(newBalance = 0),
          !.delegatedVotes = @ + (newBalance - previousBalance)]]

-------------------------------------------------------------------------------
(* handleTransfer loads both accounts and governance first, then saves the *)
(* sender, the receiver's delegate and the receiver, in this order.        *)

\* the store once the sender, left with nothing if emptied, has been saved and
\* its delegate represents the nouns lost no more
SavedSender(store, from, id, emptied, lost) ==
  LET sender == store.accounts[from]
      left   == [delegate     |-> IF emptied THEN NoDelegate ELSE sender.delegate,
                 tokenBalance |-> sender.tokenBalance - 1,
                 nouns        |-> Without(sender.nouns, Only(id))]
      unrepresented ==
        IF sender.delegate = NoDelegate THEN store
        ELSE [DelegateCreated(store, sender.delegate) EXCEPT
                !.delegates[sender.delegate].nounsRepresented = Without(@, lost)]
  IN  IF from = Zero
      THEN [store EXCEPT !.governance.totalTokenHolders = @ + 1]
      ELSE [unrepresented EXCEPT
              !.accounts[from] = left,
              !.governance.currentTokenHolders = @ - Flag(emptied)]

\* seeded error: the delegate of the sender goes on representing the noun
SenderSavedOnly(store, from, id) ==
  SavedSender(store, from, id, store.accounts[from].tokenBalance = 1, NoNouns)

SenderSaved(store, from, id) ==
  SavedSender(store, from, id, store.accounts[from].tokenBalance = 1, Only(id))

\* the receiver is saved over what the sender has been saved as
Received(store, sent, governance, to, id) ==
  LET receiver == store.accounts[to]
      delegate == IF receiver.delegate = NoDelegate THEN to ELSE receiver.delegate
      first    == receiver.tokenBalance = 0
      represented ==
        [DelegateCreated([sent EXCEPT !.governance = governance], delegate) EXCEPT
           !.delegates[delegate].nounsRepresented = With(@, Only(id))]
  IN  [represented EXCEPT
         !.accounts[to] = [delegate     |-> IF first THEN to ELSE receiver.delegate,
                           tokenBalance |-> receiver.tokenBalance + 1,
                           nouns        |-> With(receiver.nouns, Only(id))],
         !.governance = IF first THEN [governance EXCEPT !.currentTokenHolders = @ + 1]
                        ELSE @,
         !.nouns[id] = [@ EXCEPT !.exists = TRUE, !.owner = to]]

\* a burn counts the supply down, a mint has counted it up
handleTransfer(store, from, to, id) ==
  LET sent == SenderSaved(store, from, id)
  IN  Received(store, sent,
               [sent.governance EXCEPT !.totalTokenHolders = @ - Flag(to = Zero)], to, id)
===============================================================================
