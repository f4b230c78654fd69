------------------------- MODULE TokenIndexer_proofs -------------------------
(***************************************************************************)
(* Theorems on the subgraph's index of the token, for any accounts, any    *)
(* number of nouns and any length of history: the indexed token is the     *)
(* token, the enumerations agree with the owners, the store's votes,       *)
(* owners and supply are the contract's, and its accounts and delegates    *)
(* are, until one of the three things happens that derail them.            *)
(*                                                                         *)
(* The handlers are run several to a transaction, so the argument goes     *)
(* through the stores in between: first what each handler changes, then    *)
(* what of the store is exact before and after each, and last the          *)
(* transactions, whose events the contract emits in a fixed order.         *)
(***************************************************************************)
EXTENDS TokenIndexer, ERC721Checkpointable_proofs

-------------------------------------------------------------------------------
(* What the handlers do to the store.                                      *)

Counts    == [Tokens -> Int]
AccountEntity    == [delegate : Addresses \cup {NoDelegate}, tokenBalance : Int, nouns : Counts]
DelegateEntity   == [exists : BOOLEAN, delegatedVotes : Int,
                     tokenHoldersRepresentedAmount : Int, nounsRepresented : Counts]
GovernanceEntity == [currentTokenHolders : Int, totalTokenHolders : Int,
                     currentDelegates : Int, totalDelegates : Int, delegatedVotes : Int]
NounEntity       == [exists : BOOLEAN, owner : Addresses, seeded : BOOLEAN]

StoreType ==
  [accounts   : [Addresses -> AccountEntity],
   delegates  : [Addresses -> DelegateEntity],
   governance : GovernanceEntity,
   nouns      : [Tokens -> NounEntity]]

\* two stores say the same of the votes, of the holdings, of what is represented
SameVotes(s, t) ==
  /\ \A a \in Addresses : t.delegates[a].delegatedVotes = s.delegates[a].delegatedVotes
  /\ t.governance.currentDelegates = s.governance.currentDelegates
  /\ t.governance.delegatedVotes = s.governance.delegatedVotes
SameRepresented(s, t) ==
  \A a \in Addresses : t.delegates[a].nounsRepresented = s.delegates[a].nounsRepresented
SameHolders(s, t) ==
  t.governance.currentTokenHolders = s.governance.currentTokenHolders
SameSupply(s, t) ==
  t.governance.totalTokenHolders = s.governance.totalTokenHolders

\* nothing but what is stored of the votes differs
SameButVotes(s, t) ==
  /\ t.accounts = s.accounts /\ t.nouns = s.nouns
  /\ SameRepresented(s, t) /\ SameHolders(s, t) /\ SameSupply(s, t)

\* getOrCreateDelegate: an entity that was missing now exists and is counted, the
\* others stay as they are.
LEMMA DelegateCreatedChanges ==
  ASSUME NEW s \in StoreType, NEW d \in Addresses
  PROVE  LET t == DelegateCreated(s, d)
         IN  /\ t \in StoreType /\ t.accounts = s.accounts /\ t.nouns = s.nouns
             /\ SameVotes(s, t) /\ SameRepresented(s, t)
             /\ SameHolders(s, t) /\ SameSupply(s, t)
<1> DEFINE t == DelegateCreated(s, d)
           made == [s EXCEPT !.delegates[d].exists = TRUE,
                             !.governance.totalDelegates = @ + Flag(d # Zero)]
<1>1. Flag(d # Zero) \in Int
  BY DEF Flag
<1>2. CASE s.delegates[d].exists
  BY <1>2 DEF DelegateCreated, SameVotes, SameRepresented, SameHolders, SameSupply
<1>3. CASE ~ s.delegates[d].exists
  <2>1. t = made
    BY <1>3 DEF DelegateCreated
  <2>2. made \in StoreType
    <3> DEFINE entity == [s.delegates[d] EXCEPT !.exists = TRUE]
               g == [s.governance EXCEPT !.totalDelegates = @ + Flag(d # Zero)]
    <3>1. entity \in DelegateEntity
      BY DEF StoreType, DelegateEntity
    <3>2. g \in GovernanceEntity
      BY <1>1 DEF StoreType, GovernanceEntity
    <3>3. made = [s EXCEPT !.delegates = [@ EXCEPT ![d] = entity], !.governance = g]
      BY DEF StoreType
    <3> HIDE DEF entity, g
    <3>4. [s.delegates EXCEPT ![d] = entity] \in [Addresses -> DelegateEntity]
      BY <3>1 DEF StoreType
    <3> DEFINE ds == [s.delegates EXCEPT ![d] = entity]
    <3>5. made = [s EXCEPT !.delegates = ds, !.governance = g]
      BY <3>3
    <3>6. ds \in [Addresses -> DelegateEntity]
      BY <3>4
    <3> HIDE DEF ds, made
    <3> QED
      BY <3>2, <3>5, <3>6 DEF StoreType
  <2>3. /\ made.accounts = s.accounts /\ made.nouns = s.nouns
        /\ SameVotes(s, made) /\ SameRepresented(s, made)
        /\ SameHolders(s, made) /\ SameSupply(s, made)
    BY DEF StoreType, DelegateEntity, GovernanceEntity,
                 SameVotes, SameRepresented, SameHolders, SameSupply
  <2> QED
    BY <2>1, <2>2, <2>3
<1> QED
  BY <1>2, <1>3

\* handleDelegateVotesChanged: the votes of one delegate are stored, the sum of the
\* votes moves along, and the delegates with votes are counted.
LEMMA VotesChangedChanges ==
  ASSUME NEW s \in StoreType, NEW d \in Addresses, NEW p \in Int, NEW n \in Int,
         NEW t, t = handleDelegateVotesChanged(s, d, p, n)
  PROVE  /\ t \in StoreType /\ SameButVotes(s, t)
         /\ \A a \in Addresses : t.delegates[a].delegatedVotes =
              IF a = d THEN n ELSE s.delegates[a].delegatedVotes
         /\ t.governance.currentDelegates = s.governance.currentDelegates
              + Flag(p = 0 /\ n > 0) - Flag(n = 0)
         /\ t.governance.delegatedVotes = s.governance.delegatedVotes + (n - p)
<1> DEFINE c == DelegateCreated(s, d)
           g == [s.governance EXCEPT
                   !.currentDelegates = @ + Flag(p = 0 /\ n > 0) - Flag(n = 0),
                   !.delegatedVotes = @ + (n - p)]
<1>1. /\ c \in StoreType /\ c.accounts = s.accounts /\ c.nouns = s.nouns
      /\ SameVotes(s, c) /\ SameRepresented(s, c)
  BY DelegateCreatedChanges
<1>2. t = [c EXCEPT !.delegates[d].delegatedVotes = n, !.governance = g]
  BY DEF handleDelegateVotesChanged
<1>3. Flag(p = 0 /\ n > 0) \in Int /\ Flag(n = 0) \in Int
  BY DEF Flag
<1>4. /\ g \in GovernanceEntity
      /\ g.currentTokenHolders = s.governance.currentTokenHolders
      /\ g.totalTokenHolders = s.governance.totalTokenHolders
      /\ g.currentDelegates = s.governance.currentDelegates
           + Flag(p = 0 /\ n > 0) - Flag(n = 0)
      /\ g.delegatedVotes = s.governance.delegatedVotes + (n - p)
  <2>1. s.governance \in GovernanceEntity
    BY DEF StoreType
  <2> DEFINE x == Flag(p = 0 /\ n > 0)
             y == Flag(n = 0)
  <2>2. x \in Int /\ y \in Int
    BY <1>3
  <2> HIDE DEF x, y
  <2>3. g = [s.governance EXCEPT !.currentDelegates = @ + x - y, !.delegatedVotes = @ + (n - p)]
    BY DEF x, y
  <2> DEFINE h == s.governance
  <2> HIDE DEF g, h
  <2>5. /\ h.currentDelegates + x - y \in Int /\ h.delegatedVotes + (n - p) \in Int
        /\ h.currentTokenHolders \in Int /\ h.totalTokenHolders \in Int
        /\ h.totalDelegates \in Int
    BY <2>1, <2>2 DEF GovernanceEntity, h
  <2>6. g = [currentTokenHolders |-> h.currentTokenHolders,
             totalTokenHolders   |-> h.totalTokenHolders,
             currentDelegates    |-> h.currentDelegates + x - y,
             totalDelegates      |-> h.totalDelegates,
             delegatedVotes      |-> h.delegatedVotes + (n - p)]
    BY <2>1, <2>3 DEF GovernanceEntity, h
  <2>4. /\ g \in GovernanceEntity
        /\ g.currentTokenHolders = s.governance.currentTokenHolders
        /\ g.totalTokenHolders = s.governance.totalTokenHolders
        /\ g.currentDelegates = s.governance.currentDelegates + x - y
        /\ g.delegatedVotes = s.governance.delegatedVotes + (n - p)
    BY <2>5, <2>6 DEF GovernanceEntity, h
  <2> QED
    BY <2>4 DEF x, y
<1> HIDE DEF c, g
<1>5. t \in StoreType /\ t.accounts = c.accounts /\ t.nouns = c.nouns /\ t.governance = g
  <2> DEFINE entity == [c.delegates[d] EXCEPT !.delegatedVotes = n]
  <2>1. entity \in DelegateEntity
    <3>1. c.delegates[d] \in DelegateEntity
      BY <1>1 DEF StoreType
    <3> DEFINE before == c.delegates[d]
    <3>2. before \in DelegateEntity /\ entity = [before EXCEPT !.delegatedVotes = n]
      BY <3>1
    <3> HIDE DEF before, entity
    <3> QED
      BY <3>2 DEF DelegateEntity
  <2>2. t = [c EXCEPT !.delegates = [@ EXCEPT ![d] = entity], !.governance = g]
    BY <1>1, <1>2 DEF StoreType
  <2> DEFINE ds == [c.delegates EXCEPT ![d] = entity]
  <2> HIDE DEF entity
  <2>3. ds \in [Addresses -> DelegateEntity]
    BY <1>1, <2>1 DEF StoreType
  <2>4. t = [c EXCEPT !.delegates = ds, !.governance = g]
    BY <2>2
  <2> HIDE DEF ds
  <2> QED
    BY <1>1, <1>4, <2>3, <2>4 DEF StoreType
<1>6. \A a \in Addresses :
        /\ t.delegates[a].delegatedVotes = IF a = d THEN n ELSE c.delegates[a].delegatedVotes
        /\ t.delegates[a].nounsRepresented = c.delegates[a].nounsRepresented
  BY <1>1, <1>2 DEF StoreType, DelegateEntity
<1> QED
  BY <1>1, <1>4, <1>5, <1>6 DEF SameButVotes, SameVotes, SameRepresented, SameHolders, SameSupply

\* An array of nouns with nouns appended or filtered out is an array of nouns.
LEMMA CountsAreTyped ==
  ASSUME NEW n \in Counts, NEW m \in Counts
  PROVE  Without(n, m) \in Counts /\ With(n, m) \in Counts
BY DEF Counts, Without, With

\* The array of one noun is an array of nouns.
LEMMA OnlyIsTyped ==
  ASSUME NEW id \in Tokens
  PROVE  Only(id) \in Counts /\ \A t \in Tokens : Only(id)[t] = Flag(t = id)
BY DEF Counts, Only, NoNouns, Flag

\* handleDelegateChanged: the delegator's account gets the new delegate, and its nouns
\* leave the old one and come to the new one.
LEMMA DelegateChangedChanges ==
  ASSUME NEW s \in StoreType, NEW x \in Addresses, NEW f \in Addresses, NEW t \in Addresses
  PROVE  LET r == handleDelegateChanged(s, x, f, t)
             N == s.accounts[x].nouns
         IN  /\ r \in StoreType /\ r.nouns = s.nouns
             /\ SameVotes(s, r) /\ SameHolders(s, r) /\ SameSupply(s, r)
             /\ \A a \in Addresses :
                  /\ r.accounts[a].tokenBalance = s.accounts[a].tokenBalance
                  /\ r.accounts[a].nouns = s.accounts[a].nouns
                  /\ r.accounts[a].delegate = IF a = x THEN t ELSE s.accounts[a].delegate
                  /\ r.delegates[a].nounsRepresented =
                       IF a = t THEN With(s.delegates[a].nounsRepresented, N)
                       ELSE IF a = f THEN Without(s.delegates[a].nounsRepresented, N)
                       ELSE s.delegates[a].nounsRepresented
<1> DEFINE N == s.accounts[x].nouns
           c == DelegateCreated(DelegateCreated(s, f), t)
           previous == [c.delegates[f] EXCEPT
                          !.tokenHoldersRepresentedAmount = @ - 1,
                          !.nounsRepresented = Without(@, N)]
           new      == [c.delegates[t] EXCEPT
                          !.tokenHoldersRepresentedAmount = @ + 1,
                          !.nounsRepresented = With(@, N)]
           account  == [s.accounts[x] EXCEPT !.delegate = t]
           delegates2 == [[c.delegates EXCEPT ![f] = previous] EXCEPT ![t] = new]
           r == [c EXCEPT !.accounts = [@ EXCEPT ![x] = account], !.delegates = delegates2]
<1>1. /\ c \in StoreType /\ c.accounts = s.accounts /\ c.nouns = s.nouns
      /\ SameVotes(s, c) /\ SameRepresented(s, c) /\ SameHolders(s, c) /\ SameSupply(s, c)
  <2> DEFINE b == DelegateCreated(s, f)
  <2>1. /\ b \in StoreType /\ b.accounts = s.accounts /\ b.nouns = s.nouns
        /\ SameVotes(s, b) /\ SameRepresented(s, b) /\ SameHolders(s, b) /\ SameSupply(s, b)
    BY DelegateCreatedChanges
  <2> HIDE DEF b
  <2>2. /\ DelegateCreated(b, t) \in StoreType /\ DelegateCreated(b, t).accounts = b.accounts
        /\ DelegateCreated(b, t).nouns = b.nouns
        /\ SameVotes(b, DelegateCreated(b, t)) /\ SameRepresented(b, DelegateCreated(b, t))
        /\ SameHolders(b, DelegateCreated(b, t)) /\ SameSupply(b, DelegateCreated(b, t))
    BY <2>1, DelegateCreatedChanges
  <2>3. c = DelegateCreated(b, t)
    BY DEF b
  <2> HIDE DEF c
  <2> QED
    BY <2>1, <2>2, <2>3 DEF SameVotes, SameRepresented, SameHolders, SameSupply
<1>2. r = handleDelegateChanged(s, x, f, t)
  <2> HIDE DEF c
  <2>1. [c EXCEPT !.accounts[x].delegate = t, !.delegates = delegates2] = r
    BY <1>1 DEF StoreType
  <2> QED
    BY <2>1 DEF handleDelegateChanged, c
<1> HIDE DEF c
<1>3. N \in Counts
  BY DEF StoreType, AccountEntity
<1> HIDE DEF N
<1>4. /\ previous \in DelegateEntity
      /\ previous.delegatedVotes = c.delegates[f].delegatedVotes
      /\ previous.nounsRepresented = Without(c.delegates[f].nounsRepresented, N)
  <2> DEFINE old == c.delegates[f]
  <2>1. old \in DelegateEntity
    BY <1>1 DEF StoreType
  <2> HIDE DEF old
  <2>2. Without(old.nounsRepresented, N) \in Counts
    BY <1>3, <2>1, CountsAreTyped DEF DelegateEntity
  <2>3. /\ previous = [old EXCEPT !.tokenHoldersRepresentedAmount = @ - 1,
                                  !.nounsRepresented = Without(@, N)]
    BY DEF old
  <2> HIDE DEF previous
  <2>4. previous = [exists |-> old.exists, delegatedVotes |-> old.delegatedVotes,
                  tokenHoldersRepresentedAmount |-> old.tokenHoldersRepresentedAmount - 1,
                  nounsRepresented |-> Without(old.nounsRepresented, N)]
    BY <2>1, <2>3 DEF DelegateEntity
  <2>5. /\ old.exists \in BOOLEAN /\ old.delegatedVotes \in Int
        /\ old.tokenHoldersRepresentedAmount - 1 \in Int
    BY <2>1 DEF DelegateEntity
  <2> QED
    BY <2>2, <2>4, <2>5 DEF DelegateEntity, old
<1>5. /\ new \in DelegateEntity
      /\ new.delegatedVotes = c.delegates[t].delegatedVotes
      /\ new.nounsRepresented = With(c.delegates[t].nounsRepresented, N)
  <2> DEFINE old == c.delegates[t]
  <2>1. old \in DelegateEntity
    BY <1>1 DEF StoreType
  <2> HIDE DEF old
  <2>2. With(old.nounsRepresented, N) \in Counts
    BY <1>3, <2>1, CountsAreTyped DEF DelegateEntity
  <2>3. /\ new = [old EXCEPT !.tokenHoldersRepresentedAmount = @ + 1,
                             !.nounsRepresented = With(@, N)]
    BY DEF old
  <2> HIDE DEF new
  <2>4. new = [exists |-> old.exists, delegatedVotes |-> old.delegatedVotes,
                  tokenHoldersRepresentedAmount |-> old.tokenHoldersRepresentedAmount + 1,
                  nounsRepresented |-> With(old.nounsRepresented, N)]
    BY <2>1, <2>3 DEF DelegateEntity
  <2>5. /\ old.exists \in BOOLEAN /\ old.delegatedVotes \in Int
        /\ old.tokenHoldersRepresentedAmount + 1 \in Int
    BY <2>1 DEF DelegateEntity
  <2> QED
    BY <2>2, <2>4, <2>5 DEF DelegateEntity, old
<1>6. /\ account \in AccountEntity /\ account.delegate = t
      /\ account.tokenBalance = s.accounts[x].tokenBalance
      /\ account.nouns = s.accounts[x].nouns
  BY DEF StoreType, AccountEntity
<1> HIDE DEF previous, new, account
<1>7. /\ delegates2 \in [Addresses -> DelegateEntity]
      /\ \A a \in Addresses : delegates2[a] =
           IF a = t THEN new ELSE IF a = f THEN previous ELSE c.delegates[a]
  BY <1>1, <1>4, <1>5 DEF StoreType
<1> HIDE DEF delegates2
<1>8. /\ r \in StoreType /\ r.nouns = s.nouns /\ r.delegates = delegates2
      /\ r.governance = c.governance
      /\ r.accounts = [s.accounts EXCEPT ![x] = account]
  BY <1>1, <1>6, <1>7 DEF StoreType
<1>9. \A a \in Addresses : r.accounts[a] = IF a = x THEN account ELSE s.accounts[a]
  BY <1>8 DEF StoreType
<1> HIDE DEF r
<1>10. SameVotes(s, r) /\ SameHolders(s, r) /\ SameSupply(s, r)
  BY <1>1, <1>4, <1>5, <1>7, <1>8 DEF SameVotes, SameHolders, SameSupply
<1>11. ASSUME NEW a \in Addresses
       PROVE  r.delegates[a].nounsRepresented =
                IF a = t THEN With(s.delegates[a].nounsRepresented, N)
                ELSE IF a = f THEN Without(s.delegates[a].nounsRepresented, N)
                ELSE s.delegates[a].nounsRepresented
  BY <1>1, <1>4, <1>5, <1>7, <1>8 DEF SameRepresented
<1>12. ASSUME NEW a \in Addresses
       PROVE  /\ r.accounts[a].tokenBalance = s.accounts[a].tokenBalance
              /\ r.accounts[a].nouns = s.accounts[a].nouns
              /\ r.accounts[a].delegate = IF a = x THEN t ELSE s.accounts[a].delegate
  BY <1>6, <1>9
<1> QED
  BY <1>2, <1>8, <1>10, <1>11, <1>12 DEF N

\* the sender and the receiver as handleTransfer saves them
Left(account, id) ==
  [delegate     |-> IF account.tokenBalance = 1 THEN NoDelegate ELSE account.delegate,
   tokenBalance |-> account.tokenBalance - 1,
   nouns        |-> Without(account.nouns, Only(id))]
Got(account, to, id) ==
  [delegate     |-> IF account.tokenBalance = 0 THEN to ELSE account.delegate,
   tokenBalance |-> account.tokenBalance + 1,
   nouns        |-> With(account.nouns, Only(id))]

\* the delegate the receiver's noun is represented by, and who loses it
ReceiversDelegate(account, to) == IF account.delegate = NoDelegate THEN to ELSE account.delegate
Loses(account, from, a) == from # Zero /\ account.delegate # NoDelegate /\ a = account.delegate

(***************************************************************************)
(* A saved sender: one noun less, for its delegate too, and one holder     *)
(* less if that was the last; of the zero address only the supply.         *)
(***************************************************************************)
LEMMA SenderSavedChanges ==
  ASSUME NEW s \in StoreType, NEW from \in Addresses, NEW id \in Tokens
  PROVE  LET r == SenderSaved(s, from, id)
             F == s.accounts[from]
         IN  /\ r \in StoreType /\ r.nouns = s.nouns /\ SameVotes(s, r)
             /\ \A a \in Addresses :
                  /\ r.accounts[a] = IF a = from /\ from # Zero THEN Left(F, id)
                                     ELSE s.accounts[a]
                  /\ r.delegates[a].nounsRepresented =
                       IF Loses(F, from, a)
                       THEN Without(s.delegates[a].nounsRepresented, Only(id))
                       ELSE s.delegates[a].nounsRepresented
             /\ r.governance.totalTokenHolders =
                  s.governance.totalTokenHolders + Flag(from = Zero)
             /\ r.governance.currentTokenHolders = s.governance.currentTokenHolders
                  - Flag(from # Zero /\ F.tokenBalance = 1)
<1> DEFINE F == s.accounts[from]
           r == SenderSaved(s, from, id)
           emptied == Flag(F.tokenBalance = 1)
<1>0. /\ F \in AccountEntity /\ s.governance \in GovernanceEntity
      /\ Only(id) \in Counts /\ emptied \in Int
  BY OnlyIsTyped DEF StoreType, Flag
<1>1. CASE from = Zero
  <2> DEFINE g == [s.governance EXCEPT !.totalTokenHolders = @ + 1]
  <2>1. r = [s EXCEPT !.governance = g]
    BY <1>1 DEF SenderSaved, SavedSender, StoreType
  <2>2. /\ g \in GovernanceEntity
        /\ g.totalTokenHolders = s.governance.totalTokenHolders + 1
        /\ g.currentTokenHolders = s.governance.currentTokenHolders
        /\ g.currentDelegates = s.governance.currentDelegates
        /\ g.delegatedVotes = s.governance.delegatedVotes
        /\ s.governance.currentTokenHolders \in Int
    BY <1>0 DEF GovernanceEntity
  <2> HIDE DEF g, r
  <2>3. /\ r \in StoreType /\ r.nouns = s.nouns /\ r.accounts = s.accounts
        /\ r.delegates = s.delegates /\ r.governance = g
    BY <2>1, <2>2 DEF StoreType
  <2>4. Flag(from # Zero /\ F.tokenBalance = 1) = 0 /\ Flag(from = Zero) = 1
    BY <1>1 DEF Flag
  <2> HIDE DEF F
  <2>5. s.governance.currentTokenHolders - 0 = s.governance.currentTokenHolders
    BY <2>2
  <2>6. SameVotes(s, r)
    BY <2>2, <2>3 DEF SameVotes
  <2> QED
    BY <1>1, <2>2, <2>3, <2>4, <2>5, <2>6 DEF Loses, F, r
<1>2. CASE from # Zero
  <2> DEFINE D == F.delegate
             u == IF D = NoDelegate THEN s
                  ELSE [DelegateCreated(s, D) EXCEPT
                          !.delegates[D].nounsRepresented = Without(@, Only(id))]
  <2>1. /\ u \in StoreType /\ u.accounts = s.accounts /\ u.nouns = s.nouns /\ SameVotes(s, u)
        /\ SameHolders(s, u) /\ SameSupply(s, u)
        /\ \A a \in Addresses : u.delegates[a].nounsRepresented =
             IF Loses(F, from, a) THEN Without(s.delegates[a].nounsRepresented, Only(id))
             ELSE s.delegates[a].nounsRepresented
    <3>1. CASE D = NoDelegate
      BY <3>1 DEF SameVotes, SameHolders, SameSupply, Loses
    <3>2. CASE D # NoDelegate
      <4> DEFINE c == DelegateCreated(s, D)
                 e == [c.delegates[D] EXCEPT !.nounsRepresented = Without(@, Only(id))]
      <4>1. D \in Addresses
        BY <1>0, <3>2 DEF AccountEntity
      <4>2. /\ c \in StoreType /\ c.accounts = s.accounts /\ c.nouns = s.nouns
            /\ SameVotes(s, c) /\ SameRepresented(s, c)
            /\ SameHolders(s, c) /\ SameSupply(s, c)
        BY <4>1, DelegateCreatedChanges
      <4>3. u = [c EXCEPT !.delegates[D].nounsRepresented = Without(@, Only(id))]
        BY <3>2
      <4> HIDE DEF u, c
      <4>4. u = [c EXCEPT !.delegates = [@ EXCEPT ![D] = e]]
        BY <4>1, <4>2, <4>3 DEF StoreType
      <4>5. /\ e \in DelegateEntity /\ e.delegatedVotes = c.delegates[D].delegatedVotes
            /\ e.nounsRepresented = Without(c.delegates[D].nounsRepresented, Only(id))
        <5>1. c.delegates[D] \in DelegateEntity
          BY <4>1, <4>2 DEF StoreType
        <5>2. Without(c.delegates[D].nounsRepresented, Only(id)) \in Counts
          BY <1>0, <5>1, CountsAreTyped DEF DelegateEntity
        <5> QED
          BY <5>1, <5>2 DEF DelegateEntity
      <4> HIDE DEF e
      <4>6. /\ u \in StoreType /\ u.accounts = c.accounts /\ u.nouns = c.nouns
            /\ u.governance = c.governance
            /\ \A a \in Addresses : u.delegates[a] = IF a = D THEN e ELSE c.delegates[a]
        BY <4>1, <4>2, <4>4, <4>5 DEF StoreType
      <4>7. SameVotes(s, u) /\ SameHolders(s, u) /\ SameSupply(s, u)
        BY <4>2, <4>5, <4>6 DEF SameVotes, SameHolders, SameSupply
      <4>8. ASSUME NEW a \in Addresses
            PROVE  u.delegates[a].nounsRepresented =
                     IF Loses(F, from, a)
                     THEN Without(s.delegates[a].nounsRepresented, Only(id))
                     ELSE s.delegates[a].nounsRepresented
        <5>1. Loses(F, from, a) <=> a = D
          BY <1>2, <3>2 DEF Loses
        <5> HIDE DEF D, F
        <5> QED
          BY <4>2, <4>5, <4>6, <5>1 DEF SameRepresented
      <4> QED
        BY <4>2, <4>6, <4>7, <4>8
    <3> QED
      BY <3>1, <3>2
  <2> DEFINE g == [u.governance EXCEPT !.currentTokenHolders = @ - emptied]
  <2> HIDE DEF u
  <2>2. r = [u EXCEPT !.accounts = [@ EXCEPT ![from] = Left(F, id)], !.governance = g]
    <3>1. r = [u EXCEPT !.accounts[from] = Left(F, id),
                        !.governance.currentTokenHolders = @ - emptied]
      BY <1>2 DEF SenderSaved, SavedSender, Left, u
    <3> HIDE DEF r, emptied, F
    <3> QED
      BY <2>1, <3>1 DEF StoreType
  <2>3. Left(F, id) \in AccountEntity
    <3>1. Without(F.nouns, Only(id)) \in Counts
      BY <1>0, CountsAreTyped DEF AccountEntity
    <3> HIDE DEF F
    <3> QED
      BY <1>0, <3>1 DEF AccountEntity, Left
  <2>4. /\ g \in GovernanceEntity
        /\ g.totalTokenHolders = u.governance.totalTokenHolders
        /\ g.currentTokenHolders = u.governance.currentTokenHolders - emptied
        /\ g.currentDelegates = u.governance.currentDelegates
        /\ g.delegatedVotes = u.governance.delegatedVotes
        /\ s.governance.totalTokenHolders \in Int
    <3>1. u.governance \in GovernanceEntity
      BY <2>1 DEF StoreType
    <3> HIDE DEF emptied
    <3> QED
      BY <1>0, <3>1 DEF GovernanceEntity
  <2> HIDE DEF g, r
  <2>5. /\ r \in StoreType /\ r.nouns = s.nouns /\ r.delegates = u.delegates
        /\ r.governance = g
        /\ \A a \in Addresses : r.accounts[a] = IF a = from THEN Left(F, id) ELSE s.accounts[a]
    <3> HIDE DEF F
    <3> QED
      BY <2>1, <2>2, <2>3, <2>4 DEF StoreType
  <2>6. Flag(from # Zero /\ F.tokenBalance = 1) = emptied /\ Flag(from = Zero) = 0
    BY <1>2 DEF Flag
  <2> HIDE DEF F, emptied
  <2>7. SameVotes(s, r)
    BY <2>1, <2>4, <2>5 DEF SameVotes
  <2>8. /\ r.governance.currentTokenHolders = s.governance.currentTokenHolders - emptied
        /\ r.governance.totalTokenHolders = s.governance.totalTokenHolders + 0
    BY <2>1, <2>4, <2>5 DEF SameHolders, SameSupply
  <2> QED
    BY <1>2, <2>1, <2>5, <2>6, <2>7, <2>8 DEF F, r
<1> QED
  BY <1>1, <1>2


\* what is stored once the receiver, T before, is saved over m with g
ReceiverStored(m, g, to, id, T, r) ==
  /\ \A a \in Addresses :
       /\ r.accounts[a] = IF a = to THEN Got(T, to, id) ELSE m.accounts[a]
       /\ r.delegates[a].delegatedVotes = m.delegates[a].delegatedVotes
       /\ r.delegates[a].nounsRepresented =
            IF a = ReceiversDelegate(T, to)
            THEN With(m.delegates[a].nounsRepresented, Only(id))
            ELSE m.delegates[a].nounsRepresented
  /\ \A i \in Tokens : r.nouns[i] =
       IF i = id THEN [exists |-> TRUE, owner |-> to, seeded |-> m.nouns[id].seeded]
       ELSE m.nouns[i]
  /\ r.governance.totalTokenHolders = g.totalTokenHolders
  /\ r.governance.currentDelegates = g.currentDelegates
  /\ r.governance.delegatedVotes = g.delegatedVotes
  /\ r.governance.currentTokenHolders = g.currentTokenHolders + Flag(T.tokenBalance = 0)

(***************************************************************************)
(* A saved receiver, over whatever has been saved before.                  *)
(***************************************************************************)
LEMMA ReceivedChanges ==
  ASSUME NEW s \in StoreType, NEW m \in StoreType, NEW g \in GovernanceEntity,
         NEW to \in Addresses, NEW id \in Tokens,
         NEW r, r = Received(s, m, g, to, id), NEW T, T = s.accounts[to]
  PROVE  r \in StoreType /\ ReceiverStored(m, g, to, id, T, r)
<1> DEFINE D == ReceiversDelegate(T, to)
           p == [m EXCEPT !.governance = g]
           c == DelegateCreated(p, D)
           e == [c.delegates[D] EXCEPT !.nounsRepresented = With(@, Only(id))]
           h == IF T.tokenBalance = 0 THEN [g EXCEPT !.currentTokenHolders = @ + 1]
                ELSE c.governance
           n == [c.nouns[id] EXCEPT !.exists = TRUE, !.owner = to]
<1>1. T \in AccountEntity /\ Only(id) \in Counts /\ D \in Addresses
  BY OnlyIsTyped DEF StoreType, AccountEntity, ReceiversDelegate
<1>2. /\ p \in StoreType /\ p.accounts = m.accounts /\ p.delegates = m.delegates
      /\ p.nouns = m.nouns /\ p.governance = g
  BY DEF StoreType
<1>r. r = [c EXCEPT !.delegates[D].nounsRepresented = With(@, Only(id)),
                    !.accounts[to] = Got(T, to, id),
                    !.governance = IF T.tokenBalance = 0
                                   THEN [g EXCEPT !.currentTokenHolders = @ + 1] ELSE @,
                    !.nouns[id] = [@ EXCEPT !.exists = TRUE, !.owner = to]]
  <2>1. ReceiversDelegate(s.accounts[to], to)
          = IF s.accounts[to].delegate = NoDelegate THEN to ELSE s.accounts[to].delegate
    BY DEF ReceiversDelegate
  <2>2. Got(s.accounts[to], to, id)
          = [delegate     |-> IF s.accounts[to].tokenBalance = 0 THEN to
                              ELSE s.accounts[to].delegate,
             tokenBalance |-> s.accounts[to].tokenBalance + 1,
             nouns        |-> With(s.accounts[to].nouns, Only(id))]
    BY DEF Got
  <2> QED
    BY <2>1, <2>2 DEF Received
<1> HIDE DEF p, D
<1>3. /\ c \in StoreType /\ c.accounts = m.accounts /\ c.nouns = m.nouns
      /\ SameVotes(p, c) /\ SameRepresented(p, c) /\ SameHolders(p, c) /\ SameSupply(p, c)
  BY <1>1, <1>2, DelegateCreatedChanges
<1> HIDE DEF c
<1>4. r = [c EXCEPT !.delegates = [@ EXCEPT ![D] = e],
                    !.accounts = [@ EXCEPT ![to] = Got(T, to, id)],
                    !.governance = h,
                    !.nouns = [@ EXCEPT ![id] = n]]
  BY <1>1, <1>3, <1>r DEF StoreType
<1>5. /\ e \in DelegateEntity /\ e.delegatedVotes = c.delegates[D].delegatedVotes
      /\ e.nounsRepresented = With(c.delegates[D].nounsRepresented, Only(id))
  <2>1. c.delegates[D] \in DelegateEntity
    BY <1>1, <1>3 DEF StoreType
  <2>2. With(c.delegates[D].nounsRepresented, Only(id)) \in Counts
    BY <1>1, <2>1, CountsAreTyped DEF DelegateEntity
  <2> QED
    BY <2>1, <2>2 DEF DelegateEntity
<1>6. Got(T, to, id) \in AccountEntity
  <2>1. With(T.nouns, Only(id)) \in Counts
    BY <1>1, CountsAreTyped DEF AccountEntity
  <2> QED
    BY <1>1, <2>1 DEF AccountEntity, Got
<1>7. /\ h \in GovernanceEntity /\ h.totalTokenHolders = g.totalTokenHolders
      /\ h.currentDelegates = g.currentDelegates /\ h.delegatedVotes = g.delegatedVotes
      /\ h.currentTokenHolders = g.currentTokenHolders + Flag(T.tokenBalance = 0)
  <2>1. /\ c.governance \in GovernanceEntity /\ c.governance.totalTokenHolders = g.totalTokenHolders
        /\ c.governance.currentDelegates = g.currentDelegates
        /\ c.governance.delegatedVotes = g.delegatedVotes
        /\ c.governance.currentTokenHolders = g.currentTokenHolders
        /\ g.currentTokenHolders \in Int
    BY <1>2, <1>3 DEF StoreType, SameVotes, SameHolders, SameSupply, GovernanceEntity
  <2>2. CASE T.tokenBalance = 0
    BY <2>2 DEF Flag, GovernanceEntity
  <2>3. CASE T.tokenBalance # 0
    BY <2>1, <2>3 DEF Flag
  <2> QED
    BY <2>2, <2>3
<1>8. n \in NounEntity
      /\ n = [exists |-> TRUE, owner |-> to, seeded |-> m.nouns[id].seeded]
  <2> DEFINE old == c.nouns[id]
  <2>1. old = m.nouns[id] /\ old \in NounEntity
    BY <1>3 DEF StoreType
  <2>2. n = [old EXCEPT !.exists = TRUE, !.owner = to]
    OBVIOUS
  <2> HIDE DEF n, old
  <2>3. n = [exists |-> TRUE, owner |-> to, seeded |-> old.seeded]
    BY <2>1, <2>2 DEF NounEntity
  <2> QED
    BY <2>1, <2>3 DEF NounEntity
<1> HIDE DEF e, h, n
<1> DEFINE as == [c.accounts EXCEPT ![to] = Got(T, to, id)]
           ds == [c.delegates EXCEPT ![D] = e]
           ns == [c.nouns EXCEPT ![id] = n]
<1>9. /\ as \in [Addresses -> AccountEntity] /\ ds \in [Addresses -> DelegateEntity]
      /\ ns \in [Tokens -> NounEntity]
  BY <1>1, <1>3, <1>5, <1>6, <1>8 DEF StoreType
<1>10. ASSUME NEW a \in Addresses
       PROVE  /\ as[a] = IF a = to THEN Got(T, to, id) ELSE m.accounts[a]
              /\ ds[a] = IF a = D THEN e ELSE c.delegates[a]
  BY <1>1, <1>3 DEF StoreType
<1>11. ASSUME NEW a \in Addresses
       PROVE  /\ c.delegates[a].delegatedVotes = m.delegates[a].delegatedVotes
              /\ c.delegates[a].nounsRepresented = m.delegates[a].nounsRepresented
  BY <1>2, <1>3 DEF SameVotes, SameRepresented
<1>12. ASSUME NEW i \in Tokens PROVE ns[i] = IF i = id THEN n ELSE m.nouns[i]
  BY <1>3 DEF StoreType
<1> HIDE DEF as, ds, ns
<1>13. /\ r \in StoreType /\ r.governance = h
       /\ r.accounts = as /\ r.delegates = ds /\ r.nouns = ns
  <2>1. r = [c EXCEPT !.delegates = ds, !.accounts = as, !.governance = h, !.nouns = ns]
    BY <1>3, <1>4 DEF StoreType, as, ds, ns
  <2> QED
    BY <1>3, <1>7, <1>9, <2>1 DEF StoreType
<1>14. \A a \in Addresses :
         /\ r.accounts[a] = IF a = to THEN Got(T, to, id) ELSE m.accounts[a]
         /\ r.delegates[a].delegatedVotes = m.delegates[a].delegatedVotes
         /\ r.delegates[a].nounsRepresented =
              IF a = D THEN With(m.delegates[a].nounsRepresented, Only(id))
              ELSE m.delegates[a].nounsRepresented
  BY <1>5, <1>10, <1>11, <1>13
<1>15. \A i \in Tokens : r.nouns[i] =
         IF i = id THEN [exists |-> TRUE, owner |-> to, seeded |-> m.nouns[id].seeded]
         ELSE m.nouns[i]
  BY <1>8, <1>12, <1>13
<1> QED
  BY <1>7, <1>13, <1>14, <1>15 DEF ReceiverStored, D

\* what is stored of a transfer between F and T, as loaded from s
RepresentedLess(s, from, id, F, a) ==
  IF Loses(F, from, a) THEN Without(s.delegates[a].nounsRepresented, Only(id))
  ELSE s.delegates[a].nounsRepresented
TransferStored(s, from, to, id, F, T, r) ==
  /\ \A a \in Addresses :
       /\ r.accounts[a] = IF a = to THEN Got(T, to, id)
                          ELSE IF a = from /\ from # Zero THEN Left(F, id)
                          ELSE s.accounts[a]
       /\ r.delegates[a].nounsRepresented =
            IF a = ReceiversDelegate(T, to)
            THEN With(RepresentedLess(s, from, id, F, a), Only(id))
            ELSE RepresentedLess(s, from, id, F, a)
  /\ \A i \in Tokens : r.nouns[i] =
       IF i = id THEN [exists |-> TRUE, owner |-> to, seeded |-> s.nouns[id].seeded]
       ELSE s.nouns[i]
  /\ r.governance.totalTokenHolders = s.governance.totalTokenHolders
       + Flag(from = Zero) - Flag(to = Zero)
  /\ r.governance.currentTokenHolders = s.governance.currentTokenHolders
       - Flag(from # Zero /\ F.tokenBalance = 1) + Flag(T.tokenBalance = 0)

(***************************************************************************)
(* handleTransfer: the noun leaves the sender's account, if the event      *)
(* names one, and its delegate, and comes to the receiver's, loaded before *)
(* the sender was saved; the holders and the supply are counted.           *)
(***************************************************************************)
LEMMA TransferChanges ==
  ASSUME NEW s \in StoreType, NEW from \in Addresses, NEW to \in Addresses, NEW id \in Tokens,
         NEW r, r = handleTransfer(s, from, to, id),
         NEW F, F = s.accounts[from], NEW T, T = s.accounts[to]
  PROVE  /\ r \in StoreType /\ SameVotes(s, r)
         /\ TransferStored(s, from, to, id, F, T, r)
<1> DEFINE m == SenderSaved(s, from, id)
           g == [m.governance EXCEPT !.totalTokenHolders = @ - Flag(to = Zero)]
<1>1. /\ m \in StoreType /\ m.nouns = s.nouns /\ SameVotes(s, m)
      /\ \A a \in Addresses :
           /\ m.accounts[a] = IF a = from /\ from # Zero THEN Left(F, id) ELSE s.accounts[a]
           /\ m.delegates[a].nounsRepresented =
                IF Loses(F, from, a) THEN Without(s.delegates[a].nounsRepresented, Only(id))
                ELSE s.delegates[a].nounsRepresented
      /\ m.governance.totalTokenHolders = s.governance.totalTokenHolders + Flag(from = Zero)
      /\ m.governance.currentTokenHolders = s.governance.currentTokenHolders
           - Flag(from # Zero /\ F.tokenBalance = 1)
  BY SenderSavedChanges
<1>2. r = Received(s, m, g, to, id)
  BY DEF handleTransfer
<1>3. Flag(from = Zero) \in Int /\ Flag(to = Zero) \in Int
  BY DEF Flag
<1> HIDE DEF m
<1>4. /\ g \in GovernanceEntity
      /\ g.totalTokenHolders = m.governance.totalTokenHolders - Flag(to = Zero)
      /\ g.currentTokenHolders = m.governance.currentTokenHolders
      /\ g.currentDelegates = m.governance.currentDelegates
      /\ g.delegatedVotes = m.governance.delegatedVotes
  <2>1. m.governance \in GovernanceEntity
    BY <1>1 DEF StoreType
  <2> DEFINE x == Flag(to = Zero)
  <2>2. x \in Int
    BY <1>3
  <2> HIDE DEF x
  <2>3. m.governance.totalTokenHolders - x \in Int
    BY <2>1, <2>2 DEF GovernanceEntity
  <2>4. g = [m.governance EXCEPT !.totalTokenHolders = @ - x]
    BY DEF x
  <2> DEFINE h == m.governance
  <2> HIDE DEF g, h
  <2>5. g = [currentTokenHolders |-> h.currentTokenHolders,
             totalTokenHolders   |-> h.totalTokenHolders - x,
             currentDelegates    |-> h.currentDelegates,
             totalDelegates      |-> h.totalDelegates,
             delegatedVotes      |-> h.delegatedVotes]
    BY <2>1, <2>4 DEF GovernanceEntity, h
  <2>6. h.totalTokenHolders - x \in Int
    BY <2>3 DEF h
  <2> QED
    BY <2>1, <2>5, <2>6 DEF GovernanceEntity, h, x
<1> HIDE DEF g
<1>5. r \in StoreType /\ ReceiverStored(m, g, to, id, T, r)
  BY <1>1, <1>2, <1>4, ReceivedChanges
<1>6. SameVotes(s, r)
  BY <1>1, <1>4, <1>5 DEF SameVotes, ReceiverStored
<1>7. ASSUME NEW a \in Addresses
      PROVE  /\ r.accounts[a] = IF a = to THEN Got(T, to, id)
                                ELSE IF a = from /\ from # Zero THEN Left(F, id)
                                ELSE s.accounts[a]
             /\ r.delegates[a].nounsRepresented =
                  IF a = ReceiversDelegate(T, to)
                  THEN With(RepresentedLess(s, from, id, F, a), Only(id))
                  ELSE RepresentedLess(s, from, id, F, a)
  BY <1>1, <1>5 DEF ReceiverStored, RepresentedLess
<1>8. \A i \in Tokens : r.nouns[i] =
        IF i = id THEN [exists |-> TRUE, owner |-> to, seeded |-> s.nouns[id].seeded]
        ELSE s.nouns[i]
  <2>1. \A i \in Tokens : r.nouns[i] =
          IF i = id THEN [exists |-> TRUE, owner |-> to, seeded |-> m.nouns[id].seeded]
          ELSE m.nouns[i]
    BY <1>5, Zenon DEF ReceiverStored
  <2>2. m.nouns = s.nouns
    BY <1>1
  <2> QED
    BY <2>1, <2>2, Zenon
<1>9. /\ r.governance.totalTokenHolders = s.governance.totalTokenHolders
           + Flag(from = Zero) - Flag(to = Zero)
      /\ r.governance.currentTokenHolders = s.governance.currentTokenHolders
           - Flag(from # Zero /\ F.tokenBalance = 1) + Flag(T.tokenBalance = 0)
  <2> DEFINE x == Flag(from = Zero)
             y == Flag(to = Zero)
             u == Flag(from # Zero /\ F.tokenBalance = 1)
             v == Flag(T.tokenBalance = 0)
  <2>1. /\ r.governance.totalTokenHolders = g.totalTokenHolders
        /\ r.governance.currentTokenHolders
             = g.currentTokenHolders + Flag(T.tokenBalance = 0)
    BY <1>5 DEF ReceiverStored
  <2>2. /\ g.totalTokenHolders = m.governance.totalTokenHolders - Flag(to = Zero)
        /\ m.governance.totalTokenHolders = s.governance.totalTokenHolders + Flag(from = Zero)
        /\ g.currentTokenHolders = m.governance.currentTokenHolders
        /\ m.governance.currentTokenHolders = s.governance.currentTokenHolders
             - Flag(from # Zero /\ F.tokenBalance = 1)
    BY <1>1, <1>4
  <2>3. /\ r.governance.totalTokenHolders = g.totalTokenHolders
        /\ g.totalTokenHolders = m.governance.totalTokenHolders - y
        /\ m.governance.totalTokenHolders = s.governance.totalTokenHolders + x
        /\ r.governance.currentTokenHolders = g.currentTokenHolders + v
        /\ g.currentTokenHolders = m.governance.currentTokenHolders
        /\ m.governance.currentTokenHolders = s.governance.currentTokenHolders - u
    BY <2>1, <2>2
  <2>0. /\ x \in Int /\ y \in Int /\ u \in Int /\ v \in Int
        /\ s.governance.totalTokenHolders \in Int /\ s.governance.currentTokenHolders \in Int
    BY DEF Flag, StoreType, GovernanceEntity
  <2> HIDE DEF x, y, u, v
  <2>4. /\ r.governance.totalTokenHolders = s.governance.totalTokenHolders + x - y
        /\ r.governance.currentTokenHolders = s.governance.currentTokenHolders - u + v
    BY <2>0, <2>3
  <2> QED
    BY <2>4 DEF x, y, u, v
<1> QED
  BY <1>5, <1>6, <1>7, <1>8, <1>9 DEF TransferStored

(***************************************************************************)
(* handleNounCreated: the noun that the transfer has made an entity of     *)
(* gets its seed, and nothing else changes.                                *)
(***************************************************************************)
LEMMA NounCreatedChanges ==
  ASSUME NEW s \in StoreType, NEW id \in Tokens, s.nouns[id].exists,
         NEW r, r = handleNounCreated(s, id)
  PROVE  /\ r \in StoreType /\ r.accounts = s.accounts /\ r.delegates = s.delegates
         /\ r.governance = s.governance
         /\ \A i \in Tokens : r.nouns[i] =
              IF i = id THEN [exists |-> s.nouns[id].exists, owner |-> s.nouns[id].owner,
                              seeded |-> TRUE]
              ELSE s.nouns[i]
<1> DEFINE old == s.nouns[id]
           n == [old EXCEPT !.seeded = TRUE]
<1>1. r = [s EXCEPT !.nouns = [@ EXCEPT ![id] = n]]
  BY DEF handleNounCreated, StoreType
<1>2. old \in NounEntity
  BY DEF StoreType, NounEntity
<1>a. n = [old EXCEPT !.seeded = TRUE]
  OBVIOUS
<1> HIDE DEF n, old
<1>3. n = [exists |-> old.exists, owner |-> old.owner, seeded |-> TRUE]
  BY <1>2, <1>a DEF NounEntity
<1>4. n \in NounEntity
  BY <1>2, <1>3 DEF NounEntity
<1>5. /\ r \in StoreType /\ r.accounts = s.accounts /\ r.delegates = s.delegates
      /\ r.governance = s.governance
      /\ \A i \in Tokens : r.nouns[i] = IF i = id THEN n ELSE s.nouns[i]
  BY <1>1, <1>4 DEF StoreType
<1> QED
  BY <1>3, <1>5 DEF old

-------------------------------------------------------------------------------
(* The votes.                                                              *)

\* w is what the contract says of each account's votes
VotesAre(s, w) ==
  /\ \A a \in Accounts : s.delegates[a].delegatedVotes = w[a]
  /\ s.governance.delegatedVotes = Sum(w, Accounts)
  /\ s.governance.currentDelegates = Cardinality({a \in Accounts : w[a] > 0})

(***************************************************************************)
(* A sum changes by as much as one of its terms.                           *)
(***************************************************************************)
LEMMA SumChanges ==
  ASSUME NEW A, IsFiniteSet(A), NEW w \in [A -> Nat], NEW d \in A, NEW n \in Nat,
         NEW u, u = [w EXCEPT ![d] = n]
  PROVE  /\ Sum(w, A) \in Nat
         /\ Sum(u, A) = Sum(w, A) + (n - w[d])
<1> DEFINE B == A \ {d}
<1>1. IsFiniteSet(B) /\ d \notin B /\ A = B \cup {d}
  BY FS_RemoveElement
<1>2. (\A v \in B : w[v] \in Nat) /\ (\A v \in B : u[v] \in Nat) /\ (\A v \in B : u[v] = w[v])
      /\ u[d] = n /\ u[d] \in Nat /\ w[d] \in Nat
  OBVIOUS
<1> HIDE DEF B
<1>3. Sum(w, B) \in Nat /\ Sum(w, A) = Sum(w, B) + w[d]
  BY <1>1, <1>2, SumGrows
<1>4. Sum(u, A) = Sum(u, B) + n
  <2>1. Sum(u, B \cup {d}) = Sum(u, B) + u[d]
    BY <1>1, <1>2, SumGrows
  <2>2. A = B \cup {d} /\ u[d] = n
    BY <1>1, <1>2
  <2> QED
    BY <2>1, <2>2
<1>5. Sum(u, B) = Sum(w, B)
  BY <1>1, <1>2, SumSame
<1> DEFINE x == Sum(w, B)
           y == w[d]
<1>6. x \in Nat /\ y \in Nat /\ Sum(w, A) = x + y /\ Sum(u, A) = x + n
  BY <1>2, <1>3, <1>4, <1>5
<1> HIDE DEF x, y
<1>7. Sum(w, A) \in Nat /\ Sum(u, A) = Sum(w, A) + (n - y)
  BY <1>6
<1> QED
  BY <1>7 DEF y

(***************************************************************************)
(* The members with something count one more or one less when one of them  *)
(* gets its first or loses its last.                                       *)
(***************************************************************************)
LEMMA PositiveChange ==
  ASSUME NEW A, IsFiniteSet(A), NEW w \in [A -> Nat], NEW d \in A, NEW n \in Nat,
         NEW u, u = [w EXCEPT ![d] = n]
  PROVE  /\ Cardinality({a \in A : w[a] > 0}) \in Nat
         /\ Cardinality({a \in A : u[a] > 0}) = Cardinality({a \in A : w[a] > 0})
              + Flag(w[d] = 0 /\ n > 0) - Flag(w[d] > 0 /\ n = 0)
<1> DEFINE P == {a \in A : w[a] > 0}
           Q == {a \in A : u[a] > 0}
<1>1. IsFiniteSet(P)
  BY FS_Subset
<1>2. Q = (IF n > 0 THEN P \cup {d} ELSE P \ {d}) /\ (d \in P <=> w[d] > 0) /\ w[d] \in Nat
  OBVIOUS
<1> HIDE DEF P, Q
<1>3. /\ Cardinality(P) \in Nat
      /\ Cardinality(P \cup {d}) = IF d \in P THEN Cardinality(P) ELSE Cardinality(P) + 1
      /\ Cardinality(P \ {d}) = IF d \in P THEN Cardinality(P) - 1 ELSE Cardinality(P)
  BY <1>1, FS_CardinalityType, FS_AddElement, FS_RemoveElement
<1>4. Cardinality(Q) = Cardinality(P) + Flag(w[d] = 0 /\ n > 0) - Flag(w[d] > 0 /\ n = 0)
  <2>1. CASE n > 0
    BY <1>2, <1>3, <2>1 DEF Flag
  <2>2. CASE n = 0
    BY <1>2, <1>3, <2>2 DEF Flag
  <2> QED
    BY <2>1, <2>2
<1> QED
  BY <1>3, <1>4 DEF P, Q

(***************************************************************************)
(* handleDelegateVotesChanged keeps what is stored of the votes exact: the *)
(* event says what the votes were, and both are never zero.                *)
(***************************************************************************)
LEMMA VotesChangedKeepsVotes ==
  ASSUME NEW s \in StoreType, NEW w \in [Accounts -> Nat], NEW d \in Accounts, NEW n \in Nat,
         VotesAre(s, w), w[d] # 0 \/ n # 0,
         NEW r, r = handleDelegateVotesChanged(s, d, w[d], n)
  PROVE  VotesAre(r, [w EXCEPT ![d] = n])
<1> DEFINE u == [w EXCEPT ![d] = n]
           p == w[d]
<1>1. p \in Nat /\ d \in Addresses /\ p \in Int /\ n \in Int
  BY DEF Addresses
<1>2. /\ \A a \in Addresses : r.delegates[a].delegatedVotes =
           IF a = d THEN n ELSE s.delegates[a].delegatedVotes
      /\ r.governance.currentDelegates = s.governance.currentDelegates
           + Flag(p = 0 /\ n > 0) - Flag(n = 0)
      /\ r.governance.delegatedVotes = s.governance.delegatedVotes + (n - p)
  BY <1>1, VotesChangedChanges
<1>3. IsFiniteSet(Accounts)
  BY IndexerConstants
<1>4. \A a \in Accounts : r.delegates[a].delegatedVotes = u[a]
  BY <1>2 DEF VotesAre, Addresses
<1>5. r.governance.delegatedVotes = Sum(u, Accounts)
  <2>1. u = [w EXCEPT ![d] = n]
    OBVIOUS
  <2> HIDE DEF u
  <2>2. Sum(u, Accounts) = Sum(w, Accounts) + (n - p)
    BY <1>3, <2>1, SumChanges
  <2> QED
    BY <1>2, <2>2 DEF VotesAre
<1>6. r.governance.currentDelegates = Cardinality({a \in Accounts : u[a] > 0})
  <2>1. Flag(n = 0) = Flag(p > 0 /\ n = 0)
    BY <1>1 DEF Flag
  <2>2. s.governance.currentDelegates = Cardinality({a \in Accounts : w[a] > 0})
    BY DEF VotesAre
  <2>3. Cardinality({a \in Accounts : u[a] > 0}) = Cardinality({a \in Accounts : w[a] > 0})
                  + Flag(p = 0 /\ n > 0) - Flag(p > 0 /\ n = 0)
    <3>1. u = [w EXCEPT ![d] = n]
      OBVIOUS
    <3> HIDE DEF u
    <3> QED
      BY <1>3, <3>1, PositiveChange
  <2> HIDE DEF u, p
  <2> QED
    BY <1>2, <2>1, <2>2, <2>3
<1> QED
  BY <1>4, <1>5, <1>6 DEF VotesAre

VotesNow == [a \in Accounts |-> GetCurrentVotes(a)]

(***************************************************************************)
(* The events of _moveDelegates change what is stored of the votes as they *)
(* change, and nothing else.                                               *)
(***************************************************************************)
LEMMA VotesMovedChanges ==
  ASSUME TypeOK, CheckpointsAscending, block' = block,
         NEW src \in Addresses, NEW dst \in Addresses, NEW n \in Nat,
         MoveDelegates(src, dst, n),
         NEW s \in StoreType, NEW r, r = VotesMoved(s, src, dst, n)
  PROVE  /\ r \in StoreType /\ SameButVotes(s, r)
         /\ VotesAre(s, VotesNow) => VotesAre(r, VotesNow')
<1> DEFINE w == VotesNow
           Voted(t, d) == IF d = Zero THEN t
                          ELSE handleDelegateVotesChanged(t, d, GetCurrentVotes(d),
                                                          Latest(checkpoints'[d], 0))
<1>1. /\ w \in [Accounts -> Nat]
      /\ \A a \in Accounts : GetCurrentVotes(a) = w[a] /\ w'[a] = Latest(checkpoints'[a], 0)
      /\ \A a \in Accounts : w'[a] = w[a] - Gain(a, src, n) + Gain(a, dst, n)
  BY VotesAfterMove DEF VotesNow, GetCurrentVotes
<1>2. w' \in [Accounts -> Nat]
  <2>1. CheckpointsTyped
    BY TypesSplit
  <2>2. \A a \in Accounts : GetCurrentVotes(a)' \in Nat
    BY <2>1, VotesAfterMove, WrittenVotes DEF GetCurrentVotes
  <2> QED
    BY <2>2 DEF VotesNow
<1>3. CASE src = dst \/ n = 0
  <2>1. \A a \in Accounts : w'[a] = w[a]
    BY <1>1, <1>3 DEF Gain
  <2>2. w' = w
    <3>1. w = [a \in Accounts |-> w[a]] /\ w' = [a \in Accounts |-> w'[a]]
      BY DEF VotesNow
    <3> HIDE DEF w
    <3> QED
      BY <2>1, <3>1
  <2>3. r = s
    BY <1>3 DEF VotesMoved
  <2> HIDE DEF w
  <2> QED
    BY <2>2, <2>3 DEF SameButVotes, SameRepresented, SameHolders, SameSupply, w
<1>4. CASE src # dst /\ n # 0
  <2> DEFINE m == Voted(s, src)
             w1 == IF src = Zero THEN w ELSE [w EXCEPT ![src] = w[src] - n]
  <2>0. r = Voted(m, dst)
    BY <1>4 DEF VotesMoved
  <2>1. /\ w1 \in [Accounts -> Nat] /\ m \in StoreType /\ SameButVotes(s, m)
        /\ VotesAre(s, w) => VotesAre(m, w1)
    <3>1. CASE src = Zero
      BY <1>1, <3>1 DEF SameButVotes, SameRepresented, SameHolders, SameSupply
    <3>2. CASE src # Zero
      <4>1. /\ src \in Accounts /\ w[src] \in Nat /\ n <= w[src] /\ n > 0
            /\ w'[src] = w[src] - n
        BY <1>1, <1>4, <3>2 DEF Addresses, MoveDelegates, CanMove, Gain
      <4>2. m = handleDelegateVotesChanged(s, src, w[src], w[src] - n)
        BY <1>1, <3>2, <4>1
      <4> HIDE DEF w, m
      <4>3. w[src] - n \in Nat /\ w[src] # 0
        BY <4>1
      <4>4. m \in StoreType /\ SameButVotes(s, m)
        BY <4>1, <4>2, <4>3, VotesChangedChanges DEF Addresses
      <4>5. VotesAre(s, w) => VotesAre(m, w1)
        BY <1>1, <3>2, <4>1, <4>2, <4>3, VotesChangedKeepsVotes
      <4> QED
        BY <1>1, <4>1, <4>3, <4>4, <4>5
    <3> QED
      BY <3>1, <3>2
  <2>2. r \in StoreType /\ SameButVotes(m, r) /\ (VotesAre(m, w1) => VotesAre(r, w'))
    <3>1. CASE dst = Zero
      <4>1. src \in Accounts /\ r = m
        BY <1>4, <2>0, <3>1 DEF Addresses
      <4>2. \A a \in Accounts : w'[a] = w1[a]
        BY <1>1, <1>4, <3>1, <4>1, ZeroIsNoAccount DEF Gain
      <4>3. w' = w1
        <5> HIDE DEF w, w1
        <5> QED
          BY <1>2, <2>1, <4>2
      <4> QED
        BY <2>1, <4>1, <4>3 DEF SameButVotes, SameRepresented, SameHolders, SameSupply
    <3>2. CASE dst # Zero
      <4>1. dst \in Accounts /\ w[dst] \in Nat /\ w'[dst] = w[dst] + n /\ w1[dst] = w[dst]
        BY <1>1, <1>4, <3>2 DEF Addresses, Gain
      <4>2. r = handleDelegateVotesChanged(m, dst, w1[dst], w[dst] + n)
        BY <1>1, <2>0, <3>2, <4>1
      <4>3. \A a \in Accounts : w'[a] = [w1 EXCEPT ![dst] = w[dst] + n][a]
        <5>1. \A a \in Accounts : w1[a] = w[a] - Gain(a, src, n)
          BY <1>1, <3>2, ZeroIsNoAccount DEF Gain
        <5>2. \A a \in Accounts : a # dst => w'[a] = w[a] - Gain(a, src, n)
          BY <1>1 DEF Gain
        <5> HIDE DEF w, w1
        <5> QED
          BY <2>1, <4>1, <5>1, <5>2
      <4>4. w' = [w1 EXCEPT ![dst] = w[dst] + n]
        <5> HIDE DEF w, w1
        <5> QED
          BY <1>2, <2>1, <4>1, <4>3
      <4> HIDE DEF w, w1, m
      <4>5. w[dst] + n \in Nat /\ w[dst] + n # 0
        BY <1>4, <4>1
      <4>6. r \in StoreType /\ SameButVotes(m, r)
        BY <2>1, <4>1, <4>2, <4>5, VotesChangedChanges DEF Addresses
      <4>7. VotesAre(m, w1) => VotesAre(r, w')
        BY <2>1, <4>1, <4>2, <4>4, <4>5, VotesChangedKeepsVotes
      <4> QED
        BY <4>6, <4>7
    <3> QED
      BY <3>1, <3>2
  <2> HIDE DEF m, w1, w
  <2>3. r \in StoreType /\ SameButVotes(s, r) /\ (VotesAre(s, w) => VotesAre(r, w'))
    BY <2>1, <2>2 DEF SameButVotes, SameRepresented, SameHolders, SameSupply
  <2> QED
    BY <2>3 DEF w
<1> QED
  BY <1>3, <1>4

\* A store that says the same of the votes tells them as exactly.
LEMMA SameVotesAre ==
  ASSUME NEW s, NEW r, SameVotes(s, r), NEW w, VotesAre(s, w)
  PROVE  VotesAre(r, w)
BY DEF SameVotes, VotesAre, Addresses

\* the nouns stored, for the owners o: an entity is seeded when it is made, and
\* an owned noun has one
NounsAre(s, o) ==
  \A i \in Tokens :
    /\ s.nouns[i].owner = o[i]
    /\ s.nouns[i].seeded = s.nouns[i].exists
    /\ o[i] # Zero => s.nouns[i].exists

VotesInv ==
  /\ store \in StoreType
  /\ VotesAre(store, VotesNow)
  /\ NounsAre(store, owners)
  /\ store.governance.totalTokenHolders = Len(allTokens)

(***************************************************************************)
(* The supply follows the owners: one more after a mint, less after a burn *)
(***************************************************************************)
LEMMA SupplyMoves ==
  ASSUME IInv, SupplyCounted', NEW id \in Tokens, NEW to \in Addresses, MovesNoun(id, to)
  PROVE  /\ Len(allTokens) \in Nat
         /\ Len(allTokens') = Len(allTokens) + Flag(owners[id] = Zero) - Flag(to = Zero)
<1> DEFINE E == {i \in Tokens : Enum!Base!Exists(i)}
<1>1. /\ Len(allTokens) = Cardinality(E) /\ Len(allTokens') = Cardinality(E')
      /\ owners \in [Tokens -> Addresses]
  BY TypesSplit DEF IInv, SupplyCounted, OwnershipTyped
<1>2. IsFiniteSet(E) /\ Cardinality(E) \in Nat
  BY TokensAreNumbers, FS_Subset, FS_CardinalityType
<1>3. /\ E' = (IF to # Zero THEN E \cup {id} ELSE E \ {id})
      /\ id \in E <=> owners[id] # Zero
  BY <1>1 DEF MovesNoun, Enum!Base!Exists
<1>4. owners[id] # Zero \/ to # Zero
  BY DEF MovesNoun
<1> HIDE DEF E
<1>5. /\ Cardinality(E \cup {id}) = IF id \in E THEN Cardinality(E) ELSE Cardinality(E) + 1
      /\ Cardinality(E \ {id}) = IF id \in E THEN Cardinality(E) - 1 ELSE Cardinality(E)
  BY <1>2, FS_AddElement, FS_RemoveElement
<1>6. CASE to # Zero
  BY <1>1, <1>2, <1>3, <1>5, <1>6 DEF Flag
<1>7. CASE to = Zero
  BY <1>1, <1>2, <1>3, <1>4, <1>5, <1>7 DEF Flag
<1> QED
  BY <1>6, <1>7

(***************************************************************************)
(* The events of the votes a moving noun takes along.                      *)
(***************************************************************************)
LEMMA MovedChanges ==
  ASSUME IInv, NEW id \in Tokens, NEW to \in Addresses, MovesNoun(id, to),
         NEW s \in StoreType, NEW r, r = Moved(s, owners[id], to)
  PROVE  /\ r \in StoreType /\ SameButVotes(s, r)
         /\ VotesAre(s, VotesNow) => VotesAre(r, VotesNow')
<1>1. TypeOK /\ CheckpointsAscending /\ OwnershipTyped
  BY TypesSplit DEF IInv
<1>2. \A a \in Addresses : Delegates(a) \in Addresses
  BY <1>1 DEF Delegates, OwnershipTyped, Addresses
<1>3. owners[id] \in Addresses
  BY <1>1 DEF OwnershipTyped
<1>4. /\ MoveDelegates(Delegates(owners[id]), Delegates(to), 1) /\ block' = block
  BY DEF MovesNoun, BeforeTokenTransfer
<1>5. r = VotesMoved(s, Delegates(owners[id]), Delegates(to), 1)
  BY DEF Moved
<1> QED
  BY <1>1, <1>2, <1>3, <1>4, <1>5, VotesMovedChanges

(***************************************************************************)
(* A burn or a transfer: the noun's new owner is stored and the supply.    *)
(***************************************************************************)
LEMMA TransferKeepsVotesInv ==
  ASSUME IInv, IInv', NEW id \in Tokens, NEW to \in Addresses, MovesNoun(id, to),
         owners[id] # Zero, VotesInv,
         store' = handleTransfer(Moved(store, owners[id], to), owners[id], to, id)
  PROVE  VotesInv'
<1> DEFINE s == Moved(store, owners[id], to)
           r == store'
<1>1. /\ s \in StoreType /\ SameButVotes(store, s) /\ VotesAre(s, VotesNow')
  BY MovedChanges DEF VotesInv
<1>2. owners[id] \in Addresses /\ owners \in [Tokens -> Addresses]
      /\ \A i \in Tokens : owners'[i] = IF i = id THEN to ELSE owners[i]
  BY TypesSplit DEF IInv, OwnershipTyped, MovesNoun
<1>3. r = handleTransfer(s, owners[id], to, id)
  OBVIOUS
<1> HIDE DEF s, r
<1>4. /\ r \in StoreType /\ SameVotes(s, r)
      /\ TransferStored(s, owners[id], to, id, s.accounts[owners[id]], s.accounts[to], r)
  BY <1>1, <1>2, <1>3, TransferChanges
<1>5. VotesAre(r, VotesNow')
  BY <1>1, <1>4, SameVotesAre
<1>6. NounsAre(r, owners')
  <2>1. \A i \in Tokens : r.nouns[i] =
          IF i = id THEN [exists |-> TRUE, owner |-> to, seeded |-> store.nouns[id].seeded]
          ELSE store.nouns[i]
    BY <1>1, <1>4 DEF TransferStored, SameButVotes
  <2>2. store.nouns[id].exists /\ store.nouns[id].exists \in BOOLEAN
    BY DEF VotesInv, NounsAre, StoreType, NounEntity
  <2>3. store.nouns[id].seeded = TRUE
    BY <2>2 DEF VotesInv, NounsAre
  <2>4. ASSUME NEW i \in Tokens
        PROVE  /\ r.nouns[i].owner = owners'[i] /\ r.nouns[i].seeded = r.nouns[i].exists
               /\ owners'[i] # Zero => r.nouns[i].exists
    <3>1. CASE i = id
      <4>1. r.nouns[id] = [exists |-> TRUE, owner |-> to, seeded |-> store.nouns[id].seeded]
        BY <2>1
      <4>2. r.nouns[id].exists = TRUE /\ r.nouns[id].owner = to
            /\ r.nouns[id].seeded = store.nouns[id].seeded
        BY <4>1
      <4> QED
        BY <1>2, <2>3, <3>1, <4>2
    <3>2. CASE i # id
      <4>1. r.nouns[i] = store.nouns[i] /\ owners'[i] = owners[i]
        BY <1>2, <2>1, <3>2
      <4> QED
        BY <4>1 DEF VotesInv, NounsAre
    <3> QED
      BY <3>1, <3>2
  <2> QED
    BY <2>4 DEF NounsAre
<1>7. r.governance.totalTokenHolders = Len(allTokens')
  <2>1. s.governance.totalTokenHolders = Len(allTokens)
    BY <1>1 DEF SameButVotes, SameSupply, VotesInv
  <2>2. Len(allTokens') = Len(allTokens) + Flag(owners[id] = Zero) - Flag(to = Zero)
    BY SupplyMoves DEF IInv
  <2>3. r.governance.totalTokenHolders = s.governance.totalTokenHolders
          + Flag(owners[id] = Zero) - Flag(to = Zero)
    BY <1>4 DEF TransferStored
  <2> QED
    BY <2>1, <2>2, <2>3
<1> QED
  BY <1>4, <1>5, <1>6, <1>7 DEF VotesInv, r

(***************************************************************************)
(* A mint, whose log hands the noun over to the creator and on.            *)
(***************************************************************************)
LEMMA MintKeepsVotesInv ==
  ASSUME IInv, IInv', NEW id \in Tokens, NEW to \in Accounts, MovesNoun(id, to),
         owners[id] = Zero, VotesInv,
         store' = handleNounCreated(
                    handleTransfer(
                      handleTransfer(Moved(store, Zero, to), Zero, Creator, id),
                      Creator, to, id), id)
  PROVE  VotesInv'
<1> DEFINE s1 == Moved(store, owners[id], to)
           s2 == handleTransfer(s1, Zero, Creator, id)
           s3 == handleTransfer(s2, Creator, to, id)
           r == store'
<1>0. /\ to \in Addresses /\ Creator \in Addresses /\ Zero \in Addresses
      /\ to # Zero /\ Creator # Zero
  BY IndexerConstants, ZeroIsNoAccount DEF Addresses
<1>1. /\ s1 \in StoreType /\ SameButVotes(store, s1) /\ VotesAre(s1, VotesNow')
  BY <1>0, MovedChanges DEF VotesInv
<1>2. /\ owners \in [Tokens -> Addresses]
      /\ \A i \in Tokens : owners'[i] = IF i = id THEN to ELSE owners[i]
  BY TypesSplit DEF IInv, OwnershipTyped, MovesNoun
<1>3. r = handleNounCreated(s3, id)
  OBVIOUS
<1> HIDE DEF s1, r
<1>4. /\ s2 \in StoreType /\ SameVotes(s1, s2)
      /\ TransferStored(s1, Zero, Creator, id, s1.accounts[Zero], s1.accounts[Creator], s2)
  BY <1>0, <1>1, TransferChanges
<1> HIDE DEF s2
<1>5. /\ s3 \in StoreType /\ SameVotes(s2, s3)
      /\ TransferStored(s2, Creator, to, id, s2.accounts[Creator], s2.accounts[to], s3)
  BY <1>0, <1>4, TransferChanges
<1> HIDE DEF s3
<1>6. /\ \A i \in Tokens : i # id => s3.nouns[i] = store.nouns[i]
      /\ s3.nouns[id].exists = TRUE /\ s3.nouns[id].owner = to
  BY <1>1, <1>4, <1>5 DEF TransferStored, SameButVotes
<1>7. /\ r \in StoreType /\ r.delegates = s3.delegates /\ r.governance = s3.governance
      /\ \A i \in Tokens : i # id => r.nouns[i] = store.nouns[i]
      /\ r.nouns[id] = [exists |-> s3.nouns[id].exists, owner |-> to, seeded |-> TRUE]
  BY <1>3, <1>5, <1>6, NounCreatedChanges
<1>8. VotesAre(r, VotesNow')
  <2>1. VotesAre(s3, VotesNow')
    BY <1>1, <1>4, <1>5, SameVotesAre
  <2> QED
    BY <1>7, <2>1 DEF VotesAre
<1>9. NounsAre(r, owners')
  <2>1. ASSUME NEW i \in Tokens
        PROVE  /\ r.nouns[i].owner = owners'[i] /\ r.nouns[i].seeded = r.nouns[i].exists
               /\ owners'[i] # Zero => r.nouns[i].exists
    <3>1. CASE i = id
      <4>1. r.nouns[id].exists = s3.nouns[id].exists /\ r.nouns[id].owner = to
            /\ r.nouns[id].seeded = TRUE
        BY <1>7
      <4> QED
        BY <1>2, <1>6, <3>1, <4>1
    <3>2. CASE i # id
      <4>1. r.nouns[i] = store.nouns[i] /\ owners'[i] = owners[i]
        BY <1>2, <1>7, <3>2
      <4> QED
        BY <4>1 DEF VotesInv, NounsAre
    <3> QED
      BY <3>1, <3>2
  <2> QED
    BY <2>1 DEF NounsAre
<1>10. r.governance.totalTokenHolders = Len(allTokens')
  <2>1. s1.governance.totalTokenHolders = Len(allTokens)
    BY <1>1 DEF SameButVotes, SameSupply, VotesInv
  <2>2. Len(allTokens') = Len(allTokens) + Flag(owners[id] = Zero) - Flag(to = Zero)
        /\ Len(allTokens) \in Nat
    BY <1>0, SupplyMoves DEF IInv
  <2>3. s3.governance.totalTokenHolders = s1.governance.totalTokenHolders
          + Flag(Zero = Zero) - Flag(Creator = Zero) + Flag(Creator = Zero) - Flag(to = Zero)
    BY <1>4, <1>5 DEF TransferStored
  <2>4. Flag(Zero = Zero) = 1 /\ Flag(Creator = Zero) = 0 /\ Flag(to = Zero) = 0
        /\ Flag(owners[id] = Zero) = 1
    BY <1>0 DEF Flag
  <2> QED
    BY <1>7, <2>1, <2>2, <2>3, <2>4
<1> QED
  BY <1>7, <1>8, <1>9, <1>10 DEF VotesInv, r

(***************************************************************************)
(* A change of delegate: first the event of the delegates, then those of   *)
(* the votes.                                                              *)
(***************************************************************************)
LEMMA DelegationKeepsVotesInv ==
  ASSUME IInv, NEW x \in Accounts, NEW d \in Addresses, SetDelegate(x, d),
         UNCHANGED <<tokenVars, block>>, VotesInv,
         store' = VotesMoved(handleDelegateChanged(store, x, Delegates(x), d),
                             Delegates(x), d, balances[x])
  PROVE  VotesInv'
<1> DEFINE s == handleDelegateChanged(store, x, Delegates(x), d)
           r == store'
<1>1. /\ TypeOK /\ CheckpointsAscending /\ OwnershipTyped /\ x \in Addresses
      /\ balances[x] \in Nat
  BY TypesSplit DEF IInv, TypeOK, Enum!TypeOK, Enum!Base!TypeOK, Addresses
<1>2. Delegates(x) \in Addresses
  BY <1>1 DEF Delegates, OwnershipTyped
<1>3. /\ s \in StoreType /\ s.nouns = store.nouns
      /\ SameVotes(store, s) /\ SameSupply(store, s)
  BY <1>1, <1>2, DelegateChangedChanges DEF VotesInv
<1>4. MoveDelegates(Delegates(x), d, balances[x]) /\ block' = block
      /\ owners' = owners /\ allTokens' = allTokens
  BY DEF SetDelegate, tokenVars
<1>5. r = VotesMoved(s, Delegates(x), d, balances[x])
  OBVIOUS
<1> HIDE DEF s, r
<1>6. /\ r \in StoreType /\ SameButVotes(s, r)
      /\ VotesAre(s, VotesNow) => VotesAre(r, VotesNow')
  BY <1>1, <1>2, <1>3, <1>4, <1>5, VotesMovedChanges
<1>7. VotesAre(r, VotesNow')
  BY <1>3, <1>6, SameVotesAre DEF VotesInv
<1>8. r.nouns = store.nouns
      /\ r.governance.totalTokenHolders = store.governance.totalTokenHolders
  BY <1>3, <1>6 DEF SameButVotes, SameSupply
<1>9. NounsAre(r, owners)
  BY <1>8 DEF VotesInv, NounsAre
<1> QED
  BY <1>4, <1>6, <1>7, <1>8, <1>9 DEF VotesInv, r

-------------------------------------------------------------------------------
(* The steps of the indexer, by what they are for the index.               *)

Counted(selfMove, renewal) ==
  /\ selfMoves' = selfMoves + Flag(selfMove)
  /\ renewals' = renewals + Flag(renewal)
  /\ strayed' = (strayed \/ DelegatedEmptyHanded')

\* a mint; a transfer or a burn; a delegation
IndexMints(id, to) ==
  /\ MovesNoun(id, to) /\ owners[id] = Zero
  /\ store' = handleNounCreated(
                handleTransfer(
                  handleTransfer(Moved(store, Zero, to), Zero, Creator, id),
                  Creator, to, id), id)
  /\ Counted(to = Creator, FALSE)
IndexMoves(id, to) ==
  /\ MovesNoun(id, to) /\ owners[id] # Zero
  /\ store' = handleTransfer(Moved(store, owners[id], to), owners[id], to, id)
  /\ Counted(owners[id] = to, FALSE)
IndexDelegates(x, d) ==
  /\ SetDelegate(x, d) /\ UNCHANGED <<tokenVars, block>>
  /\ store' = VotesMoved(handleDelegateChanged(store, x, Delegates(x), d),
                         Delegates(x), d, balances[x])
  /\ Counted(FALSE, d \in {Delegates(x), Zero})

(***************************************************************************)
(* Every step of the indexer is one of the three, and one of the token's.  *)
(***************************************************************************)
LEMMA IndexSteps ==
  ASSUME TypeOK, IndexNext
  PROVE  /\ Next
         /\ \/ \E id \in Tokens, to \in Accounts : IndexMints(id, to)
            \/ \E id \in Tokens, to \in Addresses : IndexMoves(id, to)
            \/ \E x \in Accounts, d \in Addresses : IndexDelegates(x, d)
<1> DEFINE Shape == \/ \E id \in Tokens, to \in Accounts : IndexMints(id, to)
                    \/ \E id \in Tokens, to \in Addresses : IndexMoves(id, to)
                    \/ \E x \in Accounts, d \in Addresses : IndexDelegates(x, d)
<1>0. /\ \A p, q : History(p, q) => Counted(p, q)
      /\ \A a \in Accounts : a \in Addresses /\ a # Zero
      /\ Zero \in Addresses
  BY ZeroIsNoAccount DEF History, Counted, Addresses
<1>1. ASSUME NEW to \in Accounts, NEW id \in Tokens, IndexMint(to, id)
      PROVE  Next /\ Shape
  <2>1. Mint(to, id) /\ History(to = Creator, FALSE)
    BY <1>1 DEF IndexMint
  <2>2. MovesNoun(id, to) /\ owners[id] = Zero
    BY <2>1, TokenActionsMoveNouns DEF Mint, Enum!Mint, Enum!Base!Mint, Enum!Base!Exists
  <2>3. Counted(to = Creator, FALSE)
    BY <2>1 DEF History, Counted
  <2> QED
    BY <1>1, <2>1, <2>2, <2>3 DEF Next, IndexMint, IndexMints
<1>2. ASSUME NEW id \in Tokens, IndexBurn(id)
      PROVE  Next /\ Shape
  <2>1. Burn(id) /\ History(FALSE, FALSE)
    BY <1>2 DEF IndexBurn
  <2>2. MovesNoun(id, Zero) /\ owners[id] # Zero
    BY <2>1, TokenActionsMoveNouns DEF Burn, Enum!Burn, Enum!Base!Burn, Enum!Base!Exists
  <2>3. Counted(owners[id] = Zero, FALSE)
    BY <2>1, <2>2 DEF History, Counted, Flag
  <2> QED
    BY <1>0, <1>2, <2>1, <2>2, <2>3 DEF Next, IndexBurn, IndexMoves
<1>3. ASSUME NEW sender \in Accounts, NEW from \in Accounts, NEW to \in Accounts,
             NEW id \in Tokens, IndexTransferFrom(sender, from, to, id)
      PROVE  Next /\ Shape
  <2>1. TransferFrom(sender, from, to, id) /\ History(from = to, FALSE)
    BY <1>3 DEF IndexTransferFrom
  <2>2. MovesNoun(id, to) /\ owners[id] = from /\ owners[id] # Zero
    BY <1>0, <2>1, TokenActionsMoveNouns
       DEF TransferFrom, Enum!TransferFrom, Enum!Base!TransferFrom
  <2>3. Counted(owners[id] = to, FALSE)
    BY <2>1, <2>2 DEF History, Counted
  <2>4. store' = handleTransfer(Moved(store, owners[id], to), owners[id], to, id)
    BY <1>3, <2>2 DEF IndexTransferFrom
  <2> QED
    BY <1>0, <2>1, <2>2, <2>3, <2>4 DEF Next, IndexMoves
<1>4. ASSUME NEW x \in Accounts, NEW d \in Addresses, SetDelegate(x, d),
             UNCHANGED <<tokenVars, block>>, IndexSetDelegate(x, d)
      PROVE  Shape
  <2>1. History(FALSE, d \in {Delegates(x), Zero})
    BY <1>4 DEF IndexSetDelegate
  <2>2. Counted(FALSE, d \in {Delegates(x), Zero})
    BY <2>1 DEF History, Counted
  <2> QED
    BY <1>4, <2>2 DEF IndexSetDelegate, IndexDelegates
<1>5. ASSUME NEW sender \in Accounts, NEW delegatee \in Accounts \cup {Zero},
             IndexDelegate(sender, delegatee)
      PROVE  Next /\ Shape
  <2> DEFINE d == IF delegatee = Zero THEN sender ELSE delegatee
  <2>1. d \in Addresses
    BY DEF Addresses
  <2>2. Delegate(sender, delegatee) /\ IndexSetDelegate(sender, d)
    BY <1>5 DEF IndexDelegate
  <2>3. SetDelegate(sender, d) /\ UNCHANGED <<tokenVars, block>>
    BY <2>2 DEF Delegate
  <2> HIDE DEF d
  <2>4. Shape
    <3> HIDE DEF Shape
    <3> QED
      BY <1>4, <2>1, <2>2, <2>3
  <2> QED
    BY <2>2, <2>4 DEF Next
<1>6. ASSUME NEW sig \in Signatures, IndexDelegateBySig(sig)
      PROVE  Next /\ Shape
  <2>1. sig.signatory \in Accounts /\ sig.delegatee \in Addresses
    BY SignaturesAreDelegations DEF Addresses
  <2>2. DelegateBySig(sig) /\ IndexSetDelegate(sig.signatory, sig.delegatee)
    BY <1>6 DEF IndexDelegateBySig
  <2>3. SetDelegate(sig.signatory, sig.delegatee) /\ UNCHANGED <<tokenVars, block>>
    BY <2>2 DEF DelegateBySig
  <2>4. Shape
    <3> HIDE DEF Shape
    <3> QED
      BY <1>4, <2>1, <2>2, <2>3
  <2> QED
    BY <2>2, <2>4 DEF Next
<1> HIDE DEF Shape
<1>7. Next /\ Shape
  BY <1>1, <1>2, <1>3, <1>5, <1>6 DEF IndexNext
<1> QED
  BY <1>7 DEF Shape

(***************************************************************************)
(* The sum of VotesIndexed is that of the votes as a function.             *)
(***************************************************************************)
LEMMA VotesSum ==
  ASSUME TypeOK
  PROVE  MapThenSumSet(GetCurrentVotes, Accounts) = Sum(VotesNow, Accounts)
<1> DEFINE w == VotesNow
           OpSummed(h) == h = [s \in SUBSET Accounts |->
                                 IF s = {} THEN 0
                                 ELSE GetCurrentVotes(CHOOSE v \in s : TRUE)
                                      + h[s \ {CHOOSE v \in s : TRUE}]]
           g == CHOOSE h : OpSummed(h)
<1>1. MapThenSumSet(GetCurrentVotes, Accounts) = g[Accounts]
  BY DEF MapThenSumSet, MapThenFoldSet
<1>2. IsFiniteSet(Accounts) /\ \A a \in Accounts : w[a] \in Nat /\ w[a] = GetCurrentVotes(a)
  <2>1. \A a \in Accounts : GetCurrentVotes(a) \in Nat
    BY WrittenVotes DEF TypeOK, GetCurrentVotes
  <2> QED
    BY <2>1, IndexerConstants DEF VotesNow
<1>3. ASSUME NEW h PROVE OpSummed(h) <=> SummedBy(w, Accounts, h)
  <2>1. ASSUME NEW s \in SUBSET Accounts
        PROVE  Summed(w, h, s) = IF s = {} THEN 0
                                 ELSE GetCurrentVotes(CHOOSE v \in s : TRUE)
                                      + h[s \ {CHOOSE v \in s : TRUE}]
    <3>1. CASE s = {}
      BY <3>1 DEF Summed
    <3>2. CASE s # {}
      <4> DEFINE x == CHOOSE v \in s : TRUE
      <4>1. x \in Accounts
        BY <3>2
      <4>2. w[x] = GetCurrentVotes(x)
        BY <1>2, <4>1
      <4> QED
        BY <3>2, <4>2 DEF Summed
    <3> QED
      BY <3>1, <3>2
  <2>2. [s \in SUBSET Accounts |-> Summed(w, h, s)]
          = [s \in SUBSET Accounts |->
               IF s = {} THEN 0 ELSE GetCurrentVotes(CHOOSE v \in s : TRUE)
                                     + h[s \ {CHOOSE v \in s : TRUE}]]
    BY <2>1
  <2> QED
    BY <2>2 DEF SummedBy
<1>4. \E h : SummedBy(w, Accounts, h)
  BY <1>2, SumExists
<1> HIDE DEF w
<1>5. SummedBy(w, Accounts, g)
  <2> HIDE DEF OpSummed
  <2> QED
    BY <1>3, <1>4
<1> HIDE DEF g
<1> QED
  BY <1>1, <1>2, <1>5, SumIs DEF w

(***************************************************************************)
(* What VotesInv says is what the property says.                           *)
(***************************************************************************)
LEMMA VotesInvSays == TypeOK /\ VotesInv => VotesIndexed
<1> SUFFICES ASSUME TypeOK, VotesInv PROVE VotesIndexed
  OBVIOUS
<1>1. \A a \in Accounts : VotesNow[a] = GetCurrentVotes(a)
  BY DEF VotesNow
<1>2. {a \in Accounts : GetCurrentVotes(a) > 0} = {a \in Accounts : VotesNow[a] > 0}
  BY <1>1
<1>3. MapThenSumSet(GetCurrentVotes, Accounts) = Sum(VotesNow, Accounts)
  BY VotesSum
<1> QED
  BY <1>1, <1>2, <1>3 DEF VotesInv, VotesAre, NounsAre, VotesIndexed

-------------------------------------------------------------------------------
(* Arrays of nouns as sets.                                                *)

(***************************************************************************)
(* An array without repetitions stays one when elements it has not are     *)
(* pushed, and when elements are filtered out.                             *)
(***************************************************************************)
LEMMA ListedSets ==
  ASSUME NEW n, NEW m, NEW S \in SUBSET Tokens, NEW R \in SUBSET Tokens,
         Listed(n, S), Listed(m, R)
  PROVE  /\ Listed(Without(n, m), S \ R)
         /\ S \cap R = {} => Listed(With(n, m), S \cup R)
<1>1. n = [id \in Tokens |-> Flag(id \in S)] /\ m = [id \in Tokens |-> Flag(id \in R)]
  BY DEF Listed
<1>2. ASSUME NEW id \in Tokens
      PROVE  /\ (IF m[id] > 0 THEN 0 ELSE n[id]) = Flag(id \in S \ R)
             /\ S \cap R = {} => n[id] + m[id] = Flag(id \in S \cup R)
  <2>1. n[id] = Flag(id \in S) /\ m[id] = Flag(id \in R)
    BY <1>1
  <2>2. CASE id \in R
    BY <2>1, <2>2 DEF Flag
  <2>3. CASE id \notin R
    BY <2>1, <2>3 DEF Flag
  <2> QED
    BY <2>2, <2>3
<1>3. Without(n, m) = [id \in Tokens |-> Flag(id \in S \ R)]
  BY <1>2 DEF Without
<1>4. ASSUME S \cap R = {} PROVE With(n, m) = [id \in Tokens |-> Flag(id \in S \cup R)]
  BY <1>2, <1>4 DEF With
<1> QED
  BY <1>3, <1>4 DEF Listed

\* The array of one noun lists that noun, once.
LEMMA OnlyIsListed ==
  ASSUME NEW id \in Tokens
  PROVE  Listed(Only(id), {id})
<1>1. \A t \in Tokens : Only(id)[t] = Flag(t = id) /\ (t = id <=> t \in {id})
  BY OnlyIsTyped
<1>2. Only(id) = [t \in Tokens |-> Only(id)[t]]
  BY OnlyIsTyped DEF Counts
<1>3. ASSUME NEW t \in Tokens PROVE Only(id)[t] = Flag(t \in {id})
  BY <1>1 DEF Flag
<1>4. Only(id) = [t \in Tokens |-> Flag(t \in {id})]
  BY <1>2, <1>3
<1> QED
  BY <1>4 DEF Listed

-------------------------------------------------------------------------------
(* The holdings.                                                           *)

Owned(o, a) == {id \in Tokens : o[id] = a}

\* what is stored of the holdings, for the owners o and the balances b; the
\* zero address holds what has been burned, as often as it has been
HoldingsAre(s, o, b) ==
  /\ \A a \in Accounts :
       /\ s.accounts[a].tokenBalance = b[a]
       /\ Listed(s.accounts[a].nouns, Owned(o, a))
  /\ s.accounts[Zero].tokenBalance \in Nat
  /\ s.governance.currentTokenHolders =
       Cardinality({a \in Accounts : b[a] > 0}) + Flag(s.accounts[Zero].tokenBalance > 0)

\* A store that differs in the votes alone tells the holdings as exactly.
LEMMA SameHoldingsAre ==
  ASSUME NEW s, NEW r, SameButVotes(s, r), NEW o, NEW b, HoldingsAre(s, o, b)
  PROVE  HoldingsAre(r, o, b)
BY DEF SameButVotes, SameHolders, HoldingsAre

\* a noun goes from one address to another one, in owners and balances
Passes(o, b, from, to, id, o2, b2) ==
  /\ o \in [Tokens -> Addresses] /\ b \in [Accounts -> Nat] /\ b2 \in [Accounts -> Nat]
  /\ o[id] = from /\ from # to /\ (from # Zero => b[from] > 0)
  /\ o2 = [o EXCEPT ![id] = to]
  /\ \A a \in Accounts : b2[a] = b[a] - Gain(a, from, 1) + Gain(a, to, 1)

(***************************************************************************)
(* A transfer between two addresses keeps the holdings exact.  Were the    *)
(* addresses the same, the receiver would be saved over the sender.        *)
(***************************************************************************)
LEMMA TransferKeepsHoldings ==
  ASSUME NEW s \in StoreType, NEW o, NEW b, NEW o2, NEW b2,
         NEW from \in Addresses, NEW to \in Addresses, NEW id \in Tokens,
         Passes(o, b, from, to, id, o2, b2), HoldingsAre(s, o, b),
         NEW r \in StoreType,
         TransferStored(s, from, to, id, s.accounts[from], s.accounts[to], r)
  PROVE  HoldingsAre(r, o2, b2)
<1> DEFINE F == s.accounts[from]
           T == s.accounts[to]
<1>0. /\ o \in [Tokens -> Addresses] /\ b \in [Accounts -> Nat] /\ b2 \in [Accounts -> Nat]
      /\ o[id] = from /\ from # to
      /\ \A i \in Tokens : o2[i] = IF i = id THEN to ELSE o[i]
      /\ \A a \in Accounts : b2[a] = b[a] - Gain(a, from, 1) + Gain(a, to, 1)
      /\ Zero \in Addresses /\ \A a \in Accounts : a \in Addresses /\ a # Zero
  BY ZeroIsNoAccount DEF Passes, Addresses
<1>1. \A a \in Addresses : r.accounts[a] = IF a = to THEN Got(T, to, id)
                                           ELSE IF a = from /\ from # Zero THEN Left(F, id)
                                           ELSE s.accounts[a]
  BY DEF TransferStored
<1>2. \A a \in Accounts : /\ s.accounts[a].tokenBalance = b[a]
                          /\ Listed(s.accounts[a].nouns, Owned(o, a))
  BY DEF HoldingsAre
<1>3. ASSUME NEW a \in Accounts
      PROVE  /\ r.accounts[a].tokenBalance = b2[a]
             /\ Listed(r.accounts[a].nouns, Owned(o2, a))
  <2>0. Owned(o, a) \in SUBSET Tokens /\ {id} \in SUBSET Tokens /\ Listed(Only(id), {id})
    BY OnlyIsListed DEF Owned
  <2>1. CASE a = to
    <3>1. r.accounts[a] = Got(s.accounts[a], to, id)
      BY <1>0, <1>1, <2>1
    <3>2. /\ r.accounts[a].tokenBalance = s.accounts[a].tokenBalance + 1
          /\ r.accounts[a].nouns = With(s.accounts[a].nouns, Only(id))
      BY <3>1 DEF Got
    <3>3. Owned(o2, a) = Owned(o, a) \cup {id} /\ Owned(o, a) \cap {id} = {}
      BY <1>0, <2>1 DEF Owned
    <3>4. b2[a] = b[a] + 1
      BY <1>0, <2>1 DEF Gain
    <3>5. Listed(s.accounts[a].nouns, Owned(o, a)) /\ s.accounts[a].tokenBalance = b[a]
      BY <1>2
    <3>6. Listed(With(s.accounts[a].nouns, Only(id)), Owned(o2, a))
      BY <2>0, <3>3, <3>5, ListedSets
    <3> QED
      BY <3>2, <3>4, <3>5, <3>6
  <2>2. CASE a = from
    <3>1. r.accounts[a] = Left(s.accounts[a], id)
      BY <1>0, <1>1, <2>2
    <3>2. /\ r.accounts[a].tokenBalance = s.accounts[a].tokenBalance - 1
          /\ r.accounts[a].nouns = Without(s.accounts[a].nouns, Only(id))
      BY <3>1 DEF Left
    <3>3. Owned(o2, a) = Owned(o, a) \ {id}
      BY <1>0, <2>2 DEF Owned
    <3>4. b2[a] = b[a] - 1
      BY <1>0, <2>2 DEF Gain
    <3>5. Listed(s.accounts[a].nouns, Owned(o, a)) /\ s.accounts[a].tokenBalance = b[a]
      BY <1>2
    <3>6. Listed(Without(s.accounts[a].nouns, Only(id)), Owned(o2, a))
      <4>1. Listed(Without(s.accounts[a].nouns, Only(id)), Owned(o, a) \ {id})
        BY <2>0, <3>5, ListedSets
      <4> QED
        BY <3>3, <4>1
    <3> QED
      BY <3>2, <3>4, <3>5, <3>6
  <2>3. CASE a # to /\ a # from
    <3>1. r.accounts[a] = s.accounts[a]
      BY <1>0, <1>1, <2>3
    <3>2. Owned(o2, a) = Owned(o, a)
      BY <1>0, <2>3 DEF Owned
    <3>3. b2[a] = b[a]
      BY <1>0, <2>3 DEF Gain
    <3> QED
      BY <1>2, <3>1, <3>2, <3>3
  <2> QED
    BY <2>1, <2>2, <2>3
<1> DEFINE z  == s.accounts[Zero].tokenBalance
           z2 == r.accounts[Zero].tokenBalance
<1>4. z \in Nat /\ z2 = IF to = Zero THEN z + 1 ELSE z
  <2>1. r.accounts[Zero] = IF to = Zero THEN Got(T, to, id) ELSE s.accounts[Zero]
    BY <1>0, <1>1
  <2>2. z \in Nat
    BY DEF HoldingsAre
  <2> QED
    BY <2>1, <2>2 DEF Got
<1> DEFINE b1 == IF from = Zero THEN b ELSE [b EXCEPT ![from] = b[from] - 1]
           P(w) == Cardinality({a \in Accounts : w[a] > 0})
<1>5. /\ b1 \in [Accounts -> Nat]
      /\ P(b) \in Nat
      /\ P(b1) = P(b) - Flag(from # Zero /\ F.tokenBalance = 1)
  <2>0. P(b) \in Nat
    <3>1. IsFiniteSet({a \in Accounts : b[a] > 0})
      BY IndexerConstants, FS_Subset
    <3> QED
      BY <3>1, FS_CardinalityType
  <2>1. CASE from = Zero
    <3>1. Flag(from # Zero /\ F.tokenBalance = 1) = 0
      BY <2>1 DEF Flag
    <3> DEFINE p == P(b)
    <3>2. P(b1) = p /\ p \in Nat
      BY <2>0, <2>1
    <3> HIDE DEF P, p, b1
    <3>3. P(b1) = p - 0
      BY <3>2
    <3> QED
      BY <1>0, <2>0, <2>1, <3>1, <3>3 DEF p, b1
  <2>2. CASE from # Zero
    <3>1. from \in Accounts /\ b[from] > 0 /\ b[from] \in Nat /\ F.tokenBalance = b[from]
      BY <1>0, <1>2, <2>2 DEF Passes, Addresses
    <3>2. b[from] - 1 \in Nat /\ b1 = [b EXCEPT ![from] = b[from] - 1]
      BY <2>2, <3>1
    <3>3. P(b1) = P(b) + Flag(b[from] = 0 /\ b[from] - 1 > 0)
                       - Flag(b[from] > 0 /\ b[from] - 1 = 0)
      <4> HIDE DEF b1
      <4> QED
        BY <1>0, <3>1, <3>2, IndexerConstants, PositiveChange
    <3>4. Flag(b[from] = 0 /\ b[from] - 1 > 0) = 0
      BY <3>1 DEF Flag
    <3>5. Flag(b[from] > 0 /\ b[from] - 1 = 0) = Flag(from # Zero /\ F.tokenBalance = 1)
      BY <2>2, <3>1 DEF Flag
    <3>6. Flag(from # Zero /\ F.tokenBalance = 1) \in Int
      BY DEF Flag
    <3>7. b1 \in [Accounts -> Nat]
      BY <1>0, <3>1, <3>2
    <3> DEFINE f == Flag(from # Zero /\ F.tokenBalance = 1)
               p == P(b)
    <3>8. P(b1) = p + 0 - f /\ p \in Nat /\ f \in Int
      BY <2>0, <3>3, <3>4, <3>5, <3>6
    <3> HIDE DEF P, p, f, b1
    <3>9. P(b1) = p - f
      BY <3>8
    <3> QED
      BY <2>0, <3>7, <3>9 DEF p, f
  <2> QED
    BY <2>1, <2>2
<1>6. P(b2) = P(b1) + Flag(to # Zero /\ T.tokenBalance = 0) /\ P(b1) \in Nat
  <2>0. P(b1) \in Nat
    <3>1. IsFiniteSet({a \in Accounts : b1[a] > 0})
      BY IndexerConstants, FS_Subset
    <3> QED
      BY <3>1, FS_CardinalityType
  <2>1. \A a \in Accounts : b1[a] = b[a] - Gain(a, from, 1)
    BY <1>0 DEF Gain
  <2>2. CASE to = Zero
    <3>1. \A a \in Accounts : b2[a] = b1[a]
      BY <1>0, <2>1, <2>2 DEF Gain
    <3>2. b2 = b1
      <4> HIDE DEF b1
      <4> QED
        BY <1>0, <1>5, <3>1
    <3>3. Flag(to # Zero /\ T.tokenBalance = 0) = 0
      BY <2>2 DEF Flag
    <3> HIDE DEF b1, P
    <3> QED
      BY <2>0, <3>2, <3>3
  <2>3. CASE to # Zero
    <3>1. to \in Accounts /\ b[to] \in Nat /\ b1[to] = b[to] /\ T.tokenBalance = b[to]
      BY <1>0, <1>2, <2>3 DEF Addresses
    <3>2. \A a \in Accounts : b2[a] = IF a = to THEN b[to] + 1 ELSE b1[a]
      BY <1>0, <2>1, <3>1 DEF Gain
    <3>3. b2 = [b1 EXCEPT ![to] = b[to] + 1] /\ b[to] + 1 \in Nat
      <4> HIDE DEF b1
      <4> QED
        BY <1>0, <1>5, <3>1, <3>2
    <3>4. P(b2) = P(b1) + Flag(b1[to] = 0 /\ b[to] + 1 > 0) - Flag(b1[to] > 0 /\ b[to] + 1 = 0)
      <4> HIDE DEF b1
      <4> QED
        BY <1>5, <3>1, <3>3, IndexerConstants, PositiveChange
    <3>5. Flag(b1[to] > 0 /\ b[to] + 1 = 0) = 0
      BY <3>1 DEF Flag
    <3>6. Flag(b1[to] = 0 /\ b[to] + 1 > 0) = Flag(to # Zero /\ T.tokenBalance = 0)
      BY <2>3, <3>1 DEF Flag
    <3> DEFINE f == Flag(to # Zero /\ T.tokenBalance = 0)
    <3>7. P(b2) = P(b1) + f - 0 /\ f \in Int
      BY <3>4, <3>5, <3>6 DEF Flag
    <3> HIDE DEF P, f, b1
    <3>8. P(b2) = P(b1) + f
      BY <2>0, <3>7
    <3> QED
      BY <2>0, <3>8 DEF f
  <2> QED
    BY <2>2, <2>3
<1>7. r.governance.currentTokenHolders = P(b2) + Flag(z2 > 0)
  <2> DEFINE f == Flag(from # Zero /\ F.tokenBalance = 1)
             g == Flag(T.tokenBalance = 0)
             h == Flag(to # Zero /\ T.tokenBalance = 0)
             y == Flag(z > 0)
             y2 == Flag(z2 > 0)
             c == s.governance.currentTokenHolders
  <2>1. /\ f \in Int /\ g \in Int /\ h \in Int /\ y \in Int /\ y2 \in Int
    BY DEF Flag
  <2>2. y2 - y = g - h
    <3>1. CASE to = Zero
      BY <1>4, <3>1 DEF Flag
    <3>2. CASE to # Zero
      <4>1. g = h
        BY <3>2 DEF Flag
      <4>2. y2 = y
        BY <1>4, <3>2
      <4> HIDE DEF g, h, y, y2
      <4> QED
        BY <2>1, <4>1, <4>2
    <3> QED
      BY <3>1, <3>2
  <2>3. r.governance.currentTokenHolders = c - f + g
    BY DEF TransferStored
  <2>4. c = P(b) + y
    BY DEF HoldingsAre
  <2>5. P(b2) = P(b1) + h /\ P(b1) = P(b) - f /\ P(b) \in Nat /\ P(b1) \in Nat
    BY <1>5, <1>6
  <2> HIDE DEF f, g, h, y, y2, c, P, b1
  <2>6. c - f + g = P(b2) + y2
    BY <2>1, <2>2, <2>4, <2>5
  <2> QED
    BY <2>3, <2>6 DEF y2
<1>8. z2 \in Nat
  BY <1>4
<1> QED
  BY <1>3, <1>7, <1>8 DEF HoldingsAre

-------------------------------------------------------------------------------
(* The represented nouns.                                                  *)

StandsFor(o, d, a) == {id \in Tokens : o[id] # Zero /\ d[o[id]] = a}

\* what is stored of the delegates d: the nouns each represents, and the
\* delegate of each holder
DelegatesAre(s, o, b, d) ==
  /\ \A a \in Accounts :
       /\ Listed(s.delegates[a].nounsRepresented, StandsFor(o, d, a))
       /\ s.accounts[a].delegate = IF b[a] > 0 THEN d[a] ELSE NoDelegate
  /\ s.accounts[Zero].delegate \in {NoDelegate, Zero}

\* who holds nothing has no delegate but itself
AtHome(b, d) == \A a \in Accounts : b[a] = 0 => d[a] = a

\* A store that differs in the votes alone tells what is represented as exactly.
LEMMA SameDelegatesAre ==
  ASSUME NEW s, NEW r, SameButVotes(s, r), NEW o, NEW b, NEW d, DelegatesAre(s, o, b, d)
  PROVE  DelegatesAre(r, o, b, d)
BY DEF SameButVotes, SameRepresented, DelegatesAre, Addresses

(***************************************************************************)
(* A transfer between two addresses moves the noun from the delegate of    *)
(* the one to that of the other, as the contract does.                     *)
(***************************************************************************)
LEMMA TransferKeepsDelegates ==
  ASSUME NEW s \in StoreType, NEW o, NEW b, NEW o2, NEW b2,
         NEW d \in [Accounts -> Accounts], AtHome(b, d),
         NEW from \in Addresses, NEW to \in Addresses, NEW id \in Tokens,
         Passes(o, b, from, to, id, o2, b2), HoldingsAre(s, o, b), DelegatesAre(s, o, b, d),
         NEW r \in StoreType,
         TransferStored(s, from, to, id, s.accounts[from], s.accounts[to], r)
  PROVE  DelegatesAre(r, o2, b2, d)
<1> DEFINE F == s.accounts[from]
           T == s.accounts[to]
           E == ReceiversDelegate(T, to)
<1>0. /\ o \in [Tokens -> Addresses] /\ b \in [Accounts -> Nat] /\ b2 \in [Accounts -> Nat]
      /\ o[id] = from /\ from # to /\ (from # Zero => b[from] > 0)
      /\ \A i \in Tokens : o2[i] = IF i = id THEN to ELSE o[i]
      /\ \A a \in Accounts : b2[a] = b[a] - Gain(a, from, 1) + Gain(a, to, 1)
      /\ Zero \in Addresses /\ \A a \in Accounts : a \in Addresses /\ a # Zero
      /\ from # Zero => from \in Accounts
      /\ to # Zero => to \in Accounts
      /\ NoDelegate \notin Addresses
  BY ZeroIsNoAccount, NullIsNoAddress DEF Passes, Addresses
<1>1. \A a \in Addresses :
        /\ r.accounts[a] = IF a = to THEN Got(T, to, id)
                           ELSE IF a = from /\ from # Zero THEN Left(F, id)
                           ELSE s.accounts[a]
        /\ r.delegates[a].nounsRepresented =
             IF a = E THEN With(RepresentedLess(s, from, id, F, a), Only(id))
             ELSE RepresentedLess(s, from, id, F, a)
  BY DEF TransferStored
<1>2. /\ \A a \in Accounts : /\ s.accounts[a].tokenBalance = b[a]
                             /\ s.accounts[a].delegate = IF b[a] > 0 THEN d[a] ELSE NoDelegate
                             /\ Listed(s.delegates[a].nounsRepresented, StandsFor(o, d, a))
      /\ s.accounts[Zero].delegate \in {NoDelegate, Zero}
  BY DEF HoldingsAre, DelegatesAre
<1>3. from # Zero => F.delegate = d[from] /\ F.delegate # NoDelegate /\ d[from] \in Accounts
  BY <1>0, <1>2
<1>4. E = IF to = Zero THEN Zero ELSE d[to]
  <2>1. CASE to = Zero
    BY <1>0, <1>2, <2>1 DEF ReceiversDelegate
  <2>2. CASE to # Zero
    <3>1. to \in Accounts /\ T.delegate = (IF b[to] > 0 THEN d[to] ELSE NoDelegate)
          /\ d[to] \in Accounts /\ b[to] \in Nat
      BY <1>0, <1>2, <2>2
    <3>2. b[to] = 0 => d[to] = to
      BY <3>1 DEF AtHome
    <3> QED
      BY <1>0, <2>2, <3>1, <3>2 DEF ReceiversDelegate
  <2> QED
    BY <2>1, <2>2
<1>5. ASSUME NEW a \in Accounts
      PROVE  r.accounts[a].delegate = IF b2[a] > 0 THEN d[a] ELSE NoDelegate
  <2>1. CASE a = to
    <3>1. r.accounts[a].delegate = IF b[a] = 0 THEN a ELSE s.accounts[a].delegate
      BY <1>0, <1>1, <1>2, <2>1 DEF Got
    <3>2. b2[a] = b[a] + 1 /\ b[a] \in Nat
      BY <1>0, <2>1 DEF Gain
    <3>3. b[a] = 0 => d[a] = a
      BY DEF AtHome
    <3>4. s.accounts[a].delegate = IF b[a] > 0 THEN d[a] ELSE NoDelegate
      BY <1>2
    <3> QED
      BY <3>1, <3>2, <3>3, <3>4
  <2>2. CASE a = from
    <3>1. r.accounts[a].delegate = IF b[a] = 1 THEN NoDelegate ELSE s.accounts[a].delegate
      BY <1>0, <1>1, <1>2, <2>2 DEF Left
    <3>2. b2[a] = b[a] - 1 /\ b[a] \in Nat /\ b[a] > 0
      BY <1>0, <2>2 DEF Gain
    <3>4. s.accounts[a].delegate = IF b[a] > 0 THEN d[a] ELSE NoDelegate
      BY <1>2
    <3> QED
      BY <3>1, <3>2, <3>4
  <2>3. CASE a # to /\ a # from
    <3>1. r.accounts[a] = s.accounts[a] /\ b2[a] = b[a]
      BY <1>0, <1>1, <2>3 DEF Gain
    <3> QED
      BY <1>2, <3>1
  <2> QED
    BY <2>1, <2>2, <2>3
<1>6. r.accounts[Zero].delegate \in {NoDelegate, Zero}
  <2>1. r.accounts[Zero] = IF Zero = to THEN Got(T, to, id) ELSE s.accounts[Zero]
    BY <1>0, <1>1
  <2>2. Zero = to => Got(T, to, id).delegate \in {Zero, s.accounts[Zero].delegate}
    BY DEF Got
  <2> QED
    BY <1>2, <2>1, <2>2
<1>7. ASSUME NEW a \in Accounts
      PROVE  Listed(r.delegates[a].nounsRepresented, StandsFor(o2, d, a))
  <2> DEFINE n  == s.delegates[a].nounsRepresented
             n1 == RepresentedLess(s, from, id, F, a)
             S  == StandsFor(o, d, a)
             S1 == S \ {id}
  <2>0. /\ S \in SUBSET Tokens /\ S1 \in SUBSET Tokens /\ {id} \in SUBSET Tokens
        /\ Listed(Only(id), {id}) /\ Listed(n, S) /\ id \notin S1
    BY <1>2, OnlyIsListed DEF StandsFor
  <2>1. id \in S <=> from # Zero /\ d[from] = a
    BY <1>0 DEF StandsFor
  <2>2. Listed(n1, S1)
    <3>1. CASE from # Zero /\ d[from] = a
      <4>1. n1 = Without(n, Only(id))
        BY <1>3, <3>1 DEF RepresentedLess, Loses
      <4> HIDE DEF n, n1, S
      <4> QED
        BY <2>0, <4>1, ListedSets
    <3>2. CASE ~ (from # Zero /\ d[from] = a)
      <4>1. n1 = n
        BY <1>3, <3>2 DEF RepresentedLess, Loses
      <4>2. S1 = S
        BY <2>1, <3>2
      <4> HIDE DEF n, n1, S, S1
      <4> QED
        BY <2>0, <4>1, <4>2
    <3> QED
      BY <3>1, <3>2
  <2>3. StandsFor(o2, d, a) = IF a = E THEN S1 \cup {id} ELSE S1
    <3>1. ASSUME NEW i \in Tokens
          PROVE  i \in StandsFor(o2, d, a) <=> i \in S1 \/ (i = id /\ a = E)
      <4>1. CASE i = id
        BY <1>0, <1>4, <4>1 DEF StandsFor
      <4>2. CASE i # id
        BY <1>0, <4>2 DEF StandsFor
      <4> QED
        BY <4>1, <4>2
    <3>2. StandsFor(o2, d, a) \in SUBSET Tokens
      BY DEF StandsFor
    <3> HIDE DEF S1, E
    <3> QED
      BY <2>0, <3>1, <3>2
  <2>4. r.delegates[a].nounsRepresented = IF a = E THEN With(n1, Only(id)) ELSE n1
    BY <1>0, <1>1
  <2> HIDE DEF n1, S1, E
  <2>5. CASE a = E
    <3>1. Listed(With(n1, Only(id)), S1 \cup {id})
      BY <2>0, <2>2, ListedSets
    <3> QED
      BY <2>3, <2>4, <2>5, <3>1
  <2>6. CASE a # E
    BY <2>2, <2>3, <2>4, <2>6
  <2> QED
    BY <2>5, <2>6
<1> QED
  BY <1>5, <1>6, <1>7 DEF DelegatesAre

\* what handleDelegateChanged stores of the delegate t of x, f before
DelegationStored(s, x, f, t, r) ==
  /\ SameHolders(s, r)
  /\ \A a \in Addresses :
       /\ r.accounts[a].tokenBalance = s.accounts[a].tokenBalance
       /\ r.accounts[a].nouns = s.accounts[a].nouns
       /\ r.accounts[a].delegate = IF a = x THEN t ELSE s.accounts[a].delegate
       /\ r.delegates[a].nounsRepresented =
            IF a = t THEN With(s.delegates[a].nounsRepresented, s.accounts[x].nouns)
            ELSE IF a = f THEN Without(s.delegates[a].nounsRepresented, s.accounts[x].nouns)
            ELSE s.delegates[a].nounsRepresented

\* A change of delegate moves no noun, so the holdings stay exact.
LEMMA DelegationKeepsHoldings ==
  ASSUME NEW s, NEW x, NEW f, NEW t, NEW r, DelegationStored(s, x, f, t, r),
         NEW o, NEW b, HoldingsAre(s, o, b)
  PROVE  HoldingsAre(r, o, b)
BY DEF DelegationStored, SameHolders, HoldingsAre, Addresses

(***************************************************************************)
(* A holder's change to another delegate takes the holder's nouns along.   *)
(* Were the delegate the same, they would be listed twice.                 *)
(***************************************************************************)
LEMMA DelegationKeepsDelegates ==
  ASSUME NEW s \in StoreType, NEW o \in [Tokens -> Addresses], NEW b \in [Accounts -> Nat],
         NEW d \in [Accounts -> Accounts], NEW x \in Accounts, NEW t \in Accounts,
         NEW d2, d2 = [d EXCEPT ![x] = t], t # d[x], b[x] > 0,
         HoldingsAre(s, o, b), DelegatesAre(s, o, b, d),
         NEW r, DelegationStored(s, x, d[x], t, r)
  PROVE  DelegatesAre(r, o, b, d2)
<1> DEFINE N == s.accounts[x].nouns
           S == Owned(o, x)
<1>0. Listed(N, S) /\ S \in SUBSET Tokens
  BY DEF HoldingsAre, Owned
<1>1. Zero \in Addresses /\ Zero # x /\ \A a \in Accounts : a \in Addresses
  BY ZeroIsNoAccount DEF Addresses
<1>2. ASSUME NEW a \in Accounts
      PROVE  r.accounts[a].delegate = IF b[a] > 0 THEN d2[a] ELSE NoDelegate
  <2>1. r.accounts[a].delegate = IF a = x THEN t ELSE s.accounts[a].delegate
    BY <1>1 DEF DelegationStored
  <2>2. s.accounts[a].delegate = IF b[a] > 0 THEN d[a] ELSE NoDelegate
    BY DEF DelegatesAre
  <2>3. d2[a] = IF a = x THEN t ELSE d[a]
    OBVIOUS
  <2> QED
    BY <2>1, <2>2, <2>3
<1>3. ASSUME NEW a \in Accounts
      PROVE  Listed(r.delegates[a].nounsRepresented, StandsFor(o, d2, a))
  <2> DEFINE n == s.delegates[a].nounsRepresented
             R == StandsFor(o, d, a)
  <2>0. Listed(n, R) /\ R \in SUBSET Tokens
    BY DEF DelegatesAre, StandsFor
  <2>1. r.delegates[a].nounsRepresented =
          IF a = t THEN With(n, N) ELSE IF a = d[x] THEN Without(n, N) ELSE n
    BY <1>1 DEF DelegationStored
  <2>2. ASSUME NEW i \in Tokens
        PROVE  /\ i \in S => o[i] = x /\ x # Zero
               /\ i \in StandsFor(o, d2, a)
                    <=> IF i \in S THEN a = t ELSE i \in R
    <3>1. i \in S <=> o[i] = x
      BY DEF Owned
    <3>2. \A y \in Accounts : d2[y] = IF y = x THEN t ELSE d[y]
      OBVIOUS
    <3>3. o[i] # Zero => o[i] \in Accounts
      BY DEF Addresses
    <3> HIDE DEF S
    <3> QED
      BY <1>1, <3>1, <3>2, <3>3 DEF StandsFor
  <2>3. \A i \in S : i \in R <=> a = d[x]
    BY <1>1 DEF StandsFor, Owned
  <2>4. StandsFor(o, d2, a) \in SUBSET Tokens
    BY DEF StandsFor
  <2> HIDE DEF n, N, R, S
  <2>5. CASE a = t
    <3>1. R \cap S = {} /\ StandsFor(o, d2, a) = R \cup S
      BY <1>0, <2>0, <2>2, <2>3, <2>4, <2>5
    <3>2. Listed(With(n, N), R \cup S)
      BY <1>0, <2>0, <3>1, ListedSets
    <3> QED
      BY <2>1, <2>5, <3>1, <3>2
  <2>6. CASE a = d[x]
    <3>1. StandsFor(o, d2, a) = R \ S /\ a # t
      BY <1>0, <2>0, <2>2, <2>4, <2>6
    <3>2. Listed(Without(n, N), R \ S)
      BY <1>0, <2>0, ListedSets
    <3> QED
      BY <2>1, <2>6, <3>1, <3>2
  <2>7. CASE a # t /\ a # d[x]
    <3>1. StandsFor(o, d2, a) = R
      BY <1>0, <2>0, <2>2, <2>3, <2>4, <2>7
    <3> QED
      BY <2>0, <2>1, <2>7, <3>1
  <2> QED
    BY <2>5, <2>6, <2>7
<1>4. r.accounts[Zero].delegate \in {NoDelegate, Zero}
  BY <1>1 DEF DelegationStored, DelegatesAre
<1> QED
  BY <1>2, <1>3, <1>4 DEF DelegatesAre

-------------------------------------------------------------------------------
(* The inductive invariant of the indexer.                                 *)

HoldingsInv  == selfMoves = 0 => HoldingsAre(store, owners, balances)
DelegatesInv == selfMoves = 0 /\ renewals = 0 /\ ~ strayed =>
                  DelegatesAre(store, owners, balances, DelegateOf)

\* strayed remembers every state in which an account has strayed
HistoryInv ==
  /\ selfMoves \in Nat /\ renewals \in Nat /\ strayed \in BOOLEAN
  /\ DelegatedEmptyHanded => strayed

IndexInv == IInv /\ VotesInv /\ HoldingsInv /\ DelegatesInv /\ HistoryInv

\* the delegates are accounts, and at home as long as nobody has strayed
LEMMA DelegatesAtHome ==
  ASSUME TypeOK
  PROVE  /\ DelegateOf \in [Accounts -> Accounts]
         /\ ~ DelegatedEmptyHanded => AtHome(balances, DelegateOf)
<1>1. /\ delegatees \in [Accounts -> Accounts \cup {Zero}]
      /\ \A a \in Accounts : DelegateOf[a] = IF delegatees[a] = Zero THEN a ELSE delegatees[a]
  BY ZeroIsNoAccount DEF TypeOK, DelegateOf, Delegates
<1>2. \A a \in Accounts : DelegateOf[a] \in Accounts
  BY <1>1
<1>3. DelegateOf \in [Accounts -> Accounts]
  BY <1>2 DEF DelegateOf
<1>4. ASSUME ~ DelegatedEmptyHanded PROVE AtHome(balances, DelegateOf)
  BY <1>1, <1>4 DEF DelegatedEmptyHanded, AtHome
<1> QED
  BY <1>3, <1>4

(***************************************************************************)
(* The history of a step: what has been counted stays counted.             *)
(***************************************************************************)
LEMMA HistoryKept ==
  ASSUME HistoryInv, NEW p \in BOOLEAN, NEW q \in BOOLEAN, Counted(p, q)
  PROVE  /\ HistoryInv'
         /\ selfMoves' = 0 => selfMoves = 0 /\ ~ p
         /\ renewals' = 0 => renewals = 0 /\ ~ q
         /\ ~ strayed' => ~ strayed /\ ~ DelegatedEmptyHanded /\ ~ DelegatedEmptyHanded'
<1>1. /\ selfMoves \in Nat /\ renewals \in Nat /\ strayed \in BOOLEAN
      /\ DelegatedEmptyHanded => strayed
      /\ selfMoves' = selfMoves + Flag(p) /\ renewals' = renewals + Flag(q)
      /\ strayed' = (strayed \/ DelegatedEmptyHanded')
  BY DEF HistoryInv, Counted
<1>2. /\ Flag(p) \in Nat /\ (Flag(p) = 0 => ~ p)
      /\ Flag(q) \in Nat /\ (Flag(q) = 0 => ~ q)
  BY DEF Flag
<1>3. /\ selfMoves' \in Nat /\ renewals' \in Nat
      /\ selfMoves' = 0 => selfMoves = 0 /\ ~ p
      /\ renewals' = 0 => renewals = 0 /\ ~ q
  <2> DEFINE x == Flag(p)
             y == Flag(q)
  <2>1. x \in Nat /\ y \in Nat /\ selfMoves' = selfMoves + x /\ renewals' = renewals + y
    BY <1>1, <1>2
  <2>2. (x = 0 => ~ p) /\ (y = 0 => ~ q)
    BY <1>2
  <2> HIDE DEF x, y
  <2>3. /\ selfMoves' \in Nat /\ renewals' \in Nat
        /\ selfMoves' = 0 => selfMoves = 0 /\ x = 0
        /\ renewals' = 0 => renewals = 0 /\ y = 0
    BY <1>1, <2>1
  <2> QED
    BY <2>2, <2>3
<1>4. strayed' \in BOOLEAN /\ (DelegatedEmptyHanded' => strayed')
  BY <1>1, Zenon
<1>5. ~ strayed' => ~ strayed /\ ~ DelegatedEmptyHanded /\ ~ DelegatedEmptyHanded'
  BY <1>1, Zenon
<1> QED
  BY <1>3, <1>4, <1>5 DEF HistoryInv

(***************************************************************************)
(* A moving noun passes from its owner to another address.                 *)
(***************************************************************************)
LEMMA MovePasses ==
  ASSUME IInv, IInv', NEW id \in Tokens, NEW to \in Addresses, MovesNoun(id, to),
         owners[id] # to
  PROVE  /\ Passes(owners, balances, owners[id], to, id, owners', balances')
         /\ owners[id] \in Addresses /\ DelegateOf' = DelegateOf
<1>1. /\ owners \in [Tokens -> Addresses] /\ balances \in [Accounts -> Nat]
      /\ balances' \in [Accounts -> Nat]
  BY TypesSplit DEF IInv, OwnershipTyped, TypeOK, Enum!TypeOK, Enum!Base!TypeOK
<1>2. /\ owners' = [owners EXCEPT ![id] = to]
      /\ \A a \in Accounts : balances'[a] = balances[a] - Gain(a, owners[id], 1) + Gain(a, to, 1)
      /\ delegatees' = delegatees
  BY DEF MovesNoun, BeforeTokenTransfer
<1>3. ASSUME owners[id] # Zero PROVE balances[owners[id]] > 0
  <2> DEFINE a == owners[id]
  <2>1. a \in Accounts
    BY <1>1, <1>3 DEF Addresses
  <2>2. balances'[a] = balances[a] - 1 + 0
    BY <1>2, <2>1 DEF Gain
  <2>3. balances'[a] \in Nat /\ balances[a] \in Nat
    BY <1>1, <2>1
  <2> HIDE DEF a
  <2>4. balances[a] > 0
    BY <2>2, <2>3
  <2> QED
    BY <2>4 DEF a
<1>4. DelegateOf' = DelegateOf
  BY <1>2 DEF DelegateOf, Delegates
<1> QED
  BY <1>1, <1>2, <1>3, <1>4 DEF Passes

\* A burn or a transfer keeps the invariant: the events of the votes first, then the
\* transfer, which after the first move to its own owner promises the votes only.
LEMMA MoveKeepsIndexInv ==
  ASSUME IndexInv, IInv', NEW id \in Tokens, NEW to \in Addresses, IndexMoves(id, to)
  PROVE  IndexInv'
<1> DEFINE s == Moved(store, owners[id], to)
           r == store'
<1>1. /\ IInv /\ VotesInv /\ HistoryInv /\ MovesNoun(id, to) /\ owners[id] # Zero
      /\ store \in StoreType /\ TypeOK
      /\ r = handleTransfer(s, owners[id], to, id)
      /\ Counted(owners[id] = to, FALSE)
  BY DEF IndexInv, IndexMoves, VotesInv, IInv
<1>2. VotesInv'
  BY <1>1, TransferKeepsVotesInv
<1>3. /\ HistoryInv'
      /\ selfMoves' = 0 => selfMoves = 0 /\ ~ (owners[id] = to)
      /\ renewals' = 0 => renewals = 0
      /\ ~ strayed' => ~ strayed /\ ~ DelegatedEmptyHanded
  BY <1>1, HistoryKept
<1>4. s \in StoreType /\ SameButVotes(store, s)
  BY <1>1, MovedChanges
<1>5. owners[id] \in Addresses
  BY <1>1, TypesSplit DEF OwnershipTyped
<1> HIDE DEF s, r
<1>6. /\ r \in StoreType
      /\ TransferStored(s, owners[id], to, id, s.accounts[owners[id]], s.accounts[to], r)
  BY <1>1, <1>4, <1>5, TransferChanges
<1>7. ASSUME selfMoves' = 0
      PROVE  /\ Passes(owners, balances, owners[id], to, id, owners', balances')
             /\ HoldingsAre(s, owners, balances)
             /\ HoldingsAre(r, owners', balances')
             /\ DelegateOf' = DelegateOf
  <2>1. /\ Passes(owners, balances, owners[id], to, id, owners', balances')
        /\ DelegateOf' = DelegateOf
    BY <1>1, <1>3, <1>7, MovePasses
  <2>2. HoldingsAre(store, owners, balances)
    BY <1>3, <1>7 DEF IndexInv, HoldingsInv
  <2>3. HoldingsAre(s, owners, balances)
    BY <1>4, <2>2, SameHoldingsAre
  <2>4. HoldingsAre(r, owners', balances')
    BY <1>4, <1>5, <1>6, <2>1, <2>3, TransferKeepsHoldings
  <2> QED
    BY <2>1, <2>3, <2>4
<1>8. ASSUME selfMoves' = 0, renewals' = 0, ~ strayed'
      PROVE  DelegatesAre(r, owners', balances', DelegateOf')
  <2>1. DelegateOf \in [Accounts -> Accounts] /\ AtHome(balances, DelegateOf)
    BY <1>1, <1>3, <1>8, DelegatesAtHome
  <2>2. DelegatesAre(store, owners, balances, DelegateOf)
    BY <1>3, <1>8 DEF IndexInv, DelegatesInv
  <2>3. DelegatesAre(s, owners, balances, DelegateOf)
    BY <1>4, <2>2, SameDelegatesAre
  <2>4. DelegatesAre(r, owners', balances', DelegateOf)
    BY <1>4, <1>5, <1>6, <1>7, <1>8, <2>1, <2>3, TransferKeepsDelegates
  <2> QED
    BY <1>7, <1>8, <2>4
<1>9. HoldingsInv' /\ DelegatesInv'
  BY <1>7, <1>8 DEF HoldingsInv, DelegatesInv, r
<1> QED
  BY <1>2, <1>3, <1>9 DEF IndexInv

\* the handler of a created noun touches the entity of the noun alone
LEMMA NounCreatedKeeps ==
  ASSUME NEW s \in StoreType, NEW id \in Tokens, NEW r, r = handleNounCreated(s, id)
  PROVE  r.accounts = s.accounts /\ r.delegates = s.delegates /\ r.governance = s.governance
  BY DEF handleNounCreated, StoreType

(***************************************************************************)
(* A mint passes the noun from the zero address to the creator and on: in  *)
(* between the creator is its owner.  If the creator is who it is minted   *)
(* to, the second event moves it to its own owner.                         *)
(***************************************************************************)
LEMMA MintKeepsIndexInv ==
  ASSUME IndexInv, IInv', NEW id \in Tokens, NEW to \in Accounts, IndexMints(id, to)
  PROVE  IndexInv'
<1> DEFINE s1 == Moved(store, owners[id], to)
           s2 == handleTransfer(s1, Zero, Creator, id)
           s3 == handleTransfer(s2, Creator, to, id)
           r == store'
           o1 == [owners EXCEPT ![id] = Creator]
           b1 == [balances EXCEPT ![Creator] = balances[Creator] + 1]
<1>0. /\ to \in Addresses /\ Creator \in Addresses /\ Zero \in Addresses
      /\ to # Zero /\ Creator # Zero /\ Creator \in Accounts
  BY IndexerConstants, ZeroIsNoAccount DEF Addresses
<1>1. /\ IInv /\ VotesInv /\ HistoryInv /\ MovesNoun(id, to) /\ owners[id] = Zero
      /\ store \in StoreType /\ TypeOK
      /\ r = handleNounCreated(s3, id)
      /\ Counted(to = Creator, FALSE)
  BY DEF IndexInv, IndexMints, VotesInv, IInv
<1>2. VotesInv'
  BY <1>1, MintKeepsVotesInv DEF IndexMints
<1>3. /\ HistoryInv'
      /\ selfMoves' = 0 => selfMoves = 0 /\ ~ (to = Creator)
      /\ renewals' = 0 => renewals = 0
      /\ ~ strayed' => ~ strayed /\ ~ DelegatedEmptyHanded
  BY <1>1, HistoryKept
<1>4. s1 \in StoreType /\ SameButVotes(store, s1)
  BY <1>0, <1>1, MovedChanges
<1> HIDE DEF s1, r
<1>5. /\ s2 \in StoreType
      /\ TransferStored(s1, Zero, Creator, id, s1.accounts[Zero], s1.accounts[Creator], s2)
  BY <1>0, <1>4, TransferChanges
<1> HIDE DEF s2
<1>6. /\ s3 \in StoreType
      /\ TransferStored(s2, Creator, to, id, s2.accounts[Creator], s2.accounts[to], s3)
  BY <1>0, <1>5, TransferChanges
<1> HIDE DEF s3
<1>7. r.accounts = s3.accounts /\ r.delegates = s3.delegates /\ r.governance = s3.governance
  BY <1>1, <1>6, NounCreatedKeeps
<1>8. ASSUME selfMoves' = 0
      PROVE  /\ Passes(owners, balances, Zero, Creator, id, o1, b1)
             /\ Passes(o1, b1, Creator, to, id, owners', balances')
             /\ DelegateOf' = DelegateOf
             /\ \A a \in Accounts : b1[a] = 0 => balances[a] = 0
  <2>1. /\ Passes(owners, balances, Zero, to, id, owners', balances')
        /\ DelegateOf' = DelegateOf
    BY <1>0, <1>1, MovePasses
  <2>2. /\ owners \in [Tokens -> Addresses] /\ balances \in [Accounts -> Nat]
        /\ balances' \in [Accounts -> Nat] /\ owners[id] = Zero
        /\ owners' = [owners EXCEPT ![id] = to]
        /\ \A a \in Accounts : balances'[a] = balances[a] - Gain(a, Zero, 1) + Gain(a, to, 1)
    BY <1>1, <2>1 DEF Passes
  <2>3. /\ o1 \in [Tokens -> Addresses] /\ b1 \in [Accounts -> Nat] /\ o1[id] = Creator
        /\ owners' = [o1 EXCEPT ![id] = to]
        /\ \A a \in Accounts : b1[a] = IF a = Creator THEN balances[a] + 1 ELSE balances[a]
        /\ \A a \in Accounts : balances[a] \in Nat
    <3>1. balances[Creator] + 1 \in Nat
      BY <1>0, <2>2
    <3>2. b1 \in [Accounts -> Nat]
      BY <2>2, <3>1
    <3>3. /\ o1 \in [Tokens -> Addresses] /\ o1[id] = Creator
          /\ owners' = [o1 EXCEPT ![id] = to]
      BY <1>0, <2>2
    <3>4. \A a \in Accounts : b1[a] = IF a = Creator THEN balances[a] + 1 ELSE balances[a]
      BY <1>0, <2>2
    <3> QED
      BY <2>2, <3>2, <3>3, <3>4
  <2>4. Creator # to
    BY <1>3, <1>8
  <2>5. o1 = [owners EXCEPT ![id] = Creator]
    OBVIOUS
  <2> HIDE DEF o1, b1
  <2>6. \A a \in Accounts :
          /\ b1[a] = balances[a] - Gain(a, Zero, 1) + Gain(a, Creator, 1)
          /\ balances'[a] = b1[a] - Gain(a, Creator, 1) + Gain(a, to, 1)
          /\ b1[a] = 0 => balances[a] = 0
    BY <1>0, <2>2, <2>3, <2>4, ZeroIsNoAccount DEF Gain
  <2>7. b1[Creator] > 0
    BY <1>0, <2>3
  <2> QED
    BY <1>0, <2>1, <2>2, <2>3, <2>4, <2>5, <2>6, <2>7 DEF Passes
<1> HIDE DEF o1, b1
<1>9. ASSUME selfMoves' = 0
      PROVE  /\ HoldingsAre(s1, owners, balances) /\ HoldingsAre(s2, o1, b1)
             /\ HoldingsAre(r, owners', balances')
  <2>1. HoldingsAre(store, owners, balances)
    BY <1>3, <1>9 DEF IndexInv, HoldingsInv
  <2>2. HoldingsAre(s1, owners, balances)
    BY <1>4, <2>1, SameHoldingsAre
  <2>3. HoldingsAre(s2, o1, b1)
    BY <1>0, <1>4, <1>5, <1>8, <1>9, <2>2, TransferKeepsHoldings
  <2>4. HoldingsAre(s3, owners', balances')
    BY <1>0, <1>5, <1>6, <1>8, <1>9, <2>3, TransferKeepsHoldings
  <2>5. HoldingsAre(r, owners', balances')
    BY <1>7, <2>4 DEF HoldingsAre
  <2> QED
    BY <2>2, <2>3, <2>5
<1>10. ASSUME selfMoves' = 0, renewals' = 0, ~ strayed'
       PROVE  DelegatesAre(r, owners', balances', DelegateOf')
  <2>1. DelegateOf \in [Accounts -> Accounts] /\ AtHome(balances, DelegateOf)
    BY <1>1, <1>3, <1>10, DelegatesAtHome
  <2>2. AtHome(b1, DelegateOf)
    BY <1>8, <1>10, <2>1 DEF AtHome
  <2>3. DelegatesAre(store, owners, balances, DelegateOf)
    BY <1>3, <1>10 DEF IndexInv, DelegatesInv
  <2>4. DelegatesAre(s1, owners, balances, DelegateOf)
    BY <1>4, <2>3, SameDelegatesAre
  <2>5. DelegatesAre(s2, o1, b1, DelegateOf)
    BY <1>0, <1>4, <1>5, <1>8, <1>9, <1>10, <2>1, <2>4, TransferKeepsDelegates
  <2>6. DelegatesAre(s3, owners', balances', DelegateOf)
    BY <1>0, <1>5, <1>6, <1>8, <1>9, <1>10, <2>1, <2>2, <2>5, TransferKeepsDelegates
  <2>7. DelegatesAre(r, owners', balances', DelegateOf)
    BY <1>7, <2>6 DEF DelegatesAre
  <2> QED
    BY <1>8, <1>10, <2>7
<1>11. HoldingsInv' /\ DelegatesInv'
  BY <1>9, <1>10 DEF HoldingsInv, DelegatesInv, r
<1> QED
  BY <1>2, <1>3, <1>11 DEF IndexInv

(***************************************************************************)
(* A change of delegate.  An account that holds nothing and delegates has  *)
(* strayed; with nouns, it takes them to the new delegate.                 *)
(***************************************************************************)
LEMMA DelegationKeepsIndexInv ==
  ASSUME IndexInv, IInv', NEW x \in Accounts, NEW d \in Addresses, IndexDelegates(x, d)
  PROVE  IndexInv'
<1> DEFINE s == handleDelegateChanged(store, x, Delegates(x), d)
           r == store'
<1>1. /\ IInv /\ VotesInv /\ HistoryInv /\ SetDelegate(x, d) /\ UNCHANGED <<tokenVars, block>>
      /\ store \in StoreType /\ TypeOK /\ CheckpointsAscending
      /\ r = VotesMoved(s, Delegates(x), d, balances[x])
      /\ Counted(FALSE, d \in {Delegates(x), Zero})
  BY DEF IndexInv, IndexDelegates, VotesInv, IInv
<1>2. VotesInv'
  BY <1>1, DelegationKeepsVotesInv DEF IndexDelegates
<1>3. /\ HistoryInv'
      /\ selfMoves' = 0 => selfMoves = 0
      /\ renewals' = 0 => renewals = 0 /\ ~ (d \in {Delegates(x), Zero})
      /\ ~ strayed' => ~ strayed /\ ~ DelegatedEmptyHanded /\ ~ DelegatedEmptyHanded'
  <2> DEFINE q == d \in {Delegates(x), Zero}
  <2>1. q \in BOOLEAN
    OBVIOUS
  <2>3. Counted(FALSE, q)
    BY <1>1, Zenon
  <2> HIDE DEF q
  <2>2. /\ HistoryInv'
        /\ selfMoves' = 0 => selfMoves = 0
        /\ renewals' = 0 => renewals = 0 /\ ~ q
        /\ ~ strayed' => ~ strayed /\ ~ DelegatedEmptyHanded /\ ~ DelegatedEmptyHanded'
    BY <1>1, <2>1, <2>3, HistoryKept
  <2> QED
    BY <2>2 DEF q
<1>4. /\ owners \in [Tokens -> Addresses] /\ balances \in [Accounts -> Nat]
      /\ delegatees \in [Accounts -> Addresses]
      /\ owners' = owners /\ balances' = balances /\ block' = block
      /\ delegatees' = [delegatees EXCEPT ![x] = d]
      /\ MoveDelegates(Delegates(x), d, balances[x])
      /\ x \in Addresses /\ x # Zero /\ balances[x] \in Nat
  BY <1>1, TypesSplit, ZeroIsNoAccount
     DEF OwnershipTyped, TypeOK, Enum!TypeOK, Enum!Base!TypeOK, SetDelegate, tokenVars, Addresses
<1>5. Delegates(x) \in Addresses
  BY <1>4 DEF Delegates
<1>6. s \in StoreType /\ DelegationStored(store, x, Delegates(x), d, s)
  BY <1>1, <1>4, <1>5, DelegateChangedChanges DEF DelegationStored
<1> HIDE DEF s, r
<1>7. r \in StoreType /\ SameButVotes(s, r)
  BY <1>1, <1>4, <1>5, <1>6, VotesMovedChanges
<1>8. ASSUME selfMoves' = 0 PROVE HoldingsAre(r, owners', balances')
  <2>1. HoldingsAre(store, owners, balances)
    BY <1>3, <1>8 DEF IndexInv, HoldingsInv
  <2>2. HoldingsAre(s, owners, balances)
    BY <1>6, <2>1, DelegationKeepsHoldings
  <2>3. HoldingsAre(r, owners, balances)
    BY <1>7, <2>2, SameHoldingsAre
  <2> QED
    BY <1>4, <2>3
<1>9. ASSUME selfMoves' = 0, renewals' = 0, ~ strayed'
      PROVE  DelegatesAre(r, owners', balances', DelegateOf')
  <2>1. DelegateOf \in [Accounts -> Accounts] /\ AtHome(balances, DelegateOf)
    BY <1>1, <1>3, <1>9, DelegatesAtHome
  <2>2. d \in Accounts /\ d # DelegateOf[x] /\ Delegates(x) = DelegateOf[x]
    BY <1>3, <1>9 DEF DelegateOf, Addresses
  <2>3. DelegateOf' = [DelegateOf EXCEPT ![x] = d]
    <3>1. \A a \in Accounts : Delegates(a)' = IF a = x THEN d ELSE Delegates(a)
      BY <1>4, <2>2, ZeroIsNoAccount DEF Delegates
    <3> QED
      BY <3>1 DEF DelegateOf
  <2>4. balances[x] > 0
    <3>1. ASSUME balances[x] = 0 PROVE FALSE
      <4>1. d # x
        BY <2>1, <2>2, <3>1 DEF AtHome
      <4>2. delegatees'[x] = d /\ balances'[x] = 0
        BY <1>4, <3>1
      <4>3. d \notin {Zero, x}
        BY <2>2, <4>1, ZeroIsNoAccount
      <4>4. DelegatedEmptyHanded'
        BY <4>2, <4>3 DEF DelegatedEmptyHanded
      <4> QED
        BY <1>3, <1>9, <4>4
    <3> QED
      BY <1>4, <3>1
  <2>5. HoldingsAre(store, owners, balances) /\ DelegatesAre(store, owners, balances, DelegateOf)
    BY <1>3, <1>9 DEF IndexInv, HoldingsInv, DelegatesInv
  <2> DEFINE d2 == [DelegateOf EXCEPT ![x] = d]
  <2>6. d2 = [DelegateOf EXCEPT ![x] = d]
    OBVIOUS
  <2> HIDE DEF d2
  <2>7. DelegatesAre(s, owners, balances, d2)
    <3>1. DelegationStored(store, x, DelegateOf[x], d, s)
      BY <1>6, <2>2
    <3> QED
      BY <1>1, <1>4, <2>1, <2>2, <2>4, <2>5, <2>6, <3>1, DelegationKeepsDelegates
  <2>8. DelegatesAre(r, owners, balances, d2)
    BY <1>7, <2>7, SameDelegatesAre
  <2> QED
    BY <1>4, <2>3, <2>6, <2>8
<1>10. HoldingsInv' /\ DelegatesInv'
  BY <1>8, <1>9 DEF HoldingsInv, DelegatesInv, r
<1> QED
  BY <1>2, <1>3, <1>10 DEF IndexInv

-------------------------------------------------------------------------------

(***************************************************************************)
(* The empty store tells of the token that has nobody.                     *)
(***************************************************************************)
LEMMA IndexInitInv == IndexInit => IndexInv
<1> SUFFICES ASSUME IndexInit PROVE IndexInv
  OBVIOUS
<1>1. /\ Init /\ store = EmptyStore /\ selfMoves = 0 /\ renewals = 0 /\ strayed = FALSE
      /\ owners = [id \in Tokens |-> Zero] /\ balances = [a \in Accounts |-> 0]
      /\ allTokens = <<>> /\ delegatees = [a \in Accounts |-> Zero]
      /\ checkpoints = [a \in Accounts |-> <<>>]
  BY DEF IndexInit, Init, Enum!Init, Enum!Base!Init
<1>2. IInv
  BY <1>1, InitInv
<1> DEFINE g == [currentTokenHolders |-> 0, totalTokenHolders |-> 0,
                 currentDelegates |-> 0, totalDelegates |-> 0, delegatedVotes |-> 0]
<1>3. /\ store.accounts = [a \in Addresses |-> [delegate |-> NoDelegate, tokenBalance |-> 0,
                                                nouns |-> NoNouns]]
      /\ store.delegates = [a \in Addresses |->
                              [exists |-> FALSE, delegatedVotes |-> 0,
                               tokenHoldersRepresentedAmount |-> 0, nounsRepresented |-> NoNouns]]
      /\ store.governance = g
      /\ store.nouns = [id \in Tokens |-> [exists |-> FALSE, owner |-> Zero, seeded |-> FALSE]]
  BY <1>1 DEF EmptyStore
<1>4. Zero \in Addresses /\ Accounts \subseteq Addresses
      /\ IsFiniteSet(Accounts) /\ NoNouns \in Counts
  BY IndexerConstants DEF Addresses, Counts, NoNouns
<1>5. store \in StoreType
  <2> DEFINE account == [delegate |-> NoDelegate, tokenBalance |-> 0, nouns |-> NoNouns]
             delegate == [exists |-> FALSE, delegatedVotes |-> 0,
                          tokenHoldersRepresentedAmount |-> 0, nounsRepresented |-> NoNouns]
             noun == [exists |-> FALSE, owner |-> Zero, seeded |-> FALSE]
             as == [a \in Addresses |-> account]
             ds == [a \in Addresses |-> delegate]
             ns == [id \in Tokens |-> noun]
  <2>1. account \in AccountEntity /\ delegate \in DelegateEntity /\ noun \in NounEntity
    BY <1>4 DEF AccountEntity, DelegateEntity, NounEntity
  <2>2. g \in GovernanceEntity
    BY DEF GovernanceEntity
  <2>3. store = [accounts |-> as, delegates |-> ds, governance |-> g, nouns |-> ns]
    BY <1>1 DEF EmptyStore
  <2> HIDE DEF account, delegate, noun, g
  <2>4. as \in [Addresses -> AccountEntity] /\ ds \in [Addresses -> DelegateEntity]
        /\ ns \in [Tokens -> NounEntity]
    BY <2>1
  <2> HIDE DEF as, ds, ns
  <2> QED
    BY <2>2, <2>3, <2>4 DEF StoreType
<1>6. VotesAre(store, VotesNow)
  <2>1. \A a \in Accounts : VotesNow[a] = 0
    BY <1>1 DEF VotesNow, GetCurrentVotes, Latest
  <2>2. Sum(VotesNow, Accounts) = 0
    <3> DEFINE none == [a \in Accounts |-> 0]
    <3>1. Sum(VotesNow, Accounts) = Sum(none, Accounts)
      BY <1>4, <2>1, SumSame
    <3>2. Sum(none, Accounts) = 0
      BY <1>4, SumOfNothing
    <3> QED
      BY <3>1, <3>2
  <2>3. {a \in Accounts : VotesNow[a] > 0} = {}
    BY <2>1
  <2>4. \A a \in Accounts : store.delegates[a].delegatedVotes = 0
    BY <1>3, <1>4
  <2>5. store.governance.delegatedVotes = 0 /\ store.governance.currentDelegates = 0
    BY <1>3
  <2>6. Cardinality({a \in Accounts : VotesNow[a] > 0}) = 0
    BY <2>3, FS_EmptySet
  <2> QED
    BY <2>1, <2>2, <2>4, <2>5, <2>6 DEF VotesAre
<1>7. NounsAre(store, owners)
  <2>1. ASSUME NEW i \in Tokens
        PROVE  /\ store.nouns[i].owner = owners[i]
               /\ store.nouns[i].seeded = store.nouns[i].exists
               /\ owners[i] # Zero => store.nouns[i].exists
    <3>1. store.nouns[i] = [exists |-> FALSE, owner |-> Zero, seeded |-> FALSE]
      BY <1>3
    <3>2. /\ store.nouns[i].owner = Zero /\ store.nouns[i].seeded = FALSE
          /\ store.nouns[i].exists = FALSE
      BY <3>1
    <3> QED
      BY <1>1, <3>2
  <2> QED
    BY <2>1 DEF NounsAre
<1>8. store.governance.totalTokenHolders = Len(allTokens)
  BY <1>1, <1>3
<1>9. HoldingsAre(store, owners, balances)
  <2>1. ASSUME NEW a \in Accounts
        PROVE  /\ store.accounts[a].tokenBalance = balances[a]
               /\ Listed(store.accounts[a].nouns, Owned(owners, a))
    <3>1. Owned(owners, a) = {}
      BY <1>1, ZeroIsNoAccount DEF Owned
    <3>2. Listed(NoNouns, {})
      BY DEF Listed, NoNouns, Flag
    <3>3. balances[a] = 0 /\ store.accounts[a].tokenBalance = 0
          /\ store.accounts[a].nouns = NoNouns
      BY <1>1, <1>3, <1>4
    <3> QED
      BY <3>1, <3>2, <3>3
  <2>2. {a \in Accounts : balances[a] > 0} = {}
    BY <1>1
  <2>3. store.accounts[Zero].tokenBalance = 0
    BY <1>3, <1>4
  <2>4. Flag(store.accounts[Zero].tokenBalance > 0) = 0
    BY <2>3 DEF Flag
  <2>5. store.governance.currentTokenHolders
          = Cardinality({a \in Accounts : balances[a] > 0})
            + Flag(store.accounts[Zero].tokenBalance > 0)
    <3>1. store.governance.currentTokenHolders = 0
      BY <1>3
    <3>2. Cardinality({a \in Accounts : balances[a] > 0}) = 0
      BY <2>2, FS_EmptySet
    <3> QED
      BY <2>4, <3>1, <3>2
  <2> QED
    BY <2>1, <2>3, <2>5 DEF HoldingsAre
<1>10. DelegatesAre(store, owners, balances, DelegateOf)
  <2>1. ASSUME NEW a \in Accounts
        PROVE  /\ Listed(store.delegates[a].nounsRepresented, StandsFor(owners, DelegateOf, a))
               /\ store.accounts[a].delegate
                    = IF balances[a] > 0 THEN DelegateOf[a] ELSE NoDelegate
    <3>1. StandsFor(owners, DelegateOf, a) = {}
      BY <1>1 DEF StandsFor
    <3>2. Listed(NoNouns, {})
      BY DEF Listed, NoNouns, Flag
    <3>3. store.accounts[a].delegate = NoDelegate /\ balances[a] = 0
          /\ store.delegates[a].nounsRepresented = NoNouns
      BY <1>1, <1>3, <1>4
    <3> QED
      BY <3>1, <3>2, <3>3
  <2>2. store.accounts[Zero].delegate = NoDelegate
    BY <1>3, <1>4
  <2> QED
    BY <2>1, <2>2 DEF DelegatesAre
<1>11. HistoryInv
  <2>1. ~ DelegatedEmptyHanded
    BY <1>1 DEF DelegatedEmptyHanded
  <2> QED
    BY <1>1, <2>1 DEF HistoryInv
<1>12. VotesInv
  BY <1>5, <1>6, <1>7, <1>8 DEF VotesInv
<1> QED
  BY <1>2, <1>9, <1>10, <1>11, <1>12 DEF IndexInv, HoldingsInv, DelegatesInv

\* A step that changes nothing keeps the invariant.
LEMMA IndexUnchanged ==
  ASSUME IndexInv, UNCHANGED indexVars
  PROVE  IndexInv'
<1>1. /\ UNCHANGED vars /\ IInv'
      /\ store' = store /\ selfMoves' = selfMoves /\ renewals' = renewals /\ strayed' = strayed
      /\ owners' = owners /\ balances' = balances /\ allTokens' = allTokens
      /\ delegatees' = delegatees /\ checkpoints' = checkpoints
  BY StepInv DEF IndexInv, indexVars, historyVars, vars, tokenVars, voteVars
<1>2. VotesNow' = VotesNow /\ DelegateOf' = DelegateOf
      /\ (DelegatedEmptyHanded' <=> DelegatedEmptyHanded)
  BY <1>1 DEF VotesNow, GetCurrentVotes, DelegateOf, Delegates, DelegatedEmptyHanded
<1>3. VotesInv' /\ HoldingsInv' /\ DelegatesInv'
  BY <1>1, <1>2 DEF IndexInv, VotesInv, HoldingsInv, DelegatesInv
<1>4. HistoryInv'
  BY <1>1, <1>2 DEF IndexInv, HistoryInv
<1> QED
  BY <1>1, <1>3, <1>4 DEF IndexInv

\* Every step of the indexer keeps the invariant, and is a step of the token.
LEMMA IndexStepInv == IndexInv /\ [IndexNext]_indexVars => IndexInv' /\ [Next]_vars
<1> SUFFICES ASSUME IndexInv, [IndexNext]_indexVars PROVE IndexInv' /\ [Next]_vars
  OBVIOUS
<1>1. CASE IndexNext
  <2>1. TypeOK /\ IInv
    BY DEF IndexInv, IInv
  <2>2. /\ Next
        /\ \/ \E id \in Tokens, to \in Accounts : IndexMints(id, to)
           \/ \E id \in Tokens, to \in Addresses : IndexMoves(id, to)
           \/ \E x \in Accounts, d \in Addresses : IndexDelegates(x, d)
    BY <1>1, <2>1, IndexSteps
  <2>3. IInv'
    BY <2>1, <2>2, StepInv
  <2> QED
    BY <2>2, <2>3, MintKeepsIndexInv, MoveKeepsIndexInv, DelegationKeepsIndexInv
<1>2. CASE UNCHANGED indexVars
  BY <1>2, IndexUnchanged DEF indexVars
<1> QED
  BY <1>1, <1>2

\* The invariant holds after any number of transactions.
LEMMA IndexInvariantHolds == IndexSpec => []IndexInv
  BY IndexInitInv, IndexStepInv, PTL DEF IndexSpec

(***************************************************************************)
(* Every behaviour of the token together with the subgraph that indexes it *)
(* (nouns-erc-721.ts) is one of the token, so that the theorems about the  *)
(* token hold of the log the subgraph reads.  Not every behaviour of the   *)
(* token is one of the two together, because of the bounds of the latter.  *)
(***************************************************************************)
THEOREM IndexFollowsToken == IndexSpec => Spec
<1>1. IndexInit => Init
  BY DEF IndexInit
<1> QED
  BY <1>1, IndexInvariantHolds, IndexStepInv, PTL DEF IndexSpec, Spec

(***************************************************************************)
(* The enumerations of the token agree with its owners (ERC721Enumerable). *)
(***************************************************************************)
THEOREM IndexedListsEnumerate == IndexSpec => []ListsEnumerate
<1>1. Enum!BalancesCountTokens /\ Enum!AllTokensListed /\ Enum!OwnedTokensListed
        => ListsEnumerate
  BY DEF ListsEnumerate
<1> QED
  BY <1>1, IndexFollowsToken, BalancesCorrect, EnumerationsExact, PTL

(***************************************************************************)
(* The subgraph's votes, owners, seeds and supply are the contract's after *)
(* any number of transactions of any number of accounts.                   *)
(***************************************************************************)
THEOREM IndexedVotesMatch == IndexSpec => []VotesIndexed
<1>1. IndexInv => VotesIndexed
  BY VotesInvSays DEF IndexInv, IInv
<1> QED
  BY <1>1, IndexInvariantHolds, PTL

(***************************************************************************)
(* The subgraph's accounts are the contract's while no noun has been moved *)
(* to its own owner, and its delegates while nobody besides has renewed a  *)
(* delegation or delegated empty-handed.                                   *)
(***************************************************************************)
THEOREM IndexedAccountsMatch == IndexSpec => []AccountsIndexed
<1>1. ASSUME IndexInv PROVE AccountsIndexed
  <2>1. HoldingsIndexed
    BY <1>1 DEF IndexInv, HoldingsInv, HoldingsAre, HoldingsIndexed, Owned
  <2>2. DelegatesIndexed
    <3>1. TypeOK /\ owners \in [Tokens -> Addresses]
      BY <1>1, TypesSplit DEF IndexInv, IInv, OwnershipTyped
    <3>2. \A a \in Accounts : StandsFor(owners, DelegateOf, a) = Represented(a)
                              /\ DelegateOf[a] = Delegates(a)
      BY <3>1 DEF StandsFor, DelegateOf, Represented, Addresses
    <3> QED
      BY <1>1, <3>2 DEF IndexInv, DelegatesInv, DelegatesAre, DelegatesIndexed
  <2> QED
    BY <2>1, <2>2 DEF AccountsIndexed
<1> QED
  BY <1>1, IndexInvariantHolds, PTL

==============================================================================
