---------------------- MODULE ERC721Checkpointable_proofs ----------------------
(***************************************************************************)
(* Invariance proofs for the noun token: for any number of accounts, nouns *)
(* and blocks, and whatever delegations have been signed; and that the     *)
(* token implements VotingPower, if nobody signs for the zero address.     *)
(***************************************************************************)
EXTENDS ERC721Checkpointable, DataTheorems, SequenceTheorems

-------------------------------------------------------------------------------
(* Lists of checkpoints.                                                   *)

(***************************************************************************)
(* _writeCheckpoint makes the written number the current one and keeps the *)
(* list ascending.                                                         *)
(***************************************************************************)
LEMMA WrittenVotes ==
  ASSUME NEW cps \in Seq(CheckpointType), NEW b \in Nat, NEW v \in Nat
  PROVE  /\ Written(cps, b, v) \in Seq(CheckpointType)
         /\ Latest(Written(cps, b, v), 0) = v
         /\ Latest(cps, 0) \in Nat
         /\ Ascending(cps, b) => Ascending(Written(cps, b, v), b)
<1>1. \A s : CheckpointList(s, Nat) <=> s \in Seq(CheckpointType)
  BY DEF CheckpointList, CheckpointOf, CheckpointType
<1>2. /\ CheckpointList(Written(cps, b, v), Nat)
      /\ Latest(Written(cps, b, v), 0) = v
      /\ Latest(cps, 0) \in Nat \cup {0}
      /\ Ascending(cps, b) => Ascending(Written(cps, b, v), b)
  <2>1. CheckpointList(cps, Nat)
    BY <1>1
  <2> QED
    BY <2>1, WrittenIsLatest
<1> QED
  BY <1>1, <1>2

-------------------------------------------------------------------------------
(* What _moveDelegates does to the votes.                                  *)

CheckpointsTyped ==
  /\ checkpoints \in [Accounts -> Seq(CheckpointType)]
  /\ block \in Nat

\* the amount a _moveDelegates adds to, and takes from, the votes of a
Gain(a, dst, n) == IF a = dst THEN n ELSE 0

(***************************************************************************)
(* _moveDelegates takes `n' votes from src and gives them to dst, and      *)
(* touches nobody else; lists stay ascending.                              *)
(***************************************************************************)
LEMMA MovedVotes ==
  ASSUME CheckpointsTyped, NEW src, NEW dst, NEW n \in Nat,
         CanMove(src, dst, n)
  PROVE  /\ MovedDelegates(src, dst, n) \in [Accounts -> Seq(CheckpointType)]
         /\ \A a \in Accounts :
              /\ GetCurrentVotes(a) \in Nat
              /\ Latest(MovedDelegates(src, dst, n)[a], 0)
                   = GetCurrentVotes(a) - Gain(a, src, n) + Gain(a, dst, n)
              /\ CheckpointsAscending
                   => Ascending(MovedDelegates(src, dst, n)[a], block)
<1> DEFINE new == MovedDelegates(src, dst, n)
<1>1. \A a \in Accounts : checkpoints[a] \in Seq(CheckpointType)
  BY DEF CheckpointsTyped
<1>2. \A a \in Accounts : GetCurrentVotes(a) \in Nat
  BY <1>1, WrittenVotes DEF GetCurrentVotes
<1>3. ASSUME NEW a \in Accounts
      PROVE  /\ new[a] \in Seq(CheckpointType)
             /\ Latest(new[a], 0)
                  = GetCurrentVotes(a) - Gain(a, src, n) + Gain(a, dst, n)
             /\ CheckpointsAscending => Ascending(new[a], block)
  <2>1. CASE src = dst \/ n = 0 \/ a \notin {src, dst}
    <3>1. new[a] = checkpoints[a]
      BY <2>1 DEF MovedDelegates
    <3>2. Gain(a, src, n) = Gain(a, dst, n) /\ Gain(a, src, n) \in Nat
      BY <2>1 DEF Gain
    <3> QED
      BY <3>1, <3>2, <1>1, <1>2 DEF GetCurrentVotes, CheckpointsAscending
  <2>2. CASE src # dst /\ n # 0 /\ a = src
    <3>1. n <= GetCurrentVotes(a) \/ a = Zero
      BY <2>2 DEF CanMove
    <3>2. GetCurrentVotes(a) - n \in Nat
      BY <3>1, <1>2, ZeroIsNoAccount
    <3>3. new[a] = Written(checkpoints[a], block, GetCurrentVotes(a) - n)
      BY <2>2 DEF MovedDelegates
    <3>4. Gain(a, src, n) = n /\ Gain(a, dst, n) = 0
      BY <2>2 DEF Gain
    <3>5. GetCurrentVotes(a) - n = GetCurrentVotes(a) - n + 0
      BY <1>2
    <3> QED
      BY <3>2, <3>3, <3>4, <3>5, <1>1, WrittenVotes
         DEF CheckpointsTyped, CheckpointsAscending
  <2>3. CASE src # dst /\ n # 0 /\ a = dst
    <3>1. GetCurrentVotes(a) + n \in Nat
      BY <1>2
    <3>2. new[a] = Written(checkpoints[a], block, GetCurrentVotes(a) + n)
      BY <2>3 DEF MovedDelegates
    <3>3. Gain(a, src, n) = 0 /\ Gain(a, dst, n) = n
      BY <2>3 DEF Gain
    <3>4. GetCurrentVotes(a) + n = GetCurrentVotes(a) - 0 + n
      BY <1>2
    <3> QED
      BY <3>1, <3>2, <3>3, <3>4, <1>1, WrittenVotes
         DEF CheckpointsTyped, CheckpointsAscending
  <2> QED
    BY <2>1, <2>2, <2>3
<1>4. new \in [Accounts -> Seq(CheckpointType)]
  BY <1>3 DEF MovedDelegates
<1> QED
  BY <1>2, <1>3, <1>4

-------------------------------------------------------------------------------
(* Counting the nouns an account owns and represents.                      *)

NounsOf(a) == Enum!Base!TokensOf(a)

OwnershipTyped ==
  /\ owners \in [Tokens -> Addresses]
  /\ delegatees \in [Accounts -> Addresses]

\* the instances count with the same operator as this module
LEMMA OneCardinality ==
  ASSUME NEW S
  PROVE  Enum!Base!Cardinality(S) = Cardinality(S) /\ Enum!Cardinality(S) = Cardinality(S)
BY DEF Enum!Base!Cardinality, Enum!Cardinality, Cardinality

LEMMA FiniteCounts ==
  ASSUME NEW a
  PROVE  /\ IsFiniteSet(Represented(a)) /\ Cardinality(Represented(a)) \in Nat
         /\ IsFiniteSet(NounsOf(a)) /\ Cardinality(NounsOf(a)) \in Nat
<1>1. Represented(a) \in SUBSET Tokens /\ NounsOf(a) \in SUBSET Tokens
  BY DEF Represented, NounsOf, Enum!Base!TokensOf
<1> QED
  BY <1>1, TokensAreNumbers, FS_Subset, FS_CardinalityType

(***************************************************************************)
(* A mint, transfer or burn moves one noun from its owner to `to', and one *)
(* represented noun from the owner's delegate to the delegate of `to'.     *)
(***************************************************************************)
LEMMA CountsAfterMove ==
  ASSUME OwnershipTyped, NEW id \in Tokens, NEW to \in Addresses,
         owners' = [owners EXCEPT ![id] = to], delegatees' = delegatees,
         NEW a \in Accounts
  PROVE  /\ Cardinality(NounsOf(a))'
              = Cardinality(NounsOf(a)) - Gain(a, owners[id], 1) + Gain(a, to, 1)
         /\ Cardinality(Represented(a))'
              = Cardinality(Represented(a)) - Gain(a, Delegates(owners[id]), 1)
                                            + Gain(a, Delegates(to), 1)
<1> DEFINE rep == Represented(a)
           own == NounsOf(a)
           src == Delegates(owners[id])
           dst == Delegates(to)
<1>1. /\ IsFiniteSet(rep) /\ IsFiniteSet(own)
      /\ Cardinality(rep) \in Nat /\ Cardinality(own) \in Nat
  BY FiniteCounts
<1>2. \A x : Delegates(x)' = Delegates(x)
  BY DEF Delegates
<1>3. a # Zero /\ Delegates(Zero) = Zero
  BY ZeroIsNoAccount DEF Delegates
<1>4. \A t \in Tokens : owners'[t] = IF t = id THEN to ELSE owners[t]
  BY DEF OwnershipTyped
<1>5. Cardinality(own)' = Cardinality(own) - Gain(a, owners[id], 1) + Gain(a, to, 1)
  <2>1. id \in own <=> owners[id] = a
    BY DEF NounsOf, Enum!Base!TokensOf
  <2>2. own' = IF to = a THEN own \cup {id} ELSE own \ {id}
    BY <1>4 DEF NounsOf, Enum!Base!TokensOf
  <2> HIDE DEF own
  <2>3. /\ Cardinality(own \cup {id})
             = IF id \in own THEN Cardinality(own) ELSE Cardinality(own) + 1
        /\ Cardinality(own \ {id})
             = IF id \in own THEN Cardinality(own) - 1 ELSE Cardinality(own)
    BY <1>1, FS_AddElement, FS_RemoveElement
  <2> QED
    BY <1>1, <2>1, <2>2, <2>3 DEF Gain
<1>6. Cardinality(rep)' = Cardinality(rep) - Gain(a, src, 1) + Gain(a, dst, 1)
  <2>1. id \in rep <=> src = a
    BY <1>3 DEF Represented
  <2>2. rep' = IF dst = a THEN rep \cup {id} ELSE rep \ {id}
    BY <1>2, <1>3, <1>4 DEF Represented
  <2> HIDE DEF rep, src, dst
  <2>3. /\ Cardinality(rep \cup {id})
             = IF id \in rep THEN Cardinality(rep) ELSE Cardinality(rep) + 1
        /\ Cardinality(rep \ {id})
             = IF id \in rep THEN Cardinality(rep) - 1 ELSE Cardinality(rep)
    BY <1>1, FS_AddElement, FS_RemoveElement
  <2> QED
    BY <1>1, <2>1, <2>2, <2>3 DEF Gain
<1> QED
  BY <1>5, <1>6

(***************************************************************************)
(* A change of delegate moves all the nouns of the delegator at once.  An  *)
(* account whose delegate is the zero address stands for itself.           *)
(***************************************************************************)
LEMMA CountsAfterDelegation ==
  ASSUME OwnershipTyped, NEW s \in Accounts, NEW d \in Addresses,
         owners' = owners, delegatees' = [delegatees EXCEPT ![s] = d],
         NEW a \in Accounts
  PROVE  Cardinality(Represented(a))'
           = Cardinality(Represented(a))
               - Gain(a, Delegates(s), Cardinality(NounsOf(s)))
               + Gain(a, IF d = Zero THEN s ELSE d, Cardinality(NounsOf(s)))
<1> DEFINE rep == Represented(a)
           own == NounsOf(s)
           src == Delegates(s)
           dst == IF d = Zero THEN s ELSE d
<1>1. /\ IsFiniteSet(rep) /\ IsFiniteSet(own)
      /\ Cardinality(rep) \in Nat /\ Cardinality(own) \in Nat
  BY FiniteCounts
<1>2. \A x \in Accounts : Delegates(x)' = IF x = s THEN dst ELSE Delegates(x)
  BY ZeroIsNoAccount DEF Delegates, OwnershipTyped
<1>3. \A t \in own : t \in rep <=> src = a
  BY ZeroIsNoAccount DEF NounsOf, Enum!Base!TokensOf, Represented
<1>4. rep' = IF dst = a THEN rep \cup own ELSE rep \ own
  <2>1. \A t \in Tokens : owners[t] \in Accounts \/ owners[t] = Zero
    BY DEF OwnershipTyped, Addresses
  <2> QED
    BY <1>2, <2>1, ZeroIsNoAccount
       DEF NounsOf, Enum!Base!TokensOf, Represented
<1> HIDE DEF rep, own, src, dst
<1>5. /\ Cardinality(rep \cup own)
            = Cardinality(rep) + Cardinality(own) - Cardinality(rep \cap own)
      /\ Cardinality(rep \ own) = Cardinality(rep) - Cardinality(rep \cap own)
  BY <1>1, FS_Union, FS_Difference
<1>6. Cardinality(rep \cap own) = Gain(a, src, Cardinality(own))
  <2>1. CASE src = a
    <3>1. rep \cap own = own
      BY <1>3, <2>1
    <3> QED
      BY <2>1, <3>1 DEF Gain
  <2>2. CASE src # a
    <3>1. rep \cap own = {}
      BY <1>3, <2>2
    <3> QED
      BY <2>2, <3>1, FS_EmptySet DEF Gain
  <2> QED
    BY <2>1, <2>2
<1>7. Cardinality(rep)' = Cardinality(rep) - Gain(a, src, Cardinality(own))
                                           + Gain(a, dst, Cardinality(own))
  <2>1. CASE dst = a
    BY <1>1, <1>4, <1>5, <1>6, <2>1 DEF Gain
  <2>2. CASE dst # a
    BY <1>1, <1>4, <1>5, <1>6, <2>2 DEF Gain
  <2> QED
    BY <2>1, <2>2
<1> QED
  BY <1>7 DEF rep, own, src, dst

-------------------------------------------------------------------------------
(* The inductive invariant.                                                *)

\* totalSupply() is the number of nouns that exist
SupplyCounted ==
  Len(allTokens) = Cardinality({id \in Tokens : Enum!Base!Exists(id)})

IInv ==
  /\ TypeOK
  /\ Enum!BalancesCountTokens
  /\ SupplyCounted
  /\ CheckpointsAscending
  /\ VotesNeverExceedNouns

LEMMA TypesSplit ==
  ASSUME TypeOK
  PROVE  CheckpointsTyped /\ OwnershipTyped
BY DEF TypeOK, Enum!TypeOK, Enum!Base!TypeOK, CheckpointsTyped, OwnershipTyped,
       Addresses, Enum!Base!Addresses

LEMMA InitInv == Init => IInv
<1> SUFFICES ASSUME Init PROVE IInv
  OBVIOUS
<1> USE DEF Init, Enum!Init, Enum!Base!Init
<1>1. Cardinality(Tokens) \in Nat /\ (Tokens # {} => 0 \in Enum!Slots)
  <2>1. Cardinality(Tokens) \in Nat /\ (Cardinality(Tokens) = 0 <=> Tokens = {})
    BY TokensAreNumbers, FS_CardinalityType, FS_EmptySet
  <2> QED
    BY <2>1, OneCardinality DEF Enum!Slots
<1>2. TypeOK
  BY <1>1 DEF TypeOK, Enum!TypeOK, Enum!Base!TypeOK, Enum!Base!Addresses
<1>3. ASSUME NEW a \in Accounts
      PROVE  /\ Cardinality(Enum!Base!TokensOf(a)) = 0
             /\ Cardinality(Represented(a)) = 0
  <2>1. Enum!Base!TokensOf(a) = {} /\ Represented(a) = {}
    BY ZeroIsNoAccount DEF Enum!Base!TokensOf, Represented
  <2> QED
    BY <2>1, FS_EmptySet
<1>4. Enum!BalancesCountTokens
  BY <1>3, OneCardinality DEF Enum!BalancesCountTokens, Enum!Base!BalancesCountTokens
<1>5. SupplyCounted
  <2>1. {id \in Tokens : Enum!Base!Exists(id)} = {}
    BY DEF Enum!Base!Exists
  <2> QED
    BY <2>1, FS_EmptySet DEF SupplyCounted
<1>6. CheckpointsAscending
  BY DEF CheckpointsAscending, Ascending
<1>7. VotesNeverExceedNouns
  <2>1. \A a \in Accounts : GetCurrentVotes(a) = 0
    BY DEF GetCurrentVotes, Latest
  <2> QED
    BY <1>3, <2>1 DEF VotesNeverExceedNouns
<1> QED
  BY <1>2, <1>4, <1>5, <1>6, <1>7 DEF IInv

-------------------------------------------------------------------------------
(* What a mint, a transfer and a burn have in common.                      *)

MovesNoun(id, to) ==
  /\ owners[id] # Zero \/ to # Zero
  /\ owners' = [owners EXCEPT ![id] = to]
  /\ balances' \in [Accounts -> Int]
  /\ \A a \in Accounts :
       balances'[a] = balances[a] - Gain(a, owners[id], 1) + Gain(a, to, 1)
  /\ tokenApprovals' \in [Tokens -> Addresses]
  /\ operatorApprovals' = operatorApprovals
  /\ Enum!BeforeTokenTransfer(owners[id], to, id)
  /\ BeforeTokenTransfer(owners[id], to)

LEMMA TokenActionsMoveNouns ==
  ASSUME TypeOK
  PROVE  /\ \A to \in Accounts, id \in Tokens : Mint(to, id) => MovesNoun(id, to)
         /\ \A id \in Tokens : Burn(id) => MovesNoun(id, Zero)
         /\ \A sender, from, to \in Accounts, id \in Tokens :
              TransferFrom(sender, from, to, id) => MovesNoun(id, to)
<1>1. /\ owners \in [Tokens -> Addresses]
      /\ balances \in [Accounts -> Nat]
      /\ tokenApprovals \in [Tokens -> Addresses]
      /\ Zero \in Addresses
  BY DEF TypeOK, Enum!TypeOK, Enum!Base!TypeOK, Enum!Base!Addresses, Addresses
<1>2. ASSUME NEW to \in Accounts, NEW id \in Tokens, Mint(to, id)
      PROVE  MovesNoun(id, to)
  <2>1. owners[id] = Zero /\ to # Zero
    BY <1>2, ZeroIsNoAccount DEF Mint, Enum!Mint, Enum!Base!Mint, Enum!Base!Exists
  <2>2. balances' = [balances EXCEPT ![to] = @ + 1]
    BY <1>2 DEF Mint, Enum!Mint, Enum!Base!Mint
  <2>3. /\ balances' \in [Accounts -> Int]
        /\ \A a \in Accounts :
             balances'[a] = balances[a] - Gain(a, owners[id], 1) + Gain(a, to, 1)
    BY <1>1, <2>1, <2>2, ZeroIsNoAccount DEF Gain
  <2> QED
    BY <1>1, <1>2, <2>1, <2>3 DEF MovesNoun, Mint, Enum!Mint, Enum!Base!Mint
<1>3. ASSUME NEW id \in Tokens, Burn(id)
      PROVE  MovesNoun(id, Zero)
  <2>1. owners[id] # Zero
    BY <1>3 DEF Burn, Enum!Burn, Enum!Base!Burn, Enum!Base!Exists
  <2>2. balances' = [balances EXCEPT ![owners[id]] = @ - 1]
    BY <1>3 DEF Burn, Enum!Burn, Enum!Base!Burn
  <2>3. /\ balances' \in [Accounts -> Int]
        /\ \A a \in Accounts :
             balances'[a] = balances[a] - Gain(a, owners[id], 1) + Gain(a, Zero, 1)
    BY <1>1, <2>1, <2>2, ZeroIsNoAccount DEF Gain, Addresses
  <2> QED
    BY <1>1, <1>3, <2>1, <2>3 DEF MovesNoun, Burn, Enum!Burn, Enum!Base!Burn
<1>4. ASSUME NEW sender \in Accounts, NEW from \in Accounts, NEW to \in Accounts,
             NEW id \in Tokens, TransferFrom(sender, from, to, id)
      PROVE  MovesNoun(id, to)
  <2>1. owners[id] = from /\ to # Zero
    BY <1>4, ZeroIsNoAccount
       DEF TransferFrom, Enum!TransferFrom, Enum!Base!TransferFrom
  <2>2. balances' = [[balances EXCEPT ![from] = @ - 1] EXCEPT ![to] = @ + 1]
    BY <1>4 DEF TransferFrom, Enum!TransferFrom, Enum!Base!TransferFrom
  <2>3. /\ balances' \in [Accounts -> Int]
        /\ \A a \in Accounts :
             balances'[a] = balances[a] - Gain(a, owners[id], 1) + Gain(a, to, 1)
    BY <1>1, <2>1, <2>2 DEF Gain
  <2> QED
    BY <1>1, <1>4, <2>1, <2>3
       DEF MovesNoun, TransferFrom, Enum!TransferFrom, Enum!Base!TransferFrom
<1> QED
  BY <1>2, <1>3, <1>4

\* the slots of a list begin with 0
LEMMA SlotsAreNumbers ==
  ASSUME NEW n \in Enum!Slots
  PROVE  n \in Nat /\ 0 .. n \subseteq Enum!Slots /\ Enum!Slots \subseteq Nat
<1>1. Cardinality(Tokens) \in Nat
  BY TokensAreNumbers, FS_CardinalityType
<1> QED
  BY <1>1, OneCardinality DEF Enum!Slots

(***************************************************************************)
(* The slots a move works on exist: the owner's last one, and the first    *)
(* free one of the receiver.                                               *)
(***************************************************************************)
LEMMA BalancesAreSlots ==
  ASSUME IInv, NEW id \in Tokens, NEW to \in Addresses
  PROVE  LET from == owners[id]
         IN  /\ from # Zero => from \in Accounts /\ balances[from] - 1 \in Enum!Slots
             /\ to # Zero /\ to # from => to \in Accounts /\ balances[to] \in Enum!Slots
<1> DEFINE from == owners[id]
<1>1. owners \in [Tokens -> Addresses] /\ balances \in [Accounts -> Nat]
  BY DEF IInv, TypeOK, Enum!TypeOK, Enum!Base!TypeOK, Enum!Base!Addresses, Addresses
<1>2. Cardinality(Tokens) \in Nat /\ Enum!Slots = 0 .. Cardinality(Tokens) - 1
  BY TokensAreNumbers, FS_CardinalityType, OneCardinality DEF Enum!Slots
<1>3. /\ from # Zero => from \in Accounts /\ balances[from] - 1 \in Enum!Slots
      /\ to # Zero /\ to # from => to \in Accounts /\ balances[to] \in Enum!Slots
  <2>1. \A a \in Accounts :
          /\ balances[a] = Cardinality(NounsOf(a))
          /\ NounsOf(a) \in SUBSET Tokens /\ (id \in NounsOf(a) <=> from = a)
    BY OneCardinality DEF IInv, Enum!BalancesCountTokens,
       Enum!Base!BalancesCountTokens, NounsOf, Enum!Base!TokensOf
  <2>2. ASSUME from # Zero
        PROVE  from \in Accounts /\ balances[from] - 1 \in Enum!Slots
    <3>1. from \in Accounts
      BY <2>2, <1>1 DEF Addresses
    <3>2. NounsOf(from) # {} /\ balances[from] = Cardinality(NounsOf(from))
          /\ NounsOf(from) \in SUBSET Tokens
      BY <2>1, <3>1
    <3> HIDE DEF from
    <3>3. Cardinality(NounsOf(from)) # 0
          /\ Cardinality(NounsOf(from)) <= Cardinality(Tokens)
          /\ Cardinality(NounsOf(from)) \in Nat
      BY <3>2, FiniteCounts, FS_EmptySet, FS_Subset, TokensAreNumbers
    <3> QED
      BY <3>1, <3>2, <3>3, <1>2
  <2>3. ASSUME to # Zero, to # from
        PROVE  to \in Accounts /\ balances[to] \in Enum!Slots
    <3>1. to \in Accounts
      BY <2>3 DEF Addresses
    <3>2. NounsOf(to) # Tokens /\ balances[to] = Cardinality(NounsOf(to))
          /\ NounsOf(to) \in SUBSET Tokens
      BY <2>1, <3>1, <2>3
    <3>3. Cardinality(NounsOf(to)) # Cardinality(Tokens)
          /\ Cardinality(NounsOf(to)) <= Cardinality(Tokens)
          /\ Cardinality(NounsOf(to)) \in Nat
      BY <3>2, FiniteCounts, FS_Subset, TokensAreNumbers
    <3> QED
      BY <3>1, <3>2, <3>3, <1>2
  <2> QED
    BY <2>2, <2>3
<1> QED
  BY <1>3

\* the lists keep their types when a noun leaves its owner
LEMMA RemovedIsTyped ==
  ASSUME NEW from \in Accounts, NEW id \in Tokens, balances[from] - 1 \in Enum!Slots,
         ownedTokens \in [Accounts -> [Enum!Slots -> Tokens \cup {0}]],
         ownedTokensIndex \in [Tokens -> Enum!Slots]
  PROVE  LET removed == Enum!RemovedFromOwner(from, id)
         IN  /\ removed = <<removed[1], removed[2]>>
             /\ removed[1] \in [Accounts -> [Enum!Slots -> Tokens \cup {0}]]
             /\ removed[2] \in [Tokens -> Enum!Slots]
<1> DEFINE last == balances[from] - 1
           i    == ownedTokensIndex[id]
<1>1. last \in Enum!Slots /\ i \in Enum!Slots /\ 0 \in Enum!Slots
  BY SlotsAreNumbers
<1> HIDE DEF last, i
<1>2. ownedTokens[from][last] \in Tokens \cup {0}
  BY <1>1
<1> QED
  BY <1>1, <1>2 DEF Enum!RemovedFromOwner, last, i

(***************************************************************************)
(* The hook of ERC721Enumerable keeps the types of the lists: the indices  *)
(* it computes are positions, because balances and supply count nouns.     *)
(***************************************************************************)
LEMMA ListsStayTyped ==
  ASSUME IInv, NEW id \in Tokens, NEW to \in Addresses, MovesNoun(id, to)
  PROVE  /\ ownedTokens' \in [Accounts -> [Enum!Slots -> Tokens \cup {0}]]
         /\ ownedTokensIndex' \in [Tokens -> Enum!Slots]
         /\ allTokens' \in Seq(Tokens)
         /\ allTokensIndex' \in [Tokens -> Enum!Slots]
         /\ SupplyCounted'
<1> DEFINE from == owners[id]
           all == {t \in Tokens : Enum!Base!Exists(t)}
           Pairs == [Accounts -> [Enum!Slots -> Tokens \cup {0}]]
                      \X [Tokens -> Enum!Slots]
<1>1. /\ owners \in [Tokens -> Addresses]
      /\ balances \in [Accounts -> Nat]
      /\ <<ownedTokens, ownedTokensIndex>> \in Pairs
      /\ allTokens \in Seq(Tokens)
      /\ allTokensIndex \in [Tokens -> Enum!Slots]
  BY DEF IInv, TypeOK, Enum!TypeOK, Enum!Base!TypeOK, Enum!Base!Addresses,
         Addresses
<1>2. /\ Cardinality(Tokens) \in Nat
      /\ Enum!Slots = 0 .. Cardinality(Tokens) - 1
      /\ IsFiniteSet(all) /\ Cardinality(all) \in Nat
      /\ Len(allTokens) = Cardinality(all)
  <2>1. all \in SUBSET Tokens
    OBVIOUS
  <2> QED
    BY <2>1, TokensAreNumbers, FS_Subset, FS_CardinalityType, OneCardinality
       DEF Enum!Slots, IInv, SupplyCounted
<1>3. \A t \in Tokens : owners'[t] = IF t = id THEN to ELSE owners[t]
  BY <1>1 DEF MovesNoun
<1>4. Cardinality(all)' = IF from = Zero THEN Cardinality(all) + 1
                          ELSE IF to = Zero THEN Cardinality(all) - 1
                          ELSE Cardinality(all)
  <2>1. id \in all <=> from # Zero
    BY DEF Enum!Base!Exists
  <2>2. all' = IF to # Zero THEN all \cup {id} ELSE all \ {id}
    BY <1>3 DEF Enum!Base!Exists
  <2>3. from # Zero \/ to # Zero
    BY DEF MovesNoun
  <2> HIDE DEF all, from
  <2>4. /\ Cardinality(all \cup {id})
             = IF id \in all THEN Cardinality(all) ELSE Cardinality(all) + 1
        /\ Cardinality(all \ {id})
             = IF id \in all THEN Cardinality(all) - 1 ELSE Cardinality(all)
    BY <1>2, FS_AddElement, FS_RemoveElement
  <2> QED
    BY <1>2, <2>1, <2>2, <2>3, <2>4
<1>5. /\ from = Zero => Cardinality(all) < Cardinality(Tokens)
      /\ from # Zero => Cardinality(all) > 0
  <2>1. all \in SUBSET Tokens /\ (from = Zero => id \notin all)
        /\ (from # Zero => all # {})
    BY DEF Enum!Base!Exists
  <2> HIDE DEF all, from
  <2>2. Cardinality(all) <= Cardinality(Tokens)
    BY <2>1, TokensAreNumbers, FS_Subset
  <2>3. from = Zero => Cardinality(all) # Cardinality(Tokens)
    BY <2>1, TokensAreNumbers, FS_Subset
  <2>4. from # Zero => Cardinality(all) # 0
    BY <2>1, <1>2, FS_EmptySet
  <2> QED
    BY <2>2, <2>3, <2>4, <1>2
<1>6. /\ from # Zero => from \in Accounts /\ balances[from] - 1 \in Enum!Slots
      /\ to # Zero /\ to # from => to \in Accounts /\ balances[to] \in Enum!Slots
  BY BalancesAreSlots
<1>7. from # Zero => Enum!RemovedFromOwner(from, id) \in Pairs
  BY <1>1, <1>6, RemovedIsTyped
<1>8. ASSUME NEW pair \in Pairs, to # Zero, to # from
      PROVE  Enum!AddedToOwner(pair, to, id) \in Pairs
  BY <1>6, <1>8 DEF Enum!AddedToOwner
<1>9. <<ownedTokens, ownedTokensIndex>>' \in Pairs
  BY <1>1, <1>7, <1>8 DEF MovesNoun, Enum!BeforeTokenTransfer, Enum!ownedVars
<1>10. /\ allTokens' \in Seq(Tokens)
       /\ allTokensIndex' \in [Tokens -> Enum!Slots]
       /\ Len(allTokens') = Cardinality(all)'
  <2>1. CASE from = Zero
    <3>1. Enum!AddToAll(id)
      BY <2>1 DEF MovesNoun, Enum!BeforeTokenTransfer
    <3> QED
      BY <2>1, <3>1, <1>1, <1>2, <1>4, <1>5 DEF Enum!AddToAll
  <2>2. CASE from # Zero /\ to = Zero
    <3>1. Enum!RemoveFromAll(id)
      BY <2>2 DEF MovesNoun, Enum!BeforeTokenTransfer
    <3> DEFINE last == Len(allTokens) - 1
               i    == allTokensIndex[id]
               swapped == [allTokens EXCEPT ![i + 1] = allTokens[last + 1]]
    <3>2. last \in Nat /\ last + 1 = Len(allTokens) /\ i \in Nat
          /\ i \in Enum!Slots /\ 0 \in Enum!Slots
      BY <2>2, <1>1, <1>2, <1>5
    <3>3. allTokens[last + 1] \in Tokens
      BY <3>2, <1>1
    <3>4. swapped \in Seq(Tokens) /\ Len(swapped) = last + 1
      <4>1. /\ allTokens \in [1 .. Len(allTokens) -> Tokens]
            /\ Len(allTokens) \in Nat
        BY <1>1
      <4>2. swapped \in [1 .. Len(allTokens) -> Tokens]
        BY <4>1, <3>3
      <4> HIDE DEF swapped
      <4>3. swapped \in Seq(Tokens)
        BY <4>1, <4>2, SeqDef
      <4>4. DOMAIN swapped = 1 .. Len(allTokens)
        BY <4>2
      <4> QED
        BY <4>1, <4>3, <4>4, <3>2, LenProperties
    <3>5. /\ allTokens' = SubSeq(swapped, 1, last)
          /\ allTokensIndex' =
               [[allTokensIndex EXCEPT ![allTokens[last + 1]] = i] EXCEPT ![id] = 0]
      BY <3>1 DEF Enum!RemoveFromAll
    <3> HIDE DEF last, i, swapped
    <3>6. SubSeq(swapped, 1, last) \in Seq(Tokens) /\ Len(SubSeq(swapped, 1, last)) = last
      BY <3>2, <3>4
    <3>7. allTokensIndex' \in [Tokens -> Enum!Slots]
      BY <3>2, <3>5, <1>1
    <3>8. Cardinality(all)' = last
      BY <2>2, <1>2, <1>4 DEF last
    <3> QED
      BY <3>5, <3>6, <3>7, <3>8
  <2>3. CASE from # Zero /\ to # Zero
    <3>1. allTokens' = allTokens /\ allTokensIndex' = allTokensIndex
      BY <2>3 DEF MovesNoun, Enum!BeforeTokenTransfer, Enum!allVars
    <3> QED
      BY <2>3, <3>1, <1>1, <1>2, <1>4
  <2> QED
    BY <2>1, <2>2, <2>3
<1> QED
  BY <1>9, <1>10 DEF SupplyCounted

-------------------------------------------------------------------------------
(* Every step preserves the invariant.                                     *)

\* the consequences of _moveDelegates, in terms of the next state
LEMMA VotesAfterMove ==
  ASSUME TypeOK, CheckpointsAscending, block' = block,
         NEW src, NEW dst, NEW n \in Nat, MoveDelegates(src, dst, n)
  PROVE  /\ checkpoints' \in [Accounts -> Seq(CheckpointType)]
         /\ CheckpointsAscending'
         /\ \A a \in Accounts :
              /\ GetCurrentVotes(a) \in Nat
              /\ GetCurrentVotes(a)'
                   = GetCurrentVotes(a) - Gain(a, src, n) + Gain(a, dst, n)
<1>1. CheckpointsTyped /\ CanMove(src, dst, n)
      /\ checkpoints' = MovedDelegates(src, dst, n)
  BY TypesSplit DEF MoveDelegates
<1> QED
  BY <1>1, MovedVotes DEF GetCurrentVotes, CheckpointsAscending

LEMMA MovedNounInv ==
  ASSUME IInv, NEW id \in Tokens, NEW to \in Addresses, MovesNoun(id, to)
  PROVE  IInv' /\ (VotesMatchDelegation => VotesMatchDelegation')
<1> DEFINE from == owners[id]
<1>1. /\ TypeOK /\ OwnershipTyped /\ owners' = [owners EXCEPT ![id] = to]
      /\ delegatees' = delegatees /\ nonces' = nonces /\ block' = block
      /\ MoveDelegates(Delegates(from), Delegates(to), 1)
  BY TypesSplit DEF IInv, MovesNoun, BeforeTokenTransfer
<1>2. /\ checkpoints' \in [Accounts -> Seq(CheckpointType)]
      /\ CheckpointsAscending'
      /\ \A a \in Accounts :
           /\ GetCurrentVotes(a) \in Nat
           /\ GetCurrentVotes(a)' = GetCurrentVotes(a)
                - Gain(a, Delegates(from), 1) + Gain(a, Delegates(to), 1)
  BY <1>1, VotesAfterMove DEF IInv
<1>3. \A a \in Accounts :
        /\ Cardinality(NounsOf(a))' =
             Cardinality(NounsOf(a)) - Gain(a, from, 1) + Gain(a, to, 1)
        /\ Cardinality(Represented(a))' = Cardinality(Represented(a))
             - Gain(a, Delegates(from), 1) + Gain(a, Delegates(to), 1)
        /\ Cardinality(Represented(a)) \in Nat
        /\ Cardinality(NounsOf(a))' \in Nat
  <2>1. \A a : Cardinality(NounsOf(a))' \in Nat
    <3>1. \A a : NounsOf(a)' \in SUBSET Tokens
      BY DEF NounsOf, Enum!Base!TokensOf
    <3> QED
      BY <3>1, TokensAreNumbers, FS_Subset, FS_CardinalityType
  <2> QED
    BY <1>1, <2>1, CountsAfterMove, FiniteCounts
<1>4. \A a \in Accounts : balances'[a] = Cardinality(NounsOf(a))'
  BY <1>3, OneCardinality
     DEF IInv, Enum!BalancesCountTokens, Enum!Base!BalancesCountTokens,
         NounsOf, MovesNoun
<1>5. TypeOK'
  <2>1. balances' \in [Accounts -> Nat]
    BY <1>3, <1>4 DEF MovesNoun
  <2>2. /\ owners' \in [Tokens -> Addresses]
        /\ tokenApprovals' \in [Tokens -> Addresses]
    BY <1>1 DEF OwnershipTyped, MovesNoun
  <2>3. /\ operatorApprovals' \in [Accounts -> SUBSET Accounts]
        /\ delegatees' \in [Accounts -> Accounts \cup {Zero}]
        /\ nonces' \in [Accounts -> Nat] /\ block' \in Nat
    BY <1>1 DEF MovesNoun, TypeOK, Enum!TypeOK, Enum!Base!TypeOK
  <2> QED
    BY <1>2, <2>1, <2>2, <2>3, ListsStayTyped
       DEF TypeOK, Enum!TypeOK, Enum!Base!TypeOK, Addresses,
           Enum!Base!Addresses
<1>6. Enum!BalancesCountTokens'
  BY <1>4, OneCardinality
     DEF Enum!BalancesCountTokens, Enum!Base!BalancesCountTokens, NounsOf
<1>7. VotesNeverExceedNouns'
  <2>1. ASSUME NEW a \in Accounts
        PROVE  GetCurrentVotes(a)' <= Cardinality(Represented(a))'
    <3>1. GetCurrentVotes(a) <= Cardinality(Represented(a))
      BY DEF IInv, VotesNeverExceedNouns
    <3> QED
      BY <1>2, <1>3, <3>1 DEF Gain
  <2> QED
    BY <2>1 DEF VotesNeverExceedNouns
<1>8. ASSUME VotesMatchDelegation, NEW a \in Accounts
      PROVE  GetCurrentVotes(a)' = Cardinality(Represented(a))'
  BY <1>2, <1>3, <1>8 DEF VotesMatchDelegation
<1> QED
  BY <1>2, <1>5, <1>6, <1>7, <1>8, ListsStayTyped DEF IInv, VotesMatchDelegation

(***************************************************************************)
(* _delegate, also to the zero address, which only a signature can name:   *)
(* then the delegator stands for itself again but gets no votes.           *)
(***************************************************************************)
LEMMA SetDelegateInv ==
  ASSUME IInv, NEW s \in Accounts, NEW d \in Addresses, SetDelegate(s, d),
         UNCHANGED <<tokenVars, block>>, nonces' \in [Accounts -> Nat]
  PROVE  IInv' /\ (VotesMatchDelegation /\ d # Zero => VotesMatchDelegation')
<1> DEFINE n == Cardinality(NounsOf(s))
           src == Delegates(s)
           new == IF d = Zero THEN s ELSE d
<1>1. /\ TypeOK /\ OwnershipTyped /\ balances[s] = n /\ n \in Nat
      /\ owners' = owners /\ delegatees' = [delegatees EXCEPT ![s] = d]
      /\ MoveDelegates(src, d, balances[s]) /\ CheckpointsAscending
  BY TypesSplit, OneCardinality, FiniteCounts
     DEF IInv, SetDelegate, tokenVars, Enum!BalancesCountTokens,
         Enum!Base!BalancesCountTokens, NounsOf
<1> HIDE DEF n
<1>2. /\ checkpoints' \in [Accounts -> Seq(CheckpointType)]
      /\ CheckpointsAscending'
      /\ \A a \in Accounts :
           /\ GetCurrentVotes(a) \in Nat
           /\ GetCurrentVotes(a)' =
                GetCurrentVotes(a) - Gain(a, src, n) + Gain(a, d, n)
  BY <1>1, VotesAfterMove
<1>3. \A a \in Accounts :
        /\ Cardinality(Represented(a))' =
             Cardinality(Represented(a)) - Gain(a, src, n) + Gain(a, new, n)
        /\ Cardinality(Represented(a)) \in Nat
  BY <1>1, CountsAfterDelegation, FiniteCounts DEF n
<1>4. TypeOK'
  <2>1. delegatees' \in [Accounts -> Accounts \cup {Zero}]
    BY <1>1 DEF OwnershipTyped, Addresses
  <2> QED
    BY <1>1, <1>2, <2>1
       DEF TypeOK, Enum!TypeOK, Enum!Base!TypeOK, tokenVars
<1>5. Enum!BalancesCountTokens' /\ SupplyCounted'
  BY DEF IInv, Enum!BalancesCountTokens, Enum!Base!BalancesCountTokens,
         Enum!Base!TokensOf, SupplyCounted, Enum!Base!Exists, tokenVars
<1>6. VotesNeverExceedNouns'
  <2>1. ASSUME NEW a \in Accounts
        PROVE  GetCurrentVotes(a)' <= Cardinality(Represented(a))'
    <3>1. GetCurrentVotes(a) <= Cardinality(Represented(a))
      BY DEF IInv, VotesNeverExceedNouns
    <3>2. Gain(a, d, n) <= Gain(a, new, n)
          /\ Gain(a, d, n) \in Nat /\ Gain(a, new, n) \in Nat
          /\ Gain(a, src, n) \in Nat
      BY <1>1, ZeroIsNoAccount DEF Gain
    <3> QED
      BY <1>2, <1>3, <3>1, <3>2
  <2> QED
    BY <2>1 DEF VotesNeverExceedNouns
<1>7. ASSUME VotesMatchDelegation, d # Zero, NEW a \in Accounts
      PROVE  GetCurrentVotes(a)' = Cardinality(Represented(a))'
  BY <1>2, <1>3, <1>7 DEF VotesMatchDelegation
<1> QED
  BY <1>2, <1>4, <1>5, <1>6, <1>7 DEF IInv, VotesMatchDelegation

LEMMA OtherStepsInv ==
  ASSUME IInv,
         UNCHANGED <<owners, balances, ownedTokens, ownedTokensIndex,
                     allTokens, allTokensIndex, voteVars>>,
         tokenApprovals' \in [Tokens -> Addresses],
         operatorApprovals' \in [Accounts -> SUBSET Accounts],
         block' \in Nat, block <= block'
  PROVE  IInv' /\ (VotesMatchDelegation => VotesMatchDelegation')
<1>1. TypeOK'
  BY DEF IInv, TypeOK, Enum!TypeOK, Enum!Base!TypeOK, voteVars, Addresses,
         Enum!Base!Addresses
<1>2. /\ Enum!BalancesCountTokens' /\ SupplyCounted' /\ VotesNeverExceedNouns'
      /\ VotesMatchDelegation => VotesMatchDelegation'
  BY DEF IInv, Enum!BalancesCountTokens, Enum!Base!BalancesCountTokens,
         Enum!Base!TokensOf, SupplyCounted, Enum!Base!Exists, voteVars,
         VotesNeverExceedNouns, VotesMatchDelegation, GetCurrentVotes,
         Represented, Delegates
<1>3. CheckpointsAscending'
  <2>1. ASSUME NEW a \in Accounts, NEW i \in 1 .. Len(checkpoints[a])
        PROVE  checkpoints[a][i].fromBlock \in Nat
    <3>1. checkpoints[a] \in Seq(CheckpointType)
      BY DEF IInv, TypeOK
    <3>2. checkpoints[a][i] \in CheckpointType
      BY <3>1
    <3> QED
      BY <3>2 DEF CheckpointType
  <2>2. block \in Nat
    BY DEF IInv, TypeOK
  <2> QED
    BY <2>1, <2>2 DEF IInv, CheckpointsAscending, Ascending, voteVars
<1> QED
  BY <1>1, <1>2, <1>3 DEF IInv

\* no delegation to the zero address has been signed
NoZeroSigned == \A sig \in Signatures : sig.delegatee # Zero

LEMMA StepInv ==
  IInv /\ [Next]_vars =>
    /\ IInv'
    /\ NoZeroSigned /\ VotesMatchDelegation => VotesMatchDelegation'
<1> DEFINE Preserved ==
             /\ IInv'
             /\ NoZeroSigned /\ VotesMatchDelegation => VotesMatchDelegation'
<1> SUFFICES ASSUME IInv, [Next]_vars PROVE Preserved
  OBVIOUS
<1>1. /\ TypeOK /\ Zero \in Addresses /\ Accounts \subseteq Addresses
      /\ tokenApprovals \in [Tokens -> Addresses]
      /\ operatorApprovals \in [Accounts -> SUBSET Accounts]
      /\ nonces \in [Accounts -> Nat] /\ block \in Nat
  BY DEF IInv, TypeOK, Enum!TypeOK, Enum!Base!TypeOK, Addresses,
         Enum!Base!Addresses
<1>2. ASSUME NEW to \in Accounts, NEW id \in Tokens, Mint(to, id)
      PROVE  Preserved
  BY <1>1, <1>2, TokenActionsMoveNouns, MovedNounInv
<1>3. ASSUME NEW id \in Tokens, Burn(id)
      PROVE  Preserved
  BY <1>1, <1>3, TokenActionsMoveNouns, MovedNounInv
<1>4. ASSUME NEW sender \in Accounts, NEW from \in Accounts, NEW to \in Accounts,
             NEW id \in Tokens, TransferFrom(sender, from, to, id)
      PROVE  Preserved
  BY <1>1, <1>4, TokenActionsMoveNouns, MovedNounInv
<1>5. ASSUME NEW sender \in Accounts, NEW to \in Approvees \cup {Zero},
             NEW id \in Tokens, Approve(sender, to, id)
      PROVE  Preserved
  <2>1. to \in Addresses
    BY <1>1, ApprovedAreAccounts
  <2>2. tokenApprovals' \in [Tokens -> Addresses]
    BY <1>1, <1>5, <2>1 DEF Approve, Enum!Approve, Enum!Base!Approve
  <2> QED
    BY <1>1, <1>5, <2>2, OtherStepsInv
       DEF Approve, Enum!Approve, Enum!Base!Approve, Enum!ownedVars, Enum!allVars
<1>6. ASSUME NEW sender \in Accounts, NEW operator \in Operators,
             NEW approved \in BOOLEAN, SetApprovalForAll(sender, operator, approved)
      PROVE  Preserved
  <2>1. operatorApprovals' \in [Accounts -> SUBSET Accounts]
    BY <1>1, <1>6, ApprovedAreAccounts
       DEF SetApprovalForAll, Enum!SetApprovalForAll, Enum!Base!SetApprovalForAll
  <2> QED
    BY <1>1, <1>6, <2>1, OtherStepsInv
       DEF SetApprovalForAll, Enum!SetApprovalForAll,
           Enum!Base!SetApprovalForAll, Enum!ownedVars, Enum!allVars
<1>7. ASSUME NEW sender \in Accounts, NEW delegatee \in Accounts \cup {Zero},
             Delegate(sender, delegatee)
      PROVE  Preserved
  BY <1>1, <1>7, ZeroIsNoAccount, SetDelegateInv DEF Delegate
<1>8. ASSUME NEW sig \in Signatures, DelegateBySig(sig)
      PROVE  Preserved
  <2>1. sig.signatory \in Accounts /\ sig.delegatee \in Addresses
    BY SignaturesAreDelegations DEF Addresses
  <2>2. nonces' \in [Accounts -> Nat]
    BY <1>1, <1>8, <2>1 DEF DelegateBySig
  <2> QED
    BY <1>8, <2>1, <2>2, SetDelegateInv DEF DelegateBySig, NoZeroSigned
<1>9. CASE Mine
  BY <1>1, <1>9, OtherStepsInv DEF Mine, tokenVars
<1>10. CASE UNCHANGED vars
  BY <1>1, <1>10, OtherStepsInv DEF vars, tokenVars
<1> QED
  BY <1>2, <1>3, <1>4, <1>5, <1>6, <1>7, <1>8, <1>9, <1>10 DEF Next

-------------------------------------------------------------------------------

THEOREM InvariantHolds == Spec => []IInv
  BY InitInv, StepInv, PTL DEF Spec

(***************************************************************************)
(* Type correctness of the whole token: owners, lists, delegates and       *)
(* checkpoints.  In particular every index of the enumerations is a        *)
(* position and every number of votes is a natural number: the sub96 of    *)
(* _moveDelegates never wraps.                                             *)
(***************************************************************************)
THEOREM TypeCorrect == Spec => []TypeOK
<1>1. IInv => TypeOK
  BY DEF IInv
<1> QED
  BY <1>1, InvariantHolds, PTL

(***************************************************************************)
(* balanceOf counts the nouns of every account, in every state of the      *)
(* whole token (_mint, _burn, _transfer).                                  *)
(***************************************************************************)
THEOREM BalancesCorrect == Spec => []Enum!BalancesCountTokens
<1>1. IInv => Enum!BalancesCountTokens
  BY DEF IInv
<1> QED
  BY <1>1, InvariantHolds, PTL

\* nobody is approved for a noun that does not exist: _mint clears no approval
ApprovedExist == \A id \in Tokens : owners[id] = Zero => tokenApprovals[id] = Zero

\* a noun that changes hands is approved to nobody
ApprovalsDied == \A id \in Tokens : owners'[id] # owners[id] => tokenApprovals'[id] = Zero

\* a step that gives one noun to somebody and approves nobody for it
LEMMA MovedIsUnapproved ==
  ASSUME IInv, ApprovedExist, NEW id \in Tokens, NEW to \in Addresses,
         owners' = [owners EXCEPT ![id] = to],
         \/ tokenApprovals' = [tokenApprovals EXCEPT ![id] = Zero]
         \/ tokenApprovals' = tokenApprovals /\ tokenApprovals[id] = Zero
  PROVE  ApprovedExist' /\ ApprovalsDied
<1>1. owners \in [Tokens -> Addresses] /\ tokenApprovals \in [Tokens -> Addresses]
  BY DEF IInv, TypeOK, Enum!TypeOK, Enum!Base!TypeOK, Addresses, Enum!Base!Addresses
<1>2. \A other \in Tokens : /\ owners'[other] = IF other = id THEN to ELSE owners[other]
                            /\ other # id => tokenApprovals'[other] = tokenApprovals[other]
  BY <1>1
<1>3. tokenApprovals'[id] = Zero
  BY <1>1
<1> QED
  BY <1>2, <1>3 DEF ApprovedExist, ApprovalsDied

\* a step of another kind
LEMMA ApprovalsStay ==
  ASSUME IInv, ApprovedExist, owners' = owners,
         \/ tokenApprovals' = tokenApprovals
         \/ \E id \in Tokens, to \in Addresses :
              owners[id] # Zero /\ tokenApprovals' = [tokenApprovals EXCEPT ![id] = to]
  PROVE  ApprovedExist' /\ ApprovalsDied
<1>1. tokenApprovals \in [Tokens -> Addresses]
  BY DEF IInv, TypeOK, Enum!TypeOK, Enum!Base!TypeOK, Addresses, Enum!Base!Addresses
<1> QED
  BY <1>1 DEF ApprovedExist, ApprovalsDied

(***************************************************************************)
(* No approval outlives the ownership it was given under, though _mint     *)
(* does not clear it: a noun that was burned left none behind (_approve in *)
(* _burn and _transfer).                                                   *)
(***************************************************************************)
THEOREM ApprovalsDie == Spec => Enum!ApprovalsDieWithOwnership
<1>1. Init => ApprovedExist
  BY DEF Init, Enum!Init, Enum!Base!Init, ApprovedExist
<1>2. ASSUME IInv, ApprovedExist, [Next]_vars
      PROVE  ApprovedExist' /\ ApprovalsDied
  <2>1. ASSUME NEW to \in Accounts, NEW id \in Tokens, Mint(to, id)
        PROVE  ApprovedExist' /\ ApprovalsDied
    <3>1. /\ owners' = [owners EXCEPT ![id] = to] /\ tokenApprovals' = tokenApprovals
          /\ owners[id] = Zero /\ to \in Addresses
      BY <2>1 DEF Mint, Enum!Mint, Enum!Base!Mint, Enum!Base!Exists, Addresses
    <3> QED
      BY <1>2, <3>1, MovedIsUnapproved DEF ApprovedExist
  <2>2. ASSUME NEW id \in Tokens, Burn(id)
        PROVE  ApprovedExist' /\ ApprovalsDied
    <3>1. /\ owners' = [owners EXCEPT ![id] = Zero] /\ Zero \in Addresses
          /\ tokenApprovals' = [tokenApprovals EXCEPT ![id] = Zero]
      BY <2>2 DEF Burn, Enum!Burn, Enum!Base!Burn, Addresses
    <3> QED
      BY <1>2, <3>1, MovedIsUnapproved
  <2>3. ASSUME NEW sender \in Accounts, NEW from \in Accounts, NEW to \in Accounts,
               NEW id \in Tokens, TransferFrom(sender, from, to, id)
        PROVE  ApprovedExist' /\ ApprovalsDied
    <3>1. /\ owners' = [owners EXCEPT ![id] = to] /\ to \in Addresses
          /\ tokenApprovals' = [tokenApprovals EXCEPT ![id] = Zero]
      BY <2>3 DEF TransferFrom, Enum!TransferFrom, Enum!Base!TransferFrom, Addresses
    <3> QED
      BY <1>2, <3>1, MovedIsUnapproved
  <2>4. ASSUME NEW sender \in Accounts, NEW to \in Approvees \cup {Zero},
               NEW id \in Tokens, Approve(sender, to, id)
        PROVE  ApprovedExist' /\ ApprovalsDied
    <3>1. to \in Addresses
      BY ApprovedAreAccounts DEF Addresses
    <3>2. /\ owners' = owners /\ owners[id] # Zero
          /\ tokenApprovals' = [tokenApprovals EXCEPT ![id] = to]
      BY <2>4 DEF Approve, Enum!Approve, Enum!Base!Approve, Enum!Base!Exists
    <3> QED
      BY <1>2, <3>1, <3>2, ApprovalsStay
  <2>5. ASSUME NEW sender \in Accounts, NEW operator \in Operators,
               NEW approved \in BOOLEAN, SetApprovalForAll(sender, operator, approved)
        PROVE  ApprovedExist' /\ ApprovalsDied
    BY <1>2, <2>5, ApprovalsStay
       DEF SetApprovalForAll, Enum!SetApprovalForAll, Enum!Base!SetApprovalForAll
  <2>6. ASSUME \/ \E sender \in Accounts, delegatee \in Accounts \cup {Zero} :
                    Delegate(sender, delegatee)
               \/ \E sig \in Signatures : DelegateBySig(sig)
               \/ Mine \/ UNCHANGED vars
        PROVE  ApprovedExist' /\ ApprovalsDied
    <3>1. owners' = owners /\ tokenApprovals' = tokenApprovals
      BY <2>6 DEF Delegate, DelegateBySig, Mine, vars, tokenVars
    <3> QED
      BY <1>2, <3>1, ApprovalsStay
  <2> QED
    BY <1>2, <2>1, <2>2, <2>3, <2>4, <2>5, <2>6 DEF Next
<1>3. IInv /\ ApprovedExist /\ [Next]_vars => ApprovedExist' /\ [ApprovalsDied]_(Enum!Base!ercVars)
  BY <1>2
<1>4. Spec => [][ApprovalsDied]_(Enum!Base!ercVars)
  BY <1>1, <1>3, InvariantHolds, PTL DEF Spec
<1> QED
  BY <1>4 DEF Enum!ApprovalsDieWithOwnership, Enum!Base!ApprovalsDieWithOwnership, ApprovalsDied

(***************************************************************************)
(* Whatever delegations are signed, _moveDelegates never counts a vote     *)
(* twice.                                                                  *)
(***************************************************************************)
THEOREM NoVoteTwice == Spec => []VotesNeverExceedNouns
<1>1. IInv => VotesNeverExceedNouns
  BY DEF IInv
<1> QED
  BY <1>1, InvariantHolds, PTL

(***************************************************************************)
(* _writeCheckpoint keeps every list strictly ascending and in the past.   *)
(***************************************************************************)
THEOREM CheckpointsStayAscending == Spec => []CheckpointsAscending
<1>1. IInv => CheckpointsAscending
  BY DEF IInv
<1> QED
  BY <1>1, InvariantHolds, PTL

(***************************************************************************)
(* As long as nobody signs a delegation to the zero address, the current   *)
(* votes of every account are exactly the nouns it represents: delegates,  *)
(* _delegate and the transfer hook never disagree.  The assumption is      *)
(* needed, as delegateBySig does not replace the zero address.             *)
(***************************************************************************)
THEOREM VotesMatch ==
  ASSUME NoZeroSigned
  PROVE  Spec => []VotesMatchDelegation
<1>1. Init => VotesMatchDelegation
  <2> SUFFICES ASSUME Init, NEW a \in Accounts
               PROVE  GetCurrentVotes(a) = Cardinality(Represented(a))
    BY DEF VotesMatchDelegation
  <2>1. GetCurrentVotes(a) = 0
    BY DEF Init, GetCurrentVotes, Latest
  <2>2. Represented(a) = {}
    BY DEF Represented, Init, Enum!Init, Enum!Base!Init
  <2> QED
    BY <2>1, <2>2, FS_EmptySet
<1>2. IInv /\ VotesMatchDelegation /\ [Next]_vars => VotesMatchDelegation'
  BY StepInv, NoZeroSigned
<1> QED
  BY <1>1, <1>2, InvariantHolds, PTL DEF Spec

(***************************************************************************)
(* Under the same assumption nobody's nouns get stuck: the delegate of an  *)
(* account always has votes for all the account's nouns, so sub96 cannot   *)
(* make a transfer, a burn or a delegation revert.                         *)
(***************************************************************************)
THEOREM NeverFrozen ==
  ASSUME NoZeroSigned
  PROVE  Spec => []NothingFrozen
<1>1. ASSUME IInv, VotesMatchDelegation, NEW a \in Accounts
      PROVE  balances[a] <= GetCurrentVotes(Delegates(a))
  <2>1. Delegates(a) \in Accounts
    BY <1>1, TypesSplit DEF IInv, OwnershipTyped, Delegates, Addresses
  <2>2. NounsOf(a) \in SUBSET Represented(Delegates(a))
    BY ZeroIsNoAccount DEF NounsOf, Enum!Base!TokensOf, Represented
  <2>3. balances[a] = Cardinality(NounsOf(a))
    BY <1>1, OneCardinality
       DEF IInv, Enum!BalancesCountTokens, Enum!Base!BalancesCountTokens, NounsOf
  <2> QED
    BY <1>1, <2>1, <2>2, <2>3, FiniteCounts, FS_Subset DEF VotesMatchDelegation
<1>2. IInv /\ VotesMatchDelegation => NothingFrozen
  BY <1>1 DEF NothingFrozen
<1> QED
  BY <1>2, InvariantHolds, VotesMatch, PTL
-------------------------------------------------------------------------------
(* Past votes are final, and the token implements VotingPower.             *)

(***************************************************************************)
(* _moveDelegates leaves a list alone or writes one checkpoint in the      *)
(* current block.                                                          *)
(***************************************************************************)
LEMMA MoveWrites ==
  ASSUME TypeOK, NEW src, NEW dst, NEW n \in Nat, MoveDelegates(src, dst, n),
         NEW a \in Accounts
  PROVE  \/ checkpoints'[a] = checkpoints[a]
         \/ \E v \in Nat : checkpoints'[a] = Written(checkpoints[a], block, v)
<1>1. /\ checkpoints[a] \in Seq(CheckpointType) /\ block \in Nat
      /\ CanMove(src, dst, n) /\ checkpoints' = MovedDelegates(src, dst, n)
  BY DEF TypeOK, MoveDelegates
<1>2. GetCurrentVotes(a) \in Nat
  BY <1>1, WrittenVotes DEF GetCurrentVotes
<1>3. CASE src = dst \/ n = 0 \/ a \notin {src, dst}
  BY <1>1, <1>3 DEF MovedDelegates
<1>4. CASE src # dst /\ n # 0 /\ a = src
  <2>1. GetCurrentVotes(a) - n \in Nat
    BY <1>1, <1>2, <1>4, ZeroIsNoAccount DEF CanMove
  <2>2. checkpoints'[a] = Written(checkpoints[a], block, GetCurrentVotes(a) - n)
    BY <1>1, <1>4 DEF MovedDelegates
  <2> QED
    BY <2>1, <2>2
<1>5. CASE src # dst /\ n # 0 /\ a = dst
  <2>1. GetCurrentVotes(a) + n \in Nat
    BY <1>2
  <2>2. checkpoints'[a] = Written(checkpoints[a], block, GetCurrentVotes(a) + n)
    BY <1>1, <1>5 DEF MovedDelegates
  <2> QED
    BY <2>1, <2>2
<1> QED
  BY <1>3, <1>4, <1>5

(***************************************************************************)
(* Every step writes at most one checkpoint to the list of an account, and *)
(* it is of the current block.                                             *)
(***************************************************************************)
LEMMA StepWrites ==
  ASSUME IInv, [Next]_vars, NEW a \in Accounts
  PROVE  \/ checkpoints'[a] = checkpoints[a]
         \/ \E v \in Nat : checkpoints'[a] = Written(checkpoints[a], block, v)
<1> DEFINE Writes == \/ checkpoints'[a] = checkpoints[a]
                     \/ \E v \in Nat : checkpoints'[a] = Written(checkpoints[a], block, v)
<1> SUFFICES Writes
  OBVIOUS
<1>1. TypeOK /\ \A s \in Accounts : balances[s] \in Nat
  BY DEF IInv, TypeOK, Enum!TypeOK, Enum!Base!TypeOK
<1>2. ASSUME NEW src, NEW dst, NEW n \in Nat, MoveDelegates(src, dst, n) PROVE Writes
  BY <1>1, <1>2, MoveWrites
<1>3. ASSUME NEW id, NEW to, MovesNoun(id, to) PROVE Writes
  BY <1>2, <1>3 DEF MovesNoun, BeforeTokenTransfer
<1>4. ASSUME NEW s \in Accounts, NEW d, SetDelegate(s, d) PROVE Writes
  BY <1>1, <1>2, <1>4 DEF SetDelegate
<1>5. ASSUME checkpoints' = checkpoints PROVE Writes
  BY <1>5
<1> HIDE DEF Writes
<1>6. CASE \/ \E to \in Accounts, id \in Tokens : Mint(to, id)
           \/ \E id \in Tokens : Burn(id)
           \/ \E sender, from, to \in Accounts, id \in Tokens : TransferFrom(sender, from, to, id)
  BY <1>1, <1>3, <1>6, TokenActionsMoveNouns
<1>7. CASE \E sender \in Accounts, delegatee \in Accounts \cup {Zero} : Delegate(sender, delegatee)
  BY <1>4, <1>7 DEF Delegate
<1>8. CASE \E sig \in Signatures : DelegateBySig(sig)
  BY <1>4, <1>8, SignaturesAreDelegations DEF DelegateBySig
<1>9. CASE \/ \E sender \in Accounts, to \in Approvees \cup {Zero}, id \in Tokens :
                Approve(sender, to, id)
           \/ \E sender \in Accounts, operator \in Operators, approved \in BOOLEAN :
                SetApprovalForAll(sender, operator, approved)
           \/ Mine
           \/ UNCHANGED vars
  BY <1>5, <1>9 DEF Approve, SetApprovalForAll, Mine, voteVars, vars
<1> QED
  BY <1>6, <1>7, <1>8, <1>9 DEF Next

(***************************************************************************)
(* No step changes an answer of getPriorVotes for a finished block.        *)
(***************************************************************************)
LEMMA StepKeepsPast ==
  ASSUME IInv, [Next]_vars, NEW a \in Accounts, NEW b \in 0 .. block - 1
  PROVE  GetPriorVotes(a, b)' = GetPriorVotes(a, b)
<1>1. /\ checkpoints[a] \in Seq(CheckpointType) /\ block \in Nat
      /\ Ascending(checkpoints[a], block)
  BY DEF IInv, TypeOK, CheckpointsAscending
<1>2. CheckpointList(checkpoints[a], Nat) /\ b \in Nat /\ b < block
  BY <1>1 DEF CheckpointList, CheckpointOf, CheckpointType
<1>3. ASSUME NEW v \in Nat, checkpoints'[a] = Written(checkpoints[a], block, v)
      PROVE  ValueAt(checkpoints'[a], 0, b) = ValueAt(checkpoints[a], 0, b)
  BY <1>1, <1>2, <1>3, WrittenKeepsPast
<1> QED
  BY <1>3, StepWrites DEF GetPriorVotes

(***************************************************************************)
(* What getPriorVotes answers for a finished block it answers forever,     *)
(* through every later transfer, delegation and signature, whatever the    *)
(* number of checkpoints.                                                  *)
(***************************************************************************)
THEOREM PastIsFinal == Spec => PastVotesFinal
<1> DEFINE Kept == \A a \in Accounts : \A b \in 0 .. block - 1 :
                     GetPriorVotes(a, b)' = GetPriorVotes(a, b)
<1>1. IInv /\ [Next]_vars => [Kept]_vars
  BY StepKeepsPast
<1> QED
  BY <1>1, InvariantHolds, PTL DEF Spec, PastVotesFinal

-------------------------------------------------------------------------------
(* The refinement of VotingPower.                                          *)

DelegateOf == [a \in Accounts |-> Delegates(a)]

PastVotes == [b \in 0 .. block - 1 |-> [a \in Accounts |-> GetPriorVotes(a, b)]]

(***************************************************************************)
(* VotingPower counts the nouns an account represents.                     *)
(***************************************************************************)
LEMMA VotesAreRepresented ==
  ASSUME TypeOK, NEW a \in Accounts
  PROVE  VP!Votes(a) = Cardinality(Represented(a))
<1>1. \A S : VP!Cardinality(S) = Cardinality(S)
  BY DEF VP!Cardinality, Cardinality
<1>2. \A id \in Tokens : owners[id] # Zero => owners[id] \in Accounts
  BY TypesSplit DEF OwnershipTyped, Addresses
<1>3. {id \in Tokens : owners[id] # Zero /\ DelegateOf[owners[id]] = a} = Represented(a)
  BY <1>2 DEF DelegateOf, Represented
<1> QED
  BY <1>1, <1>3 DEF VP!Votes, DelegateOf

(***************************************************************************)
(* The initial states map to the initial states.                           *)
(***************************************************************************)
LEMMA InitRefines == Init => VP!Init
<1> SUFFICES ASSUME Init PROVE VP!Init
  OBVIOUS
<1>1. owners = [id \in Tokens |-> Zero] /\ block = 1
  BY DEF Init, Enum!Init, Enum!Base!Init
<1>2. DelegateOf = [a \in Accounts |-> a]
  BY DEF Init, DelegateOf, Delegates
<1>3. PastVotes = [b \in {0} |-> [a \in Accounts |-> 0]]
  <2>1. \A a \in Accounts : \A b : GetPriorVotes(a, b) = 0
    BY DEF Init, GetPriorVotes, ValueAt
  <2>2. 0 .. block - 1 = {0}
    BY <1>1
  <2> QED
    BY <2>1, <2>2 DEF PastVotes
<1> QED
  BY <1>1, <1>2, <1>3 DEF VP!Init, DelegateOf, PastVotes

(***************************************************************************)
(* Within a block the record of the past does not change.                  *)
(***************************************************************************)
LEMMA PastVotesKept ==
  ASSUME IInv, [Next]_vars, block' = block
  PROVE  PastVotes' = PastVotes
BY StepKeepsPast DEF PastVotes

(***************************************************************************)
(* A mint, transfer or burn is a Reassign.                                 *)
(***************************************************************************)
LEMMA NounMoveRefines ==
  ASSUME IInv, Next, NEW id \in Tokens, NEW to \in Addresses, MovesNoun(id, to)
  PROVE  VP!Next
<1>1. owners' = [owners EXCEPT ![id] = to] /\ delegatees' = delegatees /\ block' = block
  BY DEF MovesNoun, BeforeTokenTransfer
<1>2. DelegateOf' = DelegateOf
  BY <1>1 DEF DelegateOf, Delegates
<1>3. PastVotes' = PastVotes
  BY <1>1, PastVotesKept
<1>4. VP!Reassign(id, to)
  BY <1>1, <1>2, <1>3 DEF VP!Reassign, DelegateOf, PastVotes
<1> QED
  BY <1>4 DEF VP!Next, Addresses

(***************************************************************************)
(* _delegate to an account is a Delegate.                                  *)
(***************************************************************************)
LEMMA DelegationRefines ==
  ASSUME IInv, Next, NEW s \in Accounts, NEW d \in Accounts, SetDelegate(s, d),
         UNCHANGED <<tokenVars, block>>
  PROVE  VP!Next
<1>1. /\ owners' = owners /\ block' = block
      /\ delegatees' = [delegatees EXCEPT ![s] = d]
      /\ delegatees \in [Accounts -> Addresses]
  BY TypesSplit DEF SetDelegate, tokenVars, IInv, OwnershipTyped
<1>2. DelegateOf' = [DelegateOf EXCEPT ![s] = d]
  BY <1>1, ZeroIsNoAccount DEF DelegateOf, Delegates
<1>3. PastVotes' = PastVotes
  BY <1>1, PastVotesKept
<1>4. VP!Delegate(s, d)
  BY <1>1, <1>2, <1>3 DEF VP!Delegate, DelegateOf, PastVotes
<1> QED
  BY <1>4 DEF VP!Next

(***************************************************************************)
(* The end of a block records the votes of all accounts: getPriorVotes of  *)
(* that block is from now on the number of nouns each represents.          *)
(***************************************************************************)
LEMMA MineRefines ==
  ASSUME IInv, VotesMatchDelegation, Mine
  PROVE  VP!Next
<1>1. /\ block \in Nat /\ block < MaxBlock /\ block' = block + 1
      /\ owners' = owners /\ delegatees' = delegatees /\ checkpoints' = checkpoints
      /\ TypeOK
  BY DEF Mine, IInv, TypeOK, tokenVars, voteVars
<1>2. DelegateOf' = DelegateOf
  BY <1>1 DEF DelegateOf, Delegates
<1>3. \A a \in Accounts : \A b : GetPriorVotes(a, b)' = GetPriorVotes(a, b)
  BY <1>1 DEF GetPriorVotes
<1>4. ASSUME NEW a \in Accounts PROVE GetPriorVotes(a, block) = VP!Votes(a)
  <2>1. CheckpointList(checkpoints[a], Nat) /\ Ascending(checkpoints[a], block)
    BY DEF IInv, TypeOK, CheckpointsAscending, CheckpointList, CheckpointOf, CheckpointType
  <2>2. GetPriorVotes(a, block) = GetCurrentVotes(a)
    BY <1>1, <2>1, ValueAtEnd DEF GetPriorVotes, GetCurrentVotes
  <2> QED
    BY <1>1, <2>2, VotesAreRepresented DEF VotesMatchDelegation
<1>5. PastVotes' = [b \in 0 .. block |-> IF b < block THEN PastVotes[b]
                                         ELSE [a \in Accounts |-> VP!Votes(a)]]
  <2>1. PastVotes' = [b \in 0 .. block |-> [a \in Accounts |-> GetPriorVotes(a, b)]]
    BY <1>1, <1>3 DEF PastVotes
  <2>2. ASSUME NEW b \in 0 .. block
        PROVE  [a \in Accounts |-> GetPriorVotes(a, b)]
                 = IF b < block THEN PastVotes[b] ELSE [a \in Accounts |-> VP!Votes(a)]
    <3>1. CASE b < block
      <4>1. b \in 0 .. block - 1
        BY <1>1, <3>1
      <4> QED
        BY <3>1, <4>1 DEF PastVotes
    <3>2. CASE b = block
      BY <1>1, <1>4, <3>2
    <3> QED
      BY <1>1, <3>1, <3>2
  <2> QED
    BY <2>1, <2>2
<1>6. VP!Mine
  BY <1>1, <1>2, <1>5 DEF VP!Mine, DelegateOf, PastVotes
<1> QED
  BY <1>6 DEF VP!Next

(***************************************************************************)
(* Every step of the token is a step of VotingPower or changes nothing it  *)
(* speaks of.                                                              *)
(***************************************************************************)
LEMMA StepRefines ==
  ASSUME NoZeroSigned, IInv, VotesMatchDelegation, [Next]_vars
  PROVE  [VP!Next]_VP!vpVars
<1>1. TypeOK /\ Zero \in Addresses /\ Accounts \subseteq Addresses
  BY DEF IInv, Addresses
<1>2. ASSUME UNCHANGED <<owners, delegatees, checkpoints, block>>
      PROVE  UNCHANGED VP!vpVars
  <2>1. DelegateOf' = DelegateOf /\ PastVotes' = PastVotes
    BY <1>2 DEF DelegateOf, Delegates, PastVotes, GetPriorVotes
  <2> QED
    BY <1>2, <2>1 DEF VP!vpVars, DelegateOf, PastVotes
<1>3. CASE \/ \E to \in Accounts, id \in Tokens : Mint(to, id)
           \/ \E id \in Tokens : Burn(id)
           \/ \E sender, from, to \in Accounts, id \in Tokens : TransferFrom(sender, from, to, id)
  <2>1. \E id \in Tokens, to \in Addresses : MovesNoun(id, to)
    BY <1>1, <1>3, TokenActionsMoveNouns
  <2>2. Next
    BY <1>3 DEF Next
  <2> QED
    BY <2>1, <2>2, NounMoveRefines
<1>4. ASSUME NEW sender \in Accounts, NEW delegatee \in Accounts \cup {Zero},
             Delegate(sender, delegatee)
      PROVE  VP!Next
  <2>1. Next
    BY <1>4 DEF Next
  <2> QED
    BY <1>4, <2>1, DelegationRefines DEF Delegate
<1>5. ASSUME NEW sig \in Signatures, DelegateBySig(sig)
      PROVE  VP!Next
  <2>1. Next /\ sig.signatory \in Accounts /\ sig.delegatee \in Accounts
    BY <1>5, SignaturesAreDelegations DEF Next, NoZeroSigned
  <2> QED
    BY <1>5, <2>1, DelegationRefines DEF DelegateBySig
<1>6. CASE \/ \E sender \in Accounts, to \in Approvees \cup {Zero}, id \in Tokens :
                Approve(sender, to, id)
           \/ \E sender \in Accounts, operator \in Operators, approved \in BOOLEAN :
                SetApprovalForAll(sender, operator, approved)
           \/ UNCHANGED vars
  <2>1. UNCHANGED <<owners, delegatees, checkpoints, block>>
    BY <1>6 DEF Approve, Enum!Approve, Enum!Base!Approve, SetApprovalForAll,
                Enum!SetApprovalForAll, Enum!Base!SetApprovalForAll, voteVars, vars, tokenVars
  <2> QED
    BY <1>2, <2>1
<1>7. CASE Mine
  BY <1>7, MineRefines
<1> QED
  BY <1>3, <1>4, <1>5, <1>6, <1>7 DEF Next

(***************************************************************************)
(* The token implements VotingPower as long as no delegation to the zero   *)
(* address is signed: every answer of getPriorVotes is the number of nouns *)
(* the account represented when that block ended.                          *)
(***************************************************************************)
THEOREM TokenImplementsVotingPower ==
  ASSUME NoZeroSigned
  PROVE  Spec => ImplementsVotingPower
<1>1. IInv /\ VotesMatchDelegation /\ [Next]_vars => [VP!Next]_VP!vpVars
  BY NoZeroSigned, StepRefines
<1> QED
  BY <1>1, InitRefines, InvariantHolds, VotesMatch, PTL
     DEF Spec, ImplementsVotingPower, VP!Spec
-------------------------------------------------------------------------------
(* The enumerations of ERC721Enumerable.                                   *)

\* the first n slots of a list hold exactly the nouns S, with back-pointers,
\* and the slots beyond them nothing
Enumerates(list, index, n, S) ==
  /\ {list[i] : i \in 0 .. n - 1} = S
  /\ \A i \in 0 .. n - 1 : index[list[i]] = i
  /\ \A i \in Enum!Slots : i >= n => list[i] = 0

\* only the back-pointers of the nouns in the list matter
LEMMA EnumeratesSame ==
  ASSUME NEW list, NEW index, NEW index2, NEW n, NEW S, Enumerates(list, index, n, S),
         \A t \in S : index2[t] = index[t]
  PROVE  Enumerates(list, index2, n, S)
BY DEF Enumerates

(***************************************************************************)
(* _addTokenToOwnerEnumeration: a noun that is not in the list is put into *)
(* the first free slot.                                                    *)
(***************************************************************************)
LEMMA AddedIsEnumerated ==
  ASSUME NEW list \in [Enum!Slots -> Tokens \cup {0}], NEW index \in [Tokens -> Nat],
         NEW n \in Enum!Slots, NEW S \in SUBSET Tokens, Enumerates(list, index, n, S),
         NEW id \in Tokens \ S
  PROVE  Enumerates([list EXCEPT ![n] = id], [index EXCEPT ![id] = n], n + 1, S \cup {id})
<1> DEFINE list2  == [list EXCEPT ![n] = id]
           index2 == [index EXCEPT ![id] = n]
<1>1. n \in Nat /\ 0 .. n \subseteq Enum!Slots /\ Enum!Slots \subseteq Nat
  BY SlotsAreNumbers
<1>2. \A i \in 0 .. n - 1 : list[i] \in S /\ index[list[i]] = i
  BY DEF Enumerates
<1>3. \A i \in 0 .. n - 1 : list2[i] = list[i]
  BY <1>1
<1>4. list2[n] = id
  BY <1>1
<1>5. 0 .. (n + 1) - 1 = (0 .. n - 1) \cup {n}
  BY <1>1
<1>6. {list2[i] : i \in 0 .. (n + 1) - 1} = S \cup {id}
  <2>1. {list2[i] : i \in 0 .. (n + 1) - 1} = {list2[i] : i \in 0 .. n - 1} \cup {list2[n]}
    BY <1>5
  <2>2. {list2[i] : i \in 0 .. n - 1} = {list[i] : i \in 0 .. n - 1}
    BY <1>3
  <2> QED
    BY <2>1, <2>2, <1>4 DEF Enumerates
<1>7. \A i \in 0 .. (n + 1) - 1 : index2[list2[i]] = i
  <2>1. \A i \in 0 .. n - 1 : index2[list2[i]] = i
    BY <1>2, <1>3
  <2>2. index2[list2[n]] = n
    BY <1>4
  <2> QED
    BY <1>5, <2>1, <2>2
<1>8. \A i \in Enum!Slots : i >= n + 1 => list2[i] = 0
  BY <1>1 DEF Enumerates
<1> QED
  BY <1>6, <1>7, <1>8 DEF Enumerates

AgreeOn(S, f, g) == \A t \in S : f[t] = g[t]

\* what the removal does to a list of n nouns
SwappedAndPopped(list, index, n, id, list2, index2) ==
  IF index[id] # n - 1
  THEN /\ list2 = [[list EXCEPT ![index[id]] = list[n - 1]] EXCEPT ![n - 1] = 0]
       /\ index2 = [[index EXCEPT ![list[n - 1]] = index[id]] EXCEPT ![id] = 0]
  ELSE /\ list2 = [list EXCEPT ![n - 1] = 0]
       /\ index2 = [index EXCEPT ![id] = 0]

(***************************************************************************)
(* _removeTokenFromOwnerEnumeration: the last noun of the list takes the   *)
(* place of the one removed, and the last slot is cleared.                 *)
(***************************************************************************)
LEMMA RemovedIsEnumerated ==
  ASSUME NEW list \in [Enum!Slots -> Tokens \cup {0}], NEW index \in [Tokens -> Nat],
         NEW n \in Nat, n - 1 \in Enum!Slots, NEW S \in SUBSET Tokens,
         Enumerates(list, index, n, S), NEW id \in S,
         NEW list2, NEW index2,
         SwappedAndPopped(list, index, n, id, list2, index2)
  PROVE  /\ Enumerates(list2, index2, n - 1, S \ {id})
         /\ AgreeOn(Tokens \ S, index2, index)
<1> DEFINE last == n - 1
           pos  == index[id]
<1>1. last \in Nat /\ 0 .. last \subseteq Enum!Slots /\ Enum!Slots \subseteq Nat
  BY SlotsAreNumbers
<1>2. \A i \in 0 .. last : list[i] \in S /\ index[list[i]] = i
  BY DEF Enumerates
<1>3. pos \in 0 .. last /\ list[pos] = id
  <2>1. PICK i \in 0 .. last : list[i] = id
    BY DEF Enumerates
  <2> QED
    BY <1>2, <2>1
<1>4. \A i \in 0 .. last : list[i] = id => i = pos
  BY <1>2
<1>5. \A i \in 0 .. last, j \in 0 .. last : list[i] = list[j] => i = j
  BY <1>2
<1>6. \A i \in Enum!Slots :
        list2[i] = IF i = last THEN 0 ELSE IF i = pos THEN list[last] ELSE list[i]
  BY <1>1, <1>3 DEF SwappedAndPopped
<1>7. \A t \in Tokens :
        index2[t] = IF t = id THEN 0 ELSE IF t = list[last] THEN pos ELSE index[t]
  BY <1>1, <1>2, <1>3 DEF SwappedAndPopped
<1> HIDE DEF pos
<1>8. \A i \in 0 .. last - 1 : list2[i] = IF i = pos THEN list[last] ELSE list[i]
  BY <1>1, <1>6
<1>9. ASSUME NEW i \in 0 .. last - 1
      PROVE  list2[i] \in S \ {id} /\ index2[list2[i]] = i
  <2>1. i \in 0 .. last /\ last \in 0 .. last /\ i # last
    BY <1>1
  <2>2. CASE i = pos
    <3>1. list2[i] = list[last] /\ list[last] \in S /\ list[last] # id
      BY <1>2, <1>4, <1>8, <2>1, <2>2
    <3> QED
      BY <1>7, <2>2, <3>1
  <2>3. CASE i # pos
    <3>1. list2[i] = list[i] /\ list[i] \in S /\ list[i] # id /\ list[i] # list[last]
      BY <1>2, <1>4, <1>5, <1>8, <2>1, <2>3
    <3> QED
      BY <1>2, <1>7, <2>1, <3>1
  <2> QED
    BY <2>2, <2>3
<1>10. ASSUME NEW t \in S, t # id
       PROVE  \E i \in 0 .. last - 1 : list2[i] = t
  <2>1. PICK j \in 0 .. last : list[j] = t
    BY DEF Enumerates
  <2>2. j # pos
    BY <1>3, <1>10, <2>1
  <2>3. CASE j = last
    <3>1. pos \in 0 .. last - 1 /\ list2[pos] = t
      BY <1>1, <1>3, <1>8, <2>1, <2>2, <2>3
    <3> QED
      BY <3>1
  <2>4. CASE j # last
    <3>1. j \in 0 .. last - 1
      BY <1>1, <2>4
    <3> QED
      BY <1>8, <2>1, <2>2, <3>1
  <2> QED
    BY <2>3, <2>4
<1>11. {list2[i] : i \in 0 .. (n - 1) - 1} = S \ {id}
  BY <1>9, <1>10
<1>12. \A i \in Enum!Slots : i >= n - 1 => list2[i] = 0
  <2>1. ASSUME NEW i \in Enum!Slots, i >= last PROVE list2[i] = 0
    <3>1. i # last => i # pos /\ i >= n
      BY <1>1, <1>3, <2>1
    <3> QED
      BY <1>6, <3>1 DEF Enumerates
  <2> QED
    BY <2>1
<1>13. \A t \in Tokens \ S : index2[t] = index[t]
  BY <1>1, <1>2, <1>7
<1> QED
  BY <1>9, <1>11, <1>12, <1>13 DEF Enumerates, AgreeOn

(***************************************************************************)
(* A mint, transfer or burn keeps the list of all nouns exact.             *)
(***************************************************************************)
LEMMA AllTokensStayListed ==
  ASSUME IInv, Enum!AllTokensListed, NEW id \in Tokens, NEW to \in Addresses,
         MovesNoun(id, to)
  PROVE  Enum!AllTokensListed'
<1> DEFINE from == owners[id]
           all  == {t \in Tokens : Enum!Base!Exists(t)}
<1>1. /\ owners \in [Tokens -> Addresses]
      /\ allTokens \in Seq(Tokens) /\ Len(allTokens) \in Nat
      /\ allTokensIndex \in [Tokens -> Enum!Slots]
      /\ \A t \in Tokens : owners'[t] = IF t = id THEN to ELSE owners[t]
      /\ from # Zero \/ to # Zero
  BY DEF IInv, TypeOK, Enum!TypeOK, Enum!Base!TypeOK, Enum!Base!Addresses,
         Addresses, MovesNoun
<1>2. /\ \A i \in 1 .. Len(allTokens) :
           allTokens[i] \in all /\ allTokensIndex[allTokens[i]] = i - 1
      /\ \A t \in all : \E i \in 1 .. Len(allTokens) : allTokens[i] = t
  BY <1>1 DEF Enum!AllTokensListed
<1>3. id \in all <=> from # Zero
  BY DEF Enum!Base!Exists
<1>4. all' = IF to # Zero THEN all \cup {id} ELSE all \ {id}
  BY <1>1 DEF Enum!Base!Exists
<1> SUFFICES /\ \A i \in 1 .. Len(allTokens') :
                  /\ allTokens'[i] \in all'
                  /\ allTokensIndex'[allTokens'[i]] = i - 1
             /\ \A t \in all' : \E i \in 1 .. Len(allTokens') : allTokens'[i] = t
             /\ DOMAIN allTokens' = 1 .. Len(allTokens')
  BY DEF Enum!AllTokensListed
<1> HIDE DEF all, from
<1>5. CASE from = Zero
  <2>1. /\ allTokensIndex' = [allTokensIndex EXCEPT ![id] = Len(allTokens)]
        /\ allTokens' = Append(allTokens, id)
    BY <1>5 DEF MovesNoun, Enum!BeforeTokenTransfer, Enum!AddToAll, from
  <2>2. /\ Len(allTokens') = Len(allTokens) + 1
        /\ allTokens'[Len(allTokens) + 1] = id
        /\ \A i \in 1 .. Len(allTokens) : allTokens'[i] = allTokens[i]
        /\ DOMAIN allTokens' = 1 .. Len(allTokens')
    BY <1>1, <2>1
  <2>3. id \notin all /\ all' = all \cup {id}
    BY <1>1, <1>3, <1>4, <1>5
  <2>4. \A i \in 1 .. Len(allTokens') : i \in 1 .. Len(allTokens) \/ i = Len(allTokens) + 1
    BY <1>1, <2>2
  <2>5. all \subseteq Tokens
    BY DEF all
  <2>6. /\ \A i \in 1 .. Len(allTokens) : allTokensIndex'[allTokens[i]] = i - 1
        /\ allTokensIndex'[id] = (Len(allTokens) + 1) - 1
    BY <1>1, <1>2, <2>1, <2>3, <2>5
  <2>7. /\ 1 .. Len(allTokens) \subseteq 1 .. Len(allTokens')
        /\ Len(allTokens) + 1 \in 1 .. Len(allTokens')
    BY <1>1, <2>2
  <2>8. ASSUME NEW i \in 1 .. Len(allTokens')
        PROVE  allTokens'[i] \in all' /\ allTokensIndex'[allTokens'[i]] = i - 1
    BY <1>2, <2>2, <2>3, <2>4, <2>6
  <2>9. ASSUME NEW t \in all' PROVE \E i \in 1 .. Len(allTokens') : allTokens'[i] = t
    BY <1>2, <2>2, <2>3, <2>7
  <2> QED
    BY <2>2, <2>8, <2>9
<1>6. CASE from # Zero /\ to = Zero
  <2> DEFINE n    == Len(allTokens)
             pos  == allTokensIndex[id] + 1
             swapped == [allTokens EXCEPT ![pos] = allTokens[n]]
  <2>1. /\ allTokens' = SubSeq([allTokens EXCEPT ![allTokensIndex[id] + 1] =
                                  allTokens[(Len(allTokens) - 1) + 1]],
                               1, Len(allTokens) - 1)
        /\ allTokensIndex' =
             [[allTokensIndex EXCEPT ![allTokens[(Len(allTokens) - 1) + 1]] =
                                        allTokensIndex[id]] EXCEPT ![id] = 0]
    BY <1>6, ZeroIsNoAccount
       DEF MovesNoun, Enum!BeforeTokenTransfer, Enum!RemoveFromAll, from
  <2>2. id \in all /\ all' = all \ {id} /\ all \subseteq Tokens
    BY <1>3, <1>4, <1>6 DEF all
  <2>3. PICK j \in 1 .. n : allTokens[j] = id
    BY <1>2, <2>2
  <2>4. pos = j /\ n \in Nat \ {0} /\ allTokensIndex[id] = pos - 1 /\ (n - 1) + 1 = n
    BY <1>1, <1>2, <2>3
  <2>5. /\ allTokens' = SubSeq(swapped, 1, n - 1)
        /\ allTokensIndex' = [[allTokensIndex EXCEPT ![allTokens[n]] = pos - 1]
                                EXCEPT ![id] = 0]
    BY <2>1, <2>4
  <2> HIDE DEF pos
  <2>6. /\ swapped \in Seq(Tokens) /\ Len(swapped) = n
        /\ \A i \in 1 .. n : swapped[i] = IF i = pos THEN allTokens[n] ELSE allTokens[i]
    <3>1. allTokens \in [1 .. n -> Tokens]
      BY <1>1
    <3>2. allTokens[n] \in Tokens
      BY <3>1, <2>4
    <3>3. swapped \in [1 .. n -> Tokens]
      BY <3>1, <3>2
    <3>4. \A i \in 1 .. n : swapped[i] = IF i = pos THEN allTokens[n] ELSE allTokens[i]
      BY <3>1
    <3> HIDE DEF swapped
    <3>5. swapped \in Seq(Tokens) /\ DOMAIN swapped = 1 .. n
      BY <1>1, <3>3, SeqDef
    <3> QED
      BY <1>1, <3>4, <3>5, LenProperties
  <2> HIDE DEF swapped
  <2>7. /\ Len(allTokens') = n - 1
        /\ \A i \in 1 .. n - 1 : allTokens'[i] = swapped[i]
        /\ DOMAIN allTokens' = 1 .. Len(allTokens')
    BY <2>4, <2>5, <2>6
  <2>8. \A i \in 1 .. n, k \in 1 .. n : allTokens[i] = allTokens[k] => i = k
    BY <1>2
  <2>9. \A t \in Tokens : allTokensIndex'[t] =
          IF t = id THEN 0 ELSE IF t = allTokens[n] THEN pos - 1 ELSE allTokensIndex[t]
    <3>1. allTokens[n] \in Tokens
      BY <1>2, <2>2, <2>4
    <3> QED
      BY <1>1, <2>5, <3>1
  <2>0. /\ \A i \in 1 .. n : allTokens[i] \in all /\ allTokensIndex[allTokens[i]] = i - 1
        /\ \A t \in all : \E i \in 1 .. n : allTokens[i] = t
    BY <1>2
  <2> HIDE DEF n
  <2>10. ASSUME NEW i \in 1 .. n - 1
         PROVE  allTokens'[i] \in all' /\ allTokensIndex'[allTokens'[i]] = i - 1
    <3>1. i \in 1 .. n /\ n \in 1 .. n /\ i # n /\ pos \in 1 .. n
      BY <2>3, <2>4
    <3>2. CASE i = pos
      <4>1. allTokens'[i] = allTokens[n] /\ allTokens[n] \in all /\ allTokens[n] # id
        BY <2>0, <2>3, <2>4, <2>6, <2>7, <2>8, <3>1, <3>2
      <4> QED
        BY <2>2, <2>9, <3>2, <4>1
    <3>3. CASE i # pos
      <4>1. /\ allTokens'[i] = allTokens[i] /\ allTokens[i] \in all
            /\ allTokens[i] # id /\ allTokens[i] # allTokens[n]
        BY <2>0, <2>3, <2>4, <2>6, <2>7, <2>8, <3>1, <3>3
      <4> QED
        BY <2>0, <2>2, <2>9, <3>1, <4>1
    <3> QED
      BY <3>2, <3>3
  <2>11. ASSUME NEW t \in all, t # id
         PROVE  \E i \in 1 .. n - 1 : allTokens'[i] = t
    <3>1. PICK k \in 1 .. n : allTokens[k] = t
      BY <2>0
    <3>2. k # pos
      BY <2>3, <2>4, <2>11, <3>1
    <3>3. CASE k = n
      <4>1. pos \in 1 .. n - 1 /\ pos \in 1 .. n
        BY <2>3, <2>4, <3>2, <3>3
      <4> QED
        BY <2>6, <2>7, <3>1, <3>3, <4>1
    <3>4. CASE k # n
      <4>1. k \in 1 .. n - 1
        BY <2>4, <3>4
      <4> QED
        BY <2>6, <2>7, <3>1, <3>2, <4>1
    <3> QED
      BY <3>3, <3>4
  <2> QED
    BY <2>2, <2>7, <2>10, <2>11
<1>7. CASE from # Zero /\ to # Zero
  <2>1. allTokens' = allTokens /\ allTokensIndex' = allTokensIndex /\ all' = all
    BY <1>3, <1>4, <1>7 DEF MovesNoun, Enum!BeforeTokenTransfer, Enum!allVars, from
  <2> QED
    BY <1>1, <1>2, <2>1
<1> QED
  BY <1>1, <1>5, <1>6, <1>7

(***************************************************************************)
(* A mint, transfer or burn keeps the list of every account exact.  What   *)
(* the hook does to the list of one account leaves the back-pointers of    *)
(* the others' nouns alone.                                                *)
(***************************************************************************)
LEMMA OwnedTokensStayListed ==
  ASSUME IInv, Enum!OwnedTokensListed, NEW id \in Tokens, NEW to \in Addresses,
         MovesNoun(id, to)
  PROVE  Enum!OwnedTokensListed'
<1> DEFINE from == owners[id]
           removed == IF from = Zero THEN <<ownedTokens, ownedTokensIndex>>
                      ELSE Enum!RemovedFromOwner(from, id)
           S1 == [a \in Accounts |-> NounsOf(a) \ {id}]
           n1 == [a \in Accounts |-> balances[a] - Gain(a, from, 1)]
<1>1. /\ owners \in [Tokens -> Addresses]
      /\ balances \in [Accounts -> Nat]
      /\ ownedTokens \in [Accounts -> [Enum!Slots -> Tokens \cup {0}]]
      /\ ownedTokensIndex \in [Tokens -> Enum!Slots]
      /\ owners' = [owners EXCEPT ![id] = to]
      /\ \A a \in Accounts :
           balances'[a] = balances[a] - Gain(a, from, 1) + Gain(a, to, 1)
      /\ from # Zero \/ to # Zero
  BY DEF IInv, TypeOK, Enum!TypeOK, Enum!Base!TypeOK, Enum!Base!Addresses,
         Addresses, MovesNoun
<1>2. \A a \in Accounts : Enumerates(ownedTokens[a], ownedTokensIndex, balances[a], NounsOf(a))
  BY DEF Enum!OwnedTokensListed, Enumerates, NounsOf
<1>3. SUFFICES \A a \in Accounts :
        Enumerates(ownedTokens'[a], ownedTokensIndex', balances'[a], NounsOf(a)')
  BY DEF Enum!OwnedTokensListed, Enumerates, NounsOf
<1>4. /\ \A a : NounsOf(a) \in SUBSET Tokens
      /\ \A a : id \in NounsOf(a) <=> from = a
      /\ \A a : NounsOf(a)' = IF a = to THEN NounsOf(a) \cup {id} ELSE NounsOf(a) \ {id}
      /\ \A a, b : a # b => NounsOf(a) \cap NounsOf(b) = {}
  BY <1>1 DEF NounsOf, Enum!Base!TokensOf
<1>5. Enum!Slots \subseteq Nat
  BY SlotsAreNumbers
<1>6. /\ from # Zero => from \in Accounts /\ balances[from] - 1 \in Enum!Slots
      /\ to # Zero /\ to # from => to \in Accounts /\ balances[to] \in Enum!Slots
  BY BalancesAreSlots
<1> HIDE DEF from
<1>7. CASE from = to
  <2>1. ownedTokens' = ownedTokens /\ ownedTokensIndex' = ownedTokensIndex
    BY <1>7 DEF MovesNoun, Enum!BeforeTokenTransfer, Enum!ownedVars, from
  <2>2. ASSUME NEW a \in Accounts
        PROVE  balances'[a] = balances[a] /\ NounsOf(a)' = NounsOf(a)
    <3>1. balances'[a] = balances[a]
      BY <1>1, <1>7 DEF Gain
    <3>2. NounsOf(a)' = NounsOf(a)
      BY <1>4, <1>7
    <3> QED
      BY <3>1, <3>2
  <2> QED
    BY <1>2, <2>1, <2>2
<1>8. CASE from # to
  <2>1. /\ removed[1] \in [Accounts -> [Enum!Slots -> Tokens \cup {0}]]
        /\ removed[2] \in [Tokens -> Enum!Slots]
    BY <1>1, <1>6, RemovedIsTyped
  <2>2. ASSUME NEW a \in Accounts
        PROVE  Enumerates(removed[1][a], removed[2], n1[a], S1[a])
    <3>1. CASE from = Zero
      <4>1. n1[a] = balances[a] /\ S1[a] = NounsOf(a)
        BY <1>1, <1>4, <3>1, ZeroIsNoAccount DEF Gain
      <4> QED
        BY <1>2, <3>1, <4>1
    <3>2. CASE from # Zero
      <4> DEFINE R == Enum!RemovedFromOwner(from, id)
                 index2 == R[2]
                 pos == ownedTokensIndex[id]
                 last == balances[from] - 1
      <4>1. from \in Accounts /\ last \in Enum!Slots
        BY <1>6, <3>2
      <4>2. /\ IF pos # last
               THEN /\ R[1][from] = [[ownedTokens[from] EXCEPT
                                        ![pos] = ownedTokens[from][last]] EXCEPT ![last] = 0]
                    /\ index2 = [[ownedTokensIndex EXCEPT
                                    ![ownedTokens[from][last]] = pos] EXCEPT ![id] = 0]
               ELSE /\ R[1][from] = [ownedTokens[from] EXCEPT ![last] = 0]
                    /\ index2 = [ownedTokensIndex EXCEPT ![id] = 0]
            /\ \A b \in Accounts \ {from} : R[1][b] = ownedTokens[b]
        BY <1>1, <4>1 DEF Enum!RemovedFromOwner
      <4>3. removed = R
        BY <3>2
      <4>4. /\ ownedTokens[from] \in [Enum!Slots -> Tokens \cup {0}]
            /\ ownedTokensIndex \in [Tokens -> Nat]
            /\ balances[from] \in Nat /\ NounsOf(from) \in SUBSET Tokens
            /\ id \in NounsOf(from)
            /\ Enumerates(ownedTokens[from], ownedTokensIndex, balances[from],
                          NounsOf(from))
        BY <1>1, <1>2, <1>4, <1>5, <4>1
      <4> HIDE DEF R, removed, index2, pos, last
      <4>5. /\ Enumerates(R[1][from], index2, balances[from] - 1, NounsOf(from) \ {id})
            /\ \A t \in Tokens \ NounsOf(from) : index2[t] = ownedTokensIndex[t]
        <5> DEFINE list == ownedTokens[from]
                   n    == balances[from]
                   S    == NounsOf(from)
                   list2 == R[1][from]
        <5>1. /\ list \in [Enum!Slots -> Tokens \cup {0}] /\ n \in Nat
              /\ ownedTokensIndex \in [Tokens -> Nat]
              /\ n - 1 \in Enum!Slots /\ S \in SUBSET Tokens /\ id \in S
              /\ Enumerates(list, ownedTokensIndex, n, S)
              /\ SwappedAndPopped(list, ownedTokensIndex, n, id, list2, index2)
          BY <4>1, <4>2, <4>4 DEF pos, last, SwappedAndPopped
        <5> HIDE DEF list, n, S, list2
        <5>2. Enumerates(list2, index2, n - 1, S \ {id})
          BY <5>1, RemovedIsEnumerated
        <5>3. AgreeOn(Tokens \ S, index2, ownedTokensIndex)
          BY <5>1, <5>2, RemovedIsEnumerated
        <5> QED
          BY <5>2, <5>3 DEF list, n, S, list2, AgreeOn
      <4>6. CASE a = from
        <5>1. n1[a] = balances[from] - 1 /\ S1[a] = NounsOf(from) \ {id}
          BY <4>6 DEF Gain
        <5> QED
          BY <4>3, <4>5, <4>6, <5>1 DEF index2
      <4>7. CASE a # from
        <5>1. n1[a] = balances[a] /\ S1[a] = NounsOf(a)
          BY <1>1, <1>4, <4>7 DEF Gain
        <5>2. \A t \in NounsOf(a) : index2[t] = ownedTokensIndex[t]
          BY <1>4, <4>5, <4>7
        <5>3. R[1][a] = ownedTokens[a]
          BY <4>2, <4>7
        <5> QED
          BY <1>2, <4>3, <5>1, <5>2, <5>3, EnumeratesSame DEF index2
      <4> QED
        BY <4>6, <4>7
    <3> QED
      BY <3>1, <3>2
  <2>3. /\ \A a \in Accounts : S1[a] = NounsOf(a) \ {id}
        /\ \A a \in Accounts : n1[a] = balances[a] - Gain(a, from, 1)
    OBVIOUS
  <2>4. <<ownedTokens', ownedTokensIndex'>> =
          IF to = Zero THEN removed ELSE Enum!AddedToOwner(removed, to, id)
    <3>1. /\ Enum!BeforeTokenTransfer(from, to, id)
          /\ from = Zero => to # Zero
      BY <1>8 DEF MovesNoun, from
    <3> DEFINE pair ==
           CASE from = to   -> Enum!ownedVars
             [] from = Zero -> Enum!AddedToOwner(Enum!ownedVars, to, id)
             [] to = Zero   -> Enum!RemovedFromOwner(from, id)
             [] OTHER       -> Enum!AddedToOwner(Enum!RemovedFromOwner(from, id), to, id)
    <3>2. ownedTokens' = pair[1] /\ ownedTokensIndex' = pair[2]
      BY <3>1 DEF Enum!BeforeTokenTransfer
    <3>4. pair = IF to = Zero THEN removed ELSE Enum!AddedToOwner(removed, to, id)
      BY <1>8, <3>1 DEF Enum!ownedVars
    <3>5. pair = <<pair[1], pair[2]>>
      <4>1. to # Zero => pair = <<pair[1], pair[2]>>
        BY <3>4 DEF Enum!AddedToOwner
      <4>2. removed = <<removed[1], removed[2]>>
        BY <1>6, <1>1, RemovedIsTyped
      <4> QED
        BY <3>4, <4>1, <4>2
    <3> QED
      BY <3>2, <3>4, <3>5
  <2> HIDE DEF removed, S1, n1
  <2>5. CASE to = Zero
    <3>1. ownedTokens' = removed[1] /\ ownedTokensIndex' = removed[2]
      BY <2>4, <2>5
    <3>2. ASSUME NEW a \in Accounts
          PROVE  balances'[a] = n1[a] /\ NounsOf(a)' = S1[a]
      <4>1. a # to /\ Gain(a, to, 1) = 0
        BY <2>5, ZeroIsNoAccount DEF Gain
      <4>2. Gain(a, from, 1) \in Int
        BY DEF Gain
      <4>3. balances'[a] = n1[a]
        BY <1>1, <2>3, <4>1, <4>2
      <4>4. NounsOf(a)' = S1[a]
        BY <1>4, <2>3, <4>1
      <4> QED
        BY <4>3, <4>4
    <3> QED
      BY <2>2, <3>1, <3>2
  <2>6. CASE to # Zero
    <3>1. /\ ownedTokens' = [removed[1] EXCEPT ![to][balances[to]] = id]
          /\ ownedTokensIndex' = [removed[2] EXCEPT ![id] = balances[to]]
      BY <2>4, <2>6 DEF Enum!AddedToOwner
    <3>2. to \in Accounts /\ balances[to] \in Enum!Slots
      BY <1>6, <1>8, <2>6
    <3>3. /\ ownedTokens'[to] = [removed[1][to] EXCEPT ![balances[to]] = id]
          /\ \A a \in Accounts \ {to} : ownedTokens'[a] = removed[1][a]
      BY <2>1, <3>1, <3>2
    <3>4. /\ n1[to] = balances[to] /\ balances'[to] = balances[to] + 1
          /\ \A a \in Accounts \ {to} : balances'[a] = n1[a]
      BY <1>1, <1>8, <2>3, <3>2 DEF Gain
    <3>5. /\ NounsOf(to)' = S1[to] \cup {id} /\ S1[to] \in SUBSET Tokens
          /\ \A a \in Accounts \ {to} : NounsOf(a)' = S1[a]
          /\ \A a \in Accounts : id \notin S1[a]
      BY <1>4, <2>3, <3>2
    <3>6. ASSUME NEW a \in Accounts
          PROVE  Enumerates(ownedTokens'[a], ownedTokensIndex', balances'[a], NounsOf(a)')
      <4>1. CASE a = to
        <5>1. /\ removed[1][to] \in [Enum!Slots -> Tokens \cup {0}]
              /\ removed[2] \in [Tokens -> Nat] /\ id \in Tokens \ S1[to]
          BY <1>5, <2>1, <3>2, <3>5
        <5>2. Enumerates(removed[1][to], removed[2], balances[to], S1[to])
          BY <2>2, <3>2, <3>4
        <5>3. Enumerates([removed[1][to] EXCEPT ![balances[to]] = id],
                         [removed[2] EXCEPT ![id] = balances[to]],
                         balances[to] + 1, S1[to] \cup {id})
          BY <3>2, <3>5, <5>1, <5>2, AddedIsEnumerated
        <5> QED
          BY <3>1, <3>3, <3>4, <3>5, <4>1, <5>3
      <4>2. CASE a # to
        <5>1. \A t \in S1[a] : ownedTokensIndex'[t] = removed[2][t]
          BY <2>1, <3>1, <3>5, <1>4, <2>3
        <5>2. Enumerates(removed[1][a], removed[2], n1[a], S1[a])
          BY <2>2
        <5>3. Enumerates(removed[1][a], ownedTokensIndex', n1[a], S1[a])
          BY <5>1, <5>2, EnumeratesSame
        <5> QED
          BY <3>3, <3>4, <3>5, <4>2, <5>3
      <4> QED
        BY <4>1, <4>2
    <3> QED
      BY <3>6
  <2> QED
    BY <2>5, <2>6
<1> QED
  BY <1>7, <1>8

\* both enumerations are exact
Enumerated == Enum!AllTokensListed /\ Enum!OwnedTokensListed

\* both lists are empty before the first mint
LEMMA EnumeratedInitially == Init => Enumerated
<1> SUFFICES ASSUME Init PROVE Enumerated
  OBVIOUS
<1> USE DEF Init, Enum!Init, Enum!Base!Init
<1>1. Enum!AllTokensListed
  BY DEF Enum!AllTokensListed, Enum!Base!Exists
<1>2. Enum!OwnedTokensListed
  BY ZeroIsNoAccount DEF Enum!OwnedTokensListed, Enum!Base!TokensOf
<1> QED
  BY <1>1, <1>2 DEF Enumerated

\* only mints, transfers and burns touch the lists
LEMMA EnumeratedStep == IInv /\ Enumerated /\ [Next]_vars => Enumerated'
<1> SUFFICES ASSUME IInv, Enumerated, [Next]_vars PROVE Enumerated'
  OBVIOUS
<1>1. Enum!AllTokensListed /\ Enum!OwnedTokensListed /\ TypeOK
      /\ Zero \in Addresses /\ Accounts \subseteq Addresses
  BY DEF Enumerated, IInv, Addresses
<1>2. ASSUME NEW id \in Tokens, NEW to \in Addresses, MovesNoun(id, to)
      PROVE  Enumerated'
  BY <1>1, <1>2, AllTokensStayListed, OwnedTokensStayListed DEF Enumerated
<1>3. CASE UNCHANGED <<owners, balances, ownedTokens, ownedTokensIndex,
                       allTokens, allTokensIndex>>
  BY <1>1, <1>3 DEF Enumerated, Enum!AllTokensListed, Enum!OwnedTokensListed,
                    Enum!Base!Exists, Enum!Base!TokensOf
<1>4. ASSUME NEW to \in Accounts, NEW id \in Tokens, Mint(to, id) PROVE Enumerated'
  BY <1>1, <1>2, <1>4, TokenActionsMoveNouns
<1>5. ASSUME NEW id \in Tokens, Burn(id) PROVE Enumerated'
  BY <1>1, <1>2, <1>5, TokenActionsMoveNouns
<1>6. ASSUME NEW sender \in Accounts, NEW from \in Accounts, NEW to \in Accounts,
             NEW id \in Tokens, TransferFrom(sender, from, to, id)
      PROVE  Enumerated'
  BY <1>1, <1>2, <1>6, TokenActionsMoveNouns
<1>7. ASSUME NEW sender \in Accounts, NEW to \in Approvees \cup {Zero},
             NEW id \in Tokens, Approve(sender, to, id)
      PROVE  Enumerated'
  BY <1>3, <1>7
     DEF Approve, Enum!Approve, Enum!Base!Approve, Enum!ownedVars, Enum!allVars
<1>8. ASSUME NEW sender \in Accounts, NEW operator \in Operators,
             NEW approved \in BOOLEAN, SetApprovalForAll(sender, operator, approved)
      PROVE  Enumerated'
  BY <1>3, <1>8 DEF SetApprovalForAll, Enum!SetApprovalForAll,
                    Enum!Base!SetApprovalForAll, Enum!ownedVars, Enum!allVars
<1>9. ASSUME NEW sender \in Accounts, NEW delegatee \in Accounts \cup {Zero},
             Delegate(sender, delegatee)
      PROVE  Enumerated'
  BY <1>3, <1>9 DEF Delegate, tokenVars
<1>10. ASSUME NEW sig \in Signatures, DelegateBySig(sig) PROVE Enumerated'
  BY <1>3, <1>10 DEF DelegateBySig, tokenVars
<1>11. CASE Mine
  BY <1>3, <1>11 DEF Mine, tokenVars
<1>12. CASE UNCHANGED vars
  BY <1>3, <1>12 DEF vars, tokenVars
<1> QED
  BY <1>4, <1>5, <1>6, <1>7, <1>8, <1>9, <1>10, <1>11, <1>12 DEF Next

(***************************************************************************)
(* tokenByIndex and tokenOfOwnerByIndex list exactly the nouns that exist, *)
(* and each account's, after any sequence of mints, burns and transfers:   *)
(* the swap-and-pop of the hook, which runs before the balances change,    *)
(* always finds the noun and the last slot where the back-pointers say.    *)
(***************************************************************************)
THEOREM EnumerationsExact == Spec => [](Enum!AllTokensListed /\ Enum!OwnedTokensListed)
<1>1. Enumerated => Enum!AllTokensListed /\ Enum!OwnedTokensListed
  BY DEF Enumerated
<1> QED
  BY <1>1, EnumeratedInitially, EnumeratedStep, InvariantHolds, PTL DEF Spec
===============================================================================
