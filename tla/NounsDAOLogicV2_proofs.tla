------------------------ MODULE NounsDAOLogicV2_proofs ------------------------
(***************************************************************************)
(* Invariance proofs for the governor and its executor: for any number of  *)
(* accounts, proposals and blocks, any payloads, and whatever the          *)
(* proposals do to the settings of the DAO itself.                         *)
(***************************************************************************)
EXTENDS NounsDAOLogicV2, DataTheorems

-------------------------------------------------------------------------------
(* The calls a proposal makes.                                             *)

\* the state a proposal's calls start from
FirstCall == [timelock |-> timelock, settings |-> settings, reverted |-> FALSE]

\* the fold of the calls at the positions s: the last of them, after the others
Called(payload, f, s) ==
  IF s = {} THEN FirstCall ELSE AfterCall(f[s \ {Max(s)}], payload[Max(s)])

CalledBy(payload, f) ==
  f = [s \in SUBSET (DOMAIN payload) |-> Called(payload, f, s)]

(***************************************************************************)
(* The last of a set of positions, and the positions before it.            *)
(***************************************************************************)
LEMMA LastPosition ==
  ASSUME NEW m \in Nat, NEW s \in SUBSET (1 .. m + 1), s # {}
  PROVE  Max(s) \in s /\ s \ {Max(s)} \subseteq 1 .. m
<1>1. PICK x \in s : \A y \in s : y <= x
  <2>1. 1 \in Int /\ m + 1 \in Int
    OBVIOUS
  <2>. QED BY <2>1, GreatestNumber
<1>2. Max(s) \in s /\ \A y \in s : Max(s) >= y
  <2>. DEFINE Top(z) == \A y \in s : z >= y
  <2>1. Top(x)
    BY <1>1
  <2>2. Max(s) = CHOOSE z \in s : Top(z)
    BY DEF Max
  <2>. HIDE DEF Top
  <2>3. Max(s) \in s /\ Top(Max(s))
    BY <1>1, <2>1, <2>2
  <2>. QED BY <2>3 DEF Top
<1>3. ASSUME NEW y \in s, y # Max(s) PROVE y \in 1 .. m
  <2>1. y \in 1 .. m + 1 /\ Max(s) \in 1 .. m + 1 /\ Max(s) >= y
    BY <1>2
  <2>. QED BY <2>1, <1>3
<1>. QED BY <1>2, <1>3

(***************************************************************************)
(* The fold is defined: the positions are added one after the other.       *)
(***************************************************************************)
LEMMA CallsHaveResult ==
  ASSUME NEW payload, NEW n \in Nat, DOMAIN payload = 1 .. n
  PROVE  \E g : CalledBy(payload, g)
<1>. DEFINE D == SUBSET (DOMAIN payload)
            Solves(g, m) == \A s \in D : s \subseteq 1 .. m => g[s] = Called(payload, g, s)
            T == {m \in Nat : \E g : Solves(g, m)}
<1>1. 0 \in T
  <2>1. Solves([s \in D |-> FirstCall], 0)
    <3>1. \A s \in D : s \subseteq 1 .. 0 => s = {}
      OBVIOUS
    <3>. QED BY <3>1 DEF Called
  <2>. HIDE DEF Solves
  <2>. QED BY <2>1
<1>2. ASSUME NEW m \in T PROVE m + 1 \in T
  <2>1. m \in Nat /\ \E g : Solves(g, m)
    OBVIOUS
  <2>2. PICK g : Solves(g, m)
    <3>. HIDE DEF Solves
    <3>. QED BY <2>1
  <2>. DEFINE h == [s \in D |-> IF s \subseteq 1 .. m THEN g[s] ELSE Called(payload, g, s)]
  <2>3. ASSUME NEW s \in D, s \subseteq 1 .. m + 1
        PROVE  h[s] = Called(payload, h, s)
    <3>1. CASE s = {}
      <4>1. s \subseteq 1 .. m
        BY <3>1
      <4>2. g[s] = FirstCall
        BY <2>2, <3>1, <4>1 DEF Called
      <4>. QED BY <3>1, <4>1, <4>2 DEF Called
    <3>2. CASE s # {}
      <4>1. s \ {Max(s)} \subseteq 1 .. m /\ s \ {Max(s)} \in D
        BY <2>1, <2>3, <3>2, LastPosition
      <4>2. h[s \ {Max(s)}] = g[s \ {Max(s)}]
        BY <4>1
      <4>3. Called(payload, h, s) = Called(payload, g, s)
        <5>. HIDE DEF h
        <5>. QED BY <4>2 DEF Called
      <4>4. h[s] = Called(payload, g, s)
        BY <2>2
      <4>. QED BY <4>3, <4>4
    <3>. QED BY <3>1, <3>2
  <2>4. Solves(h, m + 1)
    <3>. HIDE DEF h
    <3>. QED BY <2>3
  <2>. HIDE DEF Solves, h
  <2>. QED BY <2>1, <2>4
<1>3. T = Nat
  <2>1. T \in SUBSET Nat
    OBVIOUS
  <2>. HIDE DEF T
  <2>. QED BY <1>1, <1>2, <2>1, AllNumbers
<1>4. PICK g : Solves(g, n)
  <2>1. n \in T
    <3>. HIDE DEF T
    <3>. QED BY <1>3
  <2>. HIDE DEF Solves
  <2>. QED BY <2>1
<1>. DEFINE h == [s \in D |-> g[s]]
<1>5. \A s \in D : h[s] = Called(payload, h, s)
  <2>1. ASSUME NEW s \in D PROVE h[s] = Called(payload, h, s)
    <3>1. g[s] = Called(payload, g, s)
      BY <1>4
    <3>2. h[s \ {Max(s)}] = g[s \ {Max(s)}]
      OBVIOUS
    <3>3. Called(payload, h, s) = Called(payload, g, s)
      <4>. HIDE DEF h
      <4>. QED BY <3>2 DEF Called
    <3>. QED BY <3>1, <3>3
  <2>. QED BY <2>1
<1>6. CalledBy(payload, h)
  <2>1. h = [s \in D |-> h[s]]
    OBVIOUS
  <2>. HIDE DEF h
  <2>. QED BY <1>5, <2>1 DEF CalledBy
<1>. QED BY <1>6

(***************************************************************************)
(* The calls of a proposal are folded by a function that obeys its own     *)
(* equation, since some function does.                                     *)
(***************************************************************************)
LEMMA AfterCallsIs ==
  ASSUME NEW payload, NEW g, CalledBy(payload, g)
  PROVE  \E f : CalledBy(payload, f) /\ AfterCalls(payload) = f[DOMAIN payload]
<1>1. AfterCalls(payload) = (CHOOSE f : CalledBy(payload, f))[DOMAIN payload]
  BY DEF AfterCalls, FoldLeft, MapThenFoldSet, CalledBy, Called, FirstCall
<1>2. CalledBy(payload, CHOOSE f : CalledBy(payload, f))
  <2> HIDE DEF CalledBy
  <2> QED BY CalledBy(payload, g)
<1> QED BY <1>1, <1>2

(***************************************************************************)
(* What holds before the first call and is kept by every call holds after  *)
(* the last one.                                                           *)
(***************************************************************************)
LEMMA CallsKeep ==
  ASSUME NEW payload, NEW n \in Nat, DOMAIN payload = 1 .. n,
         NEW R, FirstCall \in R,
         \A r \in R, i \in DOMAIN payload : AfterCall(r, payload[i]) \in R
  PROVE  AfterCalls(payload) \in R
<1>1. PICK f : CalledBy(payload, f) /\ AfterCalls(payload) = f[DOMAIN payload]
  BY CallsHaveResult, AfterCallsIs
<1>. DEFINE D == SUBSET (DOMAIN payload)
            T == {m \in Nat : \A s \in D : s \subseteq 1 .. m => f[s] \in R}
<1>2. \A s \in D : f[s] = Called(payload, f, s)
  <2>1. f = [s \in D |-> Called(payload, f, s)]
    BY <1>1 DEF CalledBy
  <2>. DEFINE F == [s \in D |-> Called(payload, f, s)]
  <2>2. \A s \in D : F[s] = Called(payload, f, s)
    OBVIOUS
  <2>. HIDE DEF F
  <2>. QED BY <2>1, <2>2 DEF F
<1>3. 0 \in T
  <2>1. \A s \in D : s \subseteq 1 .. 0 => s = {}
    OBVIOUS
  <2>2. f[{}] \in R
    BY <1>2 DEF Called
  <2>. QED BY <2>1, <2>2
<1>4. ASSUME NEW m \in T PROVE m + 1 \in T
  <2>1. ASSUME NEW s \in D, s \subseteq 1 .. m + 1 PROVE f[s] \in R
    <3>1. CASE s = {}
      BY <1>2, <3>1 DEF Called
    <3>2. CASE s # {}
      <4>1. Max(s) \in s /\ s \ {Max(s)} \subseteq 1 .. m
        BY <2>1, <3>2, LastPosition
      <4>2. s \ {Max(s)} \in D /\ Max(s) \in DOMAIN payload
        BY <4>1
      <4>3. f[s \ {Max(s)}] \in R
        BY <4>1, <4>2
      <4>. QED BY <1>2, <3>2, <4>2, <4>3 DEF Called
    <3>. QED BY <3>1, <3>2
  <2>. QED BY <2>1
<1>5. n \in T
  <2>1. T \in SUBSET Nat
    OBVIOUS
  <2>. HIDE DEF T
  <2>. QED BY <1>3, <1>4, <2>1, AllNumbers
<1>. QED BY <1>1, <1>5

-------------------------------------------------------------------------------
(* Types.                                                                  *)

ParamsType == [min : Nat, max : Nat, coefficient : Nat]

\* who can become an admin
Appointed ==
  Accounts \cup {Nobody, Governor, InitialSettings.admin, InitialSettings.pendingAdmin}
           \cup {tx.arg : tx \in Transactions}

SettingsType ==
  [votingDelay          : MIN_VOTING_DELAY .. MAX_VOTING_DELAY,
   votingPeriod         : MIN_VOTING_PERIOD .. MAX_VOTING_PERIOD,
   proposalThresholdBPS : Nat,
   quorumParams         : Seq(CheckpointOf(ParamsType)),
   admin                : Appointed,
   pendingAdmin         : Appointed]

TimelockType ==
  [admin : Appointed, pendingAdmin : Appointed, delay : MINIMUM_DELAY .. MAXIMUM_DELAY]

ProposalType ==
  [proposer : Accounts, payload : Payloads, proposalThreshold : Nat,
   startBlock : Nat, endBlock : Nat, creationBlock : Nat, totalSupply : Nat,
   tally : [{Against, For, Abstain} -> Nat], receipts : [Accounts -> 0 .. NoVote],
   eta : Nat, canceled : BOOLEAN, vetoed : BOOLEAN, executed : BOOLEAN]

Typed ==
  /\ now \in Nat \ {0}
  /\ proposals \in Seq(ProposalType)
  /\ latestProposalIds \in [Accounts -> Nat]
  /\ settings \in SettingsType
  /\ Ascending(settings.quorumParams, now)
  /\ timelock \in TimelockType
  /\ votes \in [Accounts -> Nat]
  /\ supply \in Nat
  /\ pastVotes \in [0 .. now - 1 -> [Accounts -> Nat]]

\* a proposal is made before its vote starts, and the vote starts before it ends
Timed ==
  \A i \in Ids :
    /\ proposals[i].creationBlock <= now
    /\ proposals[i].creationBlock < proposals[i].startBlock
    /\ proposals[i].startBlock < proposals[i].endBlock

ParamsAt(st, b) == getDynamicQuorumParamsAt(st.quorumParams, b)

\* the settings a transaction of the current block can leave: those of the
\* past blocks are what they were
NextSettings ==
  {st \in SettingsType :
     /\ Ascending(st.quorumParams, now)
     /\ \A b \in 0 .. now - 1 : ParamsAt(st, b) = ParamsAt(settings, b)}

(***************************************************************************)
(* The parameters looked up are parameters.                                *)
(***************************************************************************)
LEMMA ParamsTyped ==
  ASSUME NEW cps, CheckpointList(cps, ParamsType), NEW b \in Nat, Ascending(cps, b)
  PROVE  getDynamicQuorumParamsAt(cps, b) \in ParamsType
<1>. DEFINE old == [min |-> quorumVotesBPS, max |-> quorumVotesBPS, coefficient |-> 0]
<1>1. ValueAt(cps, old, b) = Latest(cps, old)
  BY ValueAtEnd
<1>2. old \in ParamsType
  BY StartsWithinBounds DEF ParamsType
<1>3. Latest(cps, old) \in ParamsType
  <2>. HIDE DEF old
  <2>1. cps # <<>> => cps[Len(cps)].value \in ParamsType
    BY ListedBlocks
  <2>. QED BY <1>2, <2>1 DEF Latest
<1>. QED BY <1>1, <1>3 DEF getDynamicQuorumParamsAt

(***************************************************************************)
(* A call the admin may make keeps the settings within their bounds, and   *)
(* _writeQuorumParamsCheckpoint leaves the parameters of the past blocks   *)
(* alone.                                                                  *)
(***************************************************************************)
LEMMA AdminCallKeeps ==
  ASSUME Typed, NEW st \in NextSettings, NEW tx \in Transactions, AdminAccepts(st, tx)
  PROVE  AfterAdminCall(st, tx) \in NextSettings
<1>1. /\ st \in SettingsType /\ now \in Nat
      /\ CheckpointList(st.quorumParams, ParamsType) /\ Ascending(st.quorumParams, now)
      /\ \A b \in 0 .. now - 1 : ParamsAt(st, b) = ParamsAt(settings, b)
  BY DEF Typed, NextSettings, SettingsType, CheckpointList
<1>2. tx.arg \in Appointed
  BY DEF Appointed
<1>3. CASE tx.call \in QuorumCalls
  <2>. DEFINE params == NewParams(st, tx)
              cps    == Written(st.quorumParams, now, params)
  <2>1. CurrentParams(st) \in ParamsType
    BY <1>1, ParamsTyped DEF CurrentParams
  <2>2. params \in ParamsType
    <3>1. CASE tx.call = "_setDynamicQuorumParams"
      BY <3>1, CallsAreDecoded DEF NewParams, ParamsType
    <3>2. CASE tx.call \in {"_setMinQuorumVotesBPS", "_setMaxQuorumVotesBPS",
                            "_setQuorumCoefficient"}
      <4>1. tx.arg \in Nat
        BY <3>2, CallsAreDecoded
      <4>. QED BY <2>1, <3>2, <4>1 DEF NewParams, ParamsType
    <3>. QED BY <1>3, <3>1, <3>2 DEF QuorumCalls
  <2>. HIDE DEF params
  <2>3. CheckpointList(cps, ParamsType) /\ Ascending(cps, now)
    BY <1>1, <2>2, WrittenIsLatest
  <2>4. ASSUME NEW b \in 0 .. now - 1
        PROVE  getDynamicQuorumParamsAt(cps, b) = ParamsAt(settings, b)
    <3>1. b \in Nat /\ b < now
      BY <1>1
    <3>2. \A d : ValueAt(cps, d, b) = ValueAt(st.quorumParams, d, b)
      BY <1>1, <2>2, <3>1, WrittenKeepsPast
    <3>3. getDynamicQuorumParamsAt(cps, b) = ParamsAt(st, b)
      BY <3>2 DEF ParamsAt, getDynamicQuorumParamsAt
    <3>. QED BY <1>1, <3>3
  <2>. HIDE DEF cps
  <2>5. AfterAdminCall(st, tx) = [st EXCEPT !.quorumParams = cps]
    BY <1>3 DEF AfterAdminCall, QuorumCalls, cps, params
  <2>6. /\ [st EXCEPT !.quorumParams = cps] \in SettingsType
        /\ [st EXCEPT !.quorumParams = cps].quorumParams = cps
    BY <1>1, <2>3 DEF SettingsType, CheckpointList
  <2>. QED BY <2>3, <2>4, <2>5, <2>6 DEF NextSettings, ParamsAt
<1>4. CASE tx.call \notin QuorumCalls
  <2>1. /\ AfterAdminCall(st, tx) \in SettingsType
        /\ AfterAdminCall(st, tx).quorumParams = st.quorumParams
    <3>1. CASE tx.call = "_setVotingDelay"
      <4>1. AfterAdminCall(st, tx) = [st EXCEPT !.votingDelay = tx.arg]
        BY <3>1 DEF AfterAdminCall, QuorumCalls
      <4>2. tx.arg \in MIN_VOTING_DELAY .. MAX_VOTING_DELAY
        BY <3>1 DEF AdminAccepts
      <4>. QED BY <1>1, <4>1, <4>2 DEF SettingsType
    <3>2. CASE tx.call = "_setVotingPeriod"
      <4>1. AfterAdminCall(st, tx) = [st EXCEPT !.votingPeriod = tx.arg]
        BY <3>2 DEF AfterAdminCall, QuorumCalls
      <4>2. tx.arg \in MIN_VOTING_PERIOD .. MAX_VOTING_PERIOD
        BY <3>2 DEF AdminAccepts
      <4>. QED BY <1>1, <4>1, <4>2 DEF SettingsType
    <3>3. CASE tx.call = "_setProposalThresholdBPS"
      <4>1. AfterAdminCall(st, tx) = [st EXCEPT !.proposalThresholdBPS = tx.arg]
        BY <3>3 DEF AfterAdminCall, QuorumCalls
      <4>2. tx.arg \in Nat
        BY <3>3, CallsAreDecoded
      <4>. QED BY <1>1, <4>1, <4>2 DEF SettingsType
    <3>4. CASE tx.call = "_setPendingAdmin"
      <4>1. AfterAdminCall(st, tx) = [st EXCEPT !.pendingAdmin = tx.arg]
        BY <3>4 DEF AfterAdminCall, QuorumCalls
      <4>2. tx.arg \in Appointed
        BY <1>2
      <4>. QED BY <1>1, <4>1, <4>2 DEF SettingsType
    <3>5. CASE tx.call \notin {"_setVotingDelay", "_setVotingPeriod",
                               "_setProposalThresholdBPS", "_setPendingAdmin"}
      <4>1. AfterAdminCall(st, tx) = st
        BY <1>4, <3>5 DEF AfterAdminCall
      <4>. QED BY <1>1, <4>1
    <3>. QED BY <3>1, <3>2, <3>3, <3>4, <3>5
  <2>. QED BY <1>1, <2>1 DEF NextSettings, ParamsAt
<1>. QED BY <1>3, <1>4

(***************************************************************************)
(* So does the execution of a whole proposal, whatever its calls set.      *)
(***************************************************************************)
LEMMA CallsKeepSettings ==
  ASSUME Typed, NEW payload \in Payloads
  PROVE  AfterCalls(payload).timelock \in TimelockType
         /\ AfterCalls(payload).settings \in NextSettings
<1>. DEFINE R == [timelock : TimelockType, settings : NextSettings, reverted : BOOLEAN]
<1>1. payload \in Seq(Transactions)
  BY CallsAreDecoded
<1>2. Len(payload) \in Nat /\ DOMAIN payload = 1 .. Len(payload)
      /\ \A i \in DOMAIN payload : payload[i] \in Transactions
  BY <1>1
<1>3. FirstCall \in R
  BY DEF FirstCall, Typed, NextSettings
<1>4. ASSUME NEW r \in R, NEW i \in DOMAIN payload
      PROVE  AfterCall(r, payload[i]) \in R
  <2>. DEFINE tx == payload[i]
  <2>1. tx \in Transactions /\ r.settings \in NextSettings /\ r.timelock \in TimelockType
    BY <1>2
  <2>. HIDE DEF tx
  <2>2. CASE SetterAccepts(tx) /\ (tx.call \in AdminCalls =>
                                     r.settings.admin = Executor /\ AdminAccepts(r.settings, tx))
    <3>1. AfterSetter(r.timelock, tx) \in TimelockType
      <4>1. tx.arg \in Appointed
        BY <2>1 DEF Appointed
      <4>. QED BY <2>1, <2>2, <4>1 DEF AfterSetter, SetterAccepts, TimelockType
    <3>2. AfterAdminCall(r.settings, tx) \in NextSettings
      <4>1. CASE tx.call \in AdminCalls
        BY <2>1, <2>2, <4>1, AdminCallKeeps
      <4>2. CASE tx.call \notin AdminCalls
        BY <2>1, <4>2 DEF AfterAdminCall, AdminCalls, QuorumCalls
      <4>. QED BY <4>1, <4>2
    <3>3. AfterCall(r, tx) = [r EXCEPT !.timelock = AfterSetter(@, tx),
                                       !.settings = AfterAdminCall(@, tx)]
      BY <2>2 DEF AfterCall
    <3>. QED BY <3>1, <3>2, <3>3 DEF tx
  <2>3. CASE ~ (SetterAccepts(tx) /\ (tx.call \in AdminCalls =>
                                     r.settings.admin = Executor /\ AdminAccepts(r.settings, tx)))
    <3>1. AfterCall(r, tx) = [r EXCEPT !.reverted = TRUE]
      BY <2>3 DEF AfterCall
    <3>. QED BY <3>1 DEF tx
  <2>. QED BY <2>2, <2>3
<1>5. AfterCalls(payload) \in R
  <2>. HIDE DEF R
  <2>. QED BY <1>2, <1>3, <1>4, CallsKeep
<1>. QED BY <1>5

-------------------------------------------------------------------------------
(* What the steps do to the proposals.                                     *)

\* what is decided when a proposal is made, and what can only be set
Fixed(p, q) ==
  /\ q.proposer = p.proposer /\ q.payload = p.payload
  /\ q.startBlock = p.startBlock /\ q.endBlock = p.endBlock
  /\ q.creationBlock = p.creationBlock /\ q.totalSupply = p.totalSupply
  /\ p.canceled => q.canceled
  /\ p.vetoed => q.vetoed
  /\ p.executed => q.executed

\* a step that makes no proposal, changes none but i, and lets no block pass
Changes(i, q) ==
  /\ proposals' = [proposals EXCEPT ![i] = q]
  /\ Fixed(proposals[i], q)
  /\ latestProposalIds' = latestProposalIds
  /\ now' = now

\* a step that does not concern the proposals
Elsewhere == UNCHANGED <<proposals, latestProposalIds, queuedTransactions, now>>

(***************************************************************************)
(* A list of proposals and one of them.                                    *)
(***************************************************************************)
LEMMA OneProposal ==
  ASSUME Typed, NEW i \in Ids
  PROVE  /\ proposals[i] \in ProposalType
         /\ Len(proposals) \in Nat /\ Ids = DOMAIN proposals
         /\ proposals[i].payload \in Seq(Transactions)
<1>1. /\ proposals[i] \in ProposalType /\ Len(proposals) \in Nat
      /\ Ids = DOMAIN proposals
  BY DEF Typed, Ids
<1>2. proposals[i].payload \in Payloads
  BY <1>1 DEF ProposalType
<1>. QED BY <1>1, <1>2, CallsAreDecoded

(***************************************************************************)
(* Replacing one proposal.                                                 *)
(***************************************************************************)
LEMMA Replaced ==
  ASSUME Typed, NEW i \in Ids, NEW q \in ProposalType,
         proposals' = [proposals EXCEPT ![i] = q]
  PROVE  /\ proposals' \in Seq(ProposalType)
         /\ Len(proposals') = Len(proposals) /\ Ids' = Ids
         /\ proposals'[i] = q
         /\ \A k \in Ids : k # i => proposals'[k] = proposals[k]
BY DEF Typed, Ids

(***************************************************************************)
(* castVoteInternal adds a vote to one proposal, whose snapshot is past.    *)
(***************************************************************************)
LEMMA CastVoteChanges ==
  ASSUME Typed, Timed, NEW c \in Intentions, NEW i \in Ids, CastVote(c[1], i, c[2])
  PROVE  LET p == proposals[i]
             w == VoteWeight(p, c[1])
             t == [p.tally EXCEPT ![c[2]] = @ + w]
             r == [p.receipts EXCEPT ![c[1]] = c[2]]
             q == [p EXCEPT !.tally = t, !.receipts = r]
         IN  /\ c[1] \in Accounts /\ c[2] \in {Against, For, Abstain}
             /\ w \in Nat /\ q \in ProposalType /\ Changes(i, q)
             /\ UNCHANGED <<settings, votes, supply, pastVotes, timelock, queuedTransactions>>
<1>. DEFINE p == proposals[i]
            w == VoteWeight(p, c[1])
            t == [p.tally EXCEPT ![c[2]] = @ + w]
            r == [p.receipts EXCEPT ![c[1]] = c[2]]
            q == [p EXCEPT !.tally = t, !.receipts = r]
<1>1. c[1] \in Accounts /\ c[2] \in 0 .. 2 /\ c[2] \in {Against, For, Abstain}
  BY ActorsAreAccounts DEF Against, For, Abstain
<1>2. p \in ProposalType
  BY OneProposal
<1>3. p.creationBlock < now /\ now \in Nat /\ p.creationBlock \in Nat
  <2>1. ~ (now <= p.startBlock)
    <3>1. State(i) = "Active"
      BY DEF CastVote
    <3>. QED BY <3>1 DEF State
  <2>2. p.startBlock \in Nat /\ p.creationBlock \in Nat /\ now \in Nat
    BY <1>2 DEF Typed, ProposalType
  <2>3. p.creationBlock < p.startBlock
    BY DEF Timed
  <2>. HIDE DEF p
  <2>. QED BY <2>1, <2>2, <2>3
<1>4. w \in Nat
  BY <1>1, <1>3 DEF VoteWeight, getPriorVotes, Typed
<1>5. proposals' = [proposals EXCEPT ![i] = q]
  <2>1. proposals' = [proposals EXCEPT ![i].tally[c[2]] = @ + w, ![i].receipts[c[1]] = c[2]]
    BY DEF CastVote
  <2>2. p \in ProposalType /\ DOMAIN proposals = Ids
    BY <1>2, OneProposal
  <2>. HIDE DEF w
  <2>. QED BY <2>1, <2>2 DEF ProposalType
<1>6. t \in [{Against, For, Abstain} -> Nat]
  <2>1. p.tally \in [{Against, For, Abstain} -> Nat]
    BY <1>2 DEF ProposalType
  <2>. HIDE DEF w, p
  <2>. QED BY <1>1, <1>4, <2>1
<1>7. r \in [Accounts -> 0 .. NoVote]
  BY <1>1, <1>2 DEF ProposalType, NoVote
<1>8. q \in ProposalType /\ Fixed(p, q)
  <2>. HIDE DEF t, r, p
  <2>. QED BY <1>2, <1>6, <1>7 DEF ProposalType, Fixed
<1>9. UNCHANGED <<latestProposalIds, now, settings, votes, supply, pastVotes, timelock, queuedTransactions>>
  BY DEF CastVote, tokenVars, executorVars
<1>. QED
  <2>1. Changes(i, q)
    <3>. HIDE DEF q
    <3>. QED BY <1>5, <1>8, <1>9 DEF Changes
  <2>. QED BY <1>1, <1>4, <1>8, <1>9, <2>1

(***************************************************************************)
(* queue sets the eta of one proposal, a full delay away.                  *)
(***************************************************************************)
LEMMA QueueChanges ==
  ASSUME Typed, NEW i \in Ids, Queue(i)
  PROVE  LET q == [proposals[i] EXCEPT !.eta = now + timelock.delay]
         IN  /\ q \in ProposalType /\ Changes(i, q)
             /\ now + timelock.delay \in Nat /\ now + timelock.delay >= now + MINIMUM_DELAY
             /\ UNCHANGED <<settings, votes, supply, pastVotes, timelock>>
<1>1. proposals[i] \in ProposalType
  BY OneProposal
<1>2. now + timelock.delay \in Nat /\ now + timelock.delay >= now + MINIMUM_DELAY
  BY DelaysAreOrdered DEF Typed, TimelockType
<1>. QED BY <1>1, <1>2 DEF Queue, Changes, Fixed, ProposalType, tokenVars

(***************************************************************************)
(* execute marks one proposal, and its calls leave settings that are within*)
(* their bounds.                                                           *)
(***************************************************************************)
LEMMA ExecuteChanges ==
  ASSUME Typed, NEW i \in Ids, Execute(i)
  PROVE  LET q == [proposals[i] EXCEPT !.executed = TRUE]
         IN  /\ q \in ProposalType /\ Changes(i, q)
             /\ settings' \in NextSettings /\ timelock' \in TimelockType
             /\ UNCHANGED <<votes, supply, pastVotes>>
<1>1. proposals[i] \in ProposalType
  BY OneProposal
<1>2. settings' \in NextSettings /\ timelock' \in TimelockType
  BY <1>1, CallsKeepSettings DEF Execute, ProposalType
<1>. QED BY <1>1, <1>2 DEF Execute, Changes, Fixed, ProposalType, tokenVars

(***************************************************************************)
(* cancel marks one proposal.                                              *)
(***************************************************************************)
LEMMA CancelChanges ==
  ASSUME Typed, NEW a, NEW i \in Ids, Cancel(a, i)
  PROVE  LET q == [proposals[i] EXCEPT !.canceled = TRUE]
         IN  /\ q \in ProposalType /\ Changes(i, q)
             /\ UNCHANGED <<settings, votes, supply, pastVotes, timelock>>
<1>1. proposals[i] \in ProposalType
  BY OneProposal
<1>. QED BY <1>1 DEF Cancel, Changes, Fixed, ProposalType, tokenVars

(***************************************************************************)
(* veto marks one proposal.                                                *)
(***************************************************************************)
LEMMA VetoChanges ==
  ASSUME Typed, NEW a, NEW i \in Ids, Veto(a, i)
  PROVE  LET q == [proposals[i] EXCEPT !.vetoed = TRUE]
         IN  /\ q \in ProposalType /\ Changes(i, q)
             /\ UNCHANGED <<settings, votes, supply, pastVotes, timelock>>
<1>1. proposals[i] \in ProposalType
  BY OneProposal
<1>. QED BY <1>1 DEF Veto, Changes, Fixed, ProposalType, tokenVars

(***************************************************************************)
(* propose appends a proposal that is pending.                             *)
(***************************************************************************)
LEMMA ProposeAppends ==
  ASSUME Typed, NEW a \in Accounts, NEW payload \in Payloads, Propose(a, payload)
  PROVE  LET new == Len(proposals) + 1
             q   == proposals'[new]
         IN  /\ proposals' \in Seq(ProposalType) /\ Len(proposals') = new
             /\ Ids' = Ids \cup {new} /\ new \notin Ids
             /\ \A k \in Ids : proposals'[k] = proposals[k]
             /\ q.proposer = a /\ q.creationBlock = now
             /\ q.startBlock > now /\ q.endBlock > q.startBlock
             /\ q.tally = [s \in {Against, For, Abstain} |-> 0]
             /\ q.receipts = [v \in Accounts |-> NoVote]
             /\ q.eta = 0 /\ ~q.canceled /\ ~q.vetoed /\ ~q.executed
             /\ latestProposalIds' = [latestProposalIds EXCEPT ![a] = new]
             /\ UNCHANGED <<settings, votes, supply, pastVotes, timelock, queuedTransactions, now>>
<1>. DEFINE threshold == bps2Uint(settings.proposalThresholdBPS, supply)
            start     == now + settings.votingDelay
            q == [proposer |-> a, payload |-> payload, proposalThreshold |-> threshold,
                  startBlock |-> start, endBlock |-> start + settings.votingPeriod,
                  creationBlock |-> now, totalSupply |-> supply,
                  tally |-> [s \in {Against, For, Abstain} |-> 0],
                  receipts |-> [v \in Accounts |-> NoVote],
                  eta |-> 0, canceled |-> FALSE, vetoed |-> FALSE, executed |-> FALSE]
<1>1. /\ settings.votingDelay \in Nat /\ settings.votingDelay > 0
      /\ settings.votingPeriod \in Nat /\ settings.votingPeriod > 0
      /\ settings.proposalThresholdBPS \in Nat /\ supply \in Nat /\ now \in Nat
  BY VotingTakesTime DEF Typed, SettingsType
<1>2. threshold \in Nat
  BY <1>1 DEF bps2Uint
<1>3. start \in Nat /\ start > now
      /\ start + settings.votingPeriod \in Nat /\ start + settings.votingPeriod > start
  BY <1>1
<1>4. q \in ProposalType
  <2>1. [s \in {Against, For, Abstain} |-> 0] \in [{Against, For, Abstain} -> Nat]
        /\ [v \in Accounts |-> NoVote] \in [Accounts -> 0 .. NoVote]
    BY DEF NoVote
  <2>. HIDE DEF threshold, start
  <2>. QED BY <1>1, <1>2, <1>3, <2>1 DEF ProposalType
<1>5. /\ proposals' = Append(proposals, q)
      /\ latestProposalIds' = [latestProposalIds EXCEPT ![a] = Len(proposals) + 1]
      /\ UNCHANGED <<settings, votes, supply, pastVotes, timelock, queuedTransactions, now>>
  BY DEF Propose, tokenVars, executorVars
<1>6. /\ q.proposer = a /\ q.creationBlock = now
      /\ q.startBlock > now /\ q.endBlock > q.startBlock
      /\ q.tally = [s \in {Against, For, Abstain} |-> 0]
      /\ q.receipts = [v \in Accounts |-> NoVote]
      /\ q.eta = 0 /\ ~q.canceled /\ ~q.vetoed /\ ~q.executed
  BY <1>3
<1>. HIDE DEF q
<1>7. /\ proposals' \in Seq(ProposalType) /\ Len(proposals') = Len(proposals) + 1
      /\ Ids' = Ids \cup {Len(proposals) + 1} /\ Len(proposals) + 1 \notin Ids
      /\ \A k \in Ids : proposals'[k] = proposals[k]
      /\ proposals'[Len(proposals) + 1] = q
  BY <1>4, <1>5 DEF Typed, Ids
<1>. QED BY <1>5, <1>6, <1>7

-------------------------------------------------------------------------------
(* The steps.                                                              *)

\* a transaction that concerns neither a proposal nor the timelock's entries
Background ==
  /\ UNCHANGED <<proposals, latestProposalIds, queuedTransactions, now, pastVotes>>
  /\ settings' \in NextSettings /\ timelock' \in TimelockType
  /\ votes' \in [Accounts -> Nat] /\ supply' \in Nat

\* the steps of the specification by what they do to the proposals
Step ==
  \/ \E a \in Accounts, payload \in Payloads : Propose(a, payload)
  \/ \E i \in Ids : \E c \in Intentions : CastVote(c[1], i, c[2])
  \/ \E i \in Ids : Queue(i)
  \/ \E i \in Ids : Execute(i)
  \/ \E i \in Ids, a \in Accounts : Cancel(a, i)
  \/ \E i \in Ids, a \in Accounts : Veto(a, i)
  \/ Background
  \/ Mine

(***************************************************************************)
(* The present settings are among those a transaction can leave.           *)
(***************************************************************************)
LEMMA SettingsStay == Typed => settings \in NextSettings
BY DEF Typed, NextSettings

(***************************************************************************)
(* The vetoer's, the admins' and the token's actions are in the            *)
(* background.                                                             *)
(***************************************************************************)
LEMMA Steps ==
  ASSUME Typed, [Next]_vars
  PROVE  Step
<1>. USE DEF governorVars, vetoVars, tokenVars, executorVars
<1>0. /\ settings \in NextSettings /\ timelock \in TimelockType
      /\ votes \in [Accounts -> Nat] /\ supply \in Nat
  BY SettingsStay DEF Typed
<1>1. CASE UNCHANGED vars
  BY <1>0, <1>1 DEF Step, Background, vars
<1>2. ASSUME NEW a \in Accounts, NEW b \in Heirs, SetPendingVetoer(a, b) PROVE Background
  BY <1>0, <1>2 DEF SetPendingVetoer, Background
<1>3. ASSUME NEW a \in Accounts, AcceptVetoer(a) PROVE Background
  BY <1>0, <1>3 DEF AcceptVetoer, Background
<1>4. ASSUME NEW a \in Accounts, BurnVetoPower(a) PROVE Background
  BY <1>0, <1>4 DEF BurnVetoPower, Background
<1>5. ASSUME NEW a \in Accounts, AcceptAdmin(a) PROVE Background
  <2>1. settings' = [settings EXCEPT !.admin = a, !.pendingAdmin = Nobody]
    BY <1>5 DEF AcceptAdmin
  <2>2. a \in Appointed /\ Nobody \in Appointed
    BY DEF Appointed
  <2>3. settings' \in SettingsType /\ settings'.quorumParams = settings.quorumParams
    BY <1>0, <2>1, <2>2 DEF NextSettings, SettingsType
  <2>4. settings' \in NextSettings
    BY <1>0, <2>3 DEF NextSettings, ParamsAt
  <2>. QED BY <1>0, <1>5, <2>4 DEF AcceptAdmin, Background
<1>6. ASSUME NEW a \in Accounts, NEW tx \in Transactions, AdminCall(a, tx) PROVE Background
  <2>1. settings' \in NextSettings
    BY <1>0, <1>6, AdminCallKeeps DEF AdminCall
  <2>. QED BY <1>0, <1>6, <2>1 DEF AdminCall, Background
<1>7. ASSUME NEW a \in Accounts, AcceptTimelock(a) PROVE Background
  <2>1. timelock' = [timelock EXCEPT !.admin = a, !.pendingAdmin = Nobody]
    BY <1>7 DEF AcceptTimelock, acceptAdmin
  <2>2. a \in Appointed /\ Nobody \in Appointed
    BY DEF Appointed
  <2>3. timelock' \in TimelockType
    BY <1>0, <2>1, <2>2 DEF TimelockType
  <2>. QED BY <1>0, <1>7, <2>3 DEF AcceptTimelock, Background
<1>8. ASSUME NEW m \in Moves, m[1] # Nobody, MoveVotes(m[1], m[2]) PROVE Background
  <2>1. m[1] \in Accounts /\ m[2] \in Accounts
    BY <1>8, ActorsAreAccounts
  <2>2. votes' \in [Accounts -> Nat]
    BY <1>0, <1>8, <2>1 DEF MoveVotes
  <2>. QED BY <1>0, <1>8, <2>2 DEF MoveVotes, Background
<1>9. ASSUME NEW m \in Moves, MintVote(m[2]) PROVE Background
  <2>1. m[2] \in Accounts
    BY ActorsAreAccounts
  <2>2. votes' \in [Accounts -> Nat] /\ supply' \in Nat
    BY <1>0, <1>9, <2>1 DEF MintVote
  <2>. QED BY <1>0, <1>9, <2>2 DEF MintVote, Background
<1>10. CASE Next
  BY <1>2, <1>3, <1>4, <1>5, <1>6, <1>7, <1>8, <1>9, <1>10 DEF Next, Step
<1>. QED BY <1>1, <1>10

(***************************************************************************)
(* A finished block adds the votes at its end to the past ones, and leaves *)
(* them alone otherwise.                                                   *)
(***************************************************************************)
LEMMA MineKeepsPast ==
  ASSUME Typed, Mine
  PROVE  /\ now' = now + 1 /\ now \in Nat \ {0} /\ now' \in Nat \ {0}
         /\ pastVotes' \in [0 .. now' - 1 -> [Accounts -> Nat]]
         /\ \A b \in 0 .. now - 1 : pastVotes'[b] = pastVotes[b]
         /\ pastVotes'[now] = votes
         /\ UNCHANGED <<proposals, latestProposalIds, settings, votes, supply, timelock,
                        queuedTransactions>>
<1>1. now \in Nat \ {0} /\ now' = now + 1
  BY DEF Typed, Mine
<1>2. pastVotes' = [b \in 0 .. now |-> IF b < now THEN pastVotes[b] ELSE votes]
  BY DEF Mine
<1>3. pastVotes \in [0 .. now - 1 -> [Accounts -> Nat]] /\ votes \in [Accounts -> Nat]
  BY DEF Typed
<1>4. now' - 1 = now
  BY <1>1
<1>5. \A b \in 0 .. now : b < now => b \in 0 .. now - 1
  BY <1>1
<1>. QED BY <1>1, <1>2, <1>3, <1>4, <1>5 DEF Mine, governorVars, executorVars

(***************************************************************************)
(* Types are kept.                                                         *)
(***************************************************************************)
LEMMA TypedStep ==
  ASSUME Typed, Timed, [Next]_vars
  PROVE  Typed'
<1>0. settings \in NextSettings /\ timelock \in TimelockType
  BY SettingsStay DEF Typed
<1>1. ASSUME NEW i \in Ids, NEW q \in ProposalType, Changes(i, q), settings' \in NextSettings,
             timelock' \in TimelockType, UNCHANGED <<votes, supply, pastVotes>>
      PROVE  Typed'
  <2>1. proposals' \in Seq(ProposalType)
    BY <1>1, Replaced DEF Changes
  <2>2. settings' \in SettingsType /\ Ascending(settings'.quorumParams, now)
    BY <1>1 DEF NextSettings
  <2>. QED BY <1>1, <2>1, <2>2 DEF Typed, Changes
<1>2. ASSUME NEW a \in Accounts, NEW payload \in Payloads, Propose(a, payload) PROVE Typed'
  <2>1. /\ proposals' \in Seq(ProposalType) /\ Len(proposals) + 1 \in Nat
        /\ latestProposalIds' = [latestProposalIds EXCEPT ![a] = Len(proposals) + 1]
        /\ UNCHANGED <<settings, votes, supply, pastVotes, timelock, now>>
    BY <1>2, ProposeAppends DEF Typed
  <2>2. latestProposalIds' \in [Accounts -> Nat]
    BY <2>1 DEF Typed
  <2>. QED BY <2>1, <2>2 DEF Typed
<1>3. ASSUME NEW i \in Ids, NEW c \in Intentions, CastVote(c[1], i, c[2]) PROVE Typed'
  BY <1>0, <1>1, <1>3, CastVoteChanges
<1>4. ASSUME NEW i \in Ids, Queue(i) PROVE Typed'
  BY <1>0, <1>1, <1>4, QueueChanges
<1>5. ASSUME NEW i \in Ids, Execute(i) PROVE Typed'
  BY <1>1, <1>5, ExecuteChanges
<1>6. ASSUME NEW i \in Ids, NEW a \in Accounts, Cancel(a, i) PROVE Typed'
  BY <1>0, <1>1, <1>6, CancelChanges
<1>7. ASSUME NEW i \in Ids, NEW a \in Accounts, Veto(a, i) PROVE Typed'
  BY <1>0, <1>1, <1>7, VetoChanges
<1>8. CASE Background
  <2>1. settings' \in SettingsType /\ Ascending(settings'.quorumParams, now)
    BY <1>8 DEF Background, NextSettings
  <2>. QED BY <1>8, <2>1 DEF Background, Typed
<1>9. CASE Mine
  <2>1. /\ now' \in Nat \ {0} /\ now' = now + 1 /\ now \in Nat
        /\ pastVotes' \in [0 .. now' - 1 -> [Accounts -> Nat]]
        /\ UNCHANGED <<proposals, latestProposalIds, settings, votes, supply, timelock>>
    BY <1>9, MineKeepsPast
  <2>2. Ascending(settings'.quorumParams, now')
    <3>1. CheckpointList(settings.quorumParams, ParamsType) /\ Ascending(settings.quorumParams, now)
      BY DEF Typed, SettingsType, CheckpointList
    <3>2. \A k \in 1 .. Len(settings.quorumParams) :
            /\ settings.quorumParams[k].fromBlock \in Nat
            /\ settings.quorumParams[k].fromBlock <= now
      BY <3>1, ListedBlocks DEF Ascending
    <3>3. \A k \in 1 .. Len(settings.quorumParams) :
            settings.quorumParams[k].fromBlock <= now + 1
      BY <2>1, <3>2
    <3>. QED BY <2>1, <3>1, <3>3 DEF Ascending
  <2>. QED BY <2>1, <2>2 DEF Typed
<1>. QED BY <1>2, <1>3, <1>4, <1>5, <1>6, <1>7, <1>8, <1>9, Steps DEF Step

(***************************************************************************)
(* What every step leaves of a proposal: what was decided when it was      *)
(* made, its votes once the vote has ended, and the quorum parameters of   *)
(* every finished block.                                                   *)
(***************************************************************************)
LEMMA StepKeeps ==
  ASSUME Typed, Timed, [Next]_vars
  PROVE  /\ Ids \subseteq Ids' /\ now' \in {now, now + 1}
         /\ \A k \in Ids : /\ Fixed(proposals[k], proposals'[k])
                           /\ now > proposals[k].endBlock =>
                                proposals'[k].tally = proposals[k].tally
         /\ \A b \in 0 .. now - 1 : ParamsAt(settings', b) = ParamsAt(settings, b)
<1>. DEFINE Kept(k) == /\ Fixed(proposals[k], proposals'[k])
                       /\ now > proposals[k].endBlock =>
                            proposals'[k].tally = proposals[k].tally
            Past == \A b \in 0 .. now - 1 : ParamsAt(settings', b) = ParamsAt(settings, b)
            Goal == /\ Ids \subseteq Ids' /\ now' \in {now, now + 1}
                    /\ \A k \in Ids : Kept(k)
                    /\ Past
<1>. SUFFICES Goal
  OBVIOUS
<1>0. \A k \in Ids : proposals'[k] = proposals[k] => Kept(k)
  BY DEF Fixed
<1>a. settings' \in NextSettings => Past
  BY DEF NextSettings
<1>b. settings \in NextSettings
  BY SettingsStay
<1>1. ASSUME NEW i \in Ids, NEW q \in ProposalType, Changes(i, q),
             settings' \in NextSettings,
             now > proposals[i].endBlock => q.tally = proposals[i].tally
      PROVE  Goal
  <2>1. /\ Ids' = Ids /\ proposals'[i] = q
        /\ \A k \in Ids : k # i => proposals'[k] = proposals[k]
    BY <1>1, Replaced DEF Changes
  <2>2. Kept(i)
    BY <1>1, <2>1 DEF Changes
  <2>3. Past
    BY <1>1, <1>a
  <2>. HIDE DEF Kept, Past
  <2>. QED BY <1>0, <1>1, <2>1, <2>2, <2>3 DEF Changes
<1>2. ASSUME NEW a \in Accounts, NEW payload \in Payloads, Propose(a, payload) PROVE Goal
  <2>1. /\ Ids \subseteq Ids' /\ now' = now /\ settings' = settings
        /\ \A k \in Ids : proposals'[k] = proposals[k]
    BY <1>2, ProposeAppends
  <2>. HIDE DEF Kept
  <2>. QED BY <1>0, <1>b, <2>1
<1>3. ASSUME NEW i \in Ids, NEW c \in Intentions, CastVote(c[1], i, c[2]) PROVE Goal
  <2>1. now <= proposals[i].endBlock
    BY <1>3 DEF CastVote, State
  <2>2. ~ (now > proposals[i].endBlock)
    <3>1. proposals[i].endBlock \in Nat /\ now \in Nat
      BY OneProposal DEF Typed, ProposalType
    <3>. QED BY <2>1, <3>1
  <2>3. PICK q \in ProposalType : Changes(i, q) /\ settings' = settings
    BY <1>3, CastVoteChanges
  <2>. QED BY <1>1, <1>b, <2>2, <2>3
<1>4. ASSUME NEW i \in Ids, Queue(i) PROVE Goal
  <2>. DEFINE q == [proposals[i] EXCEPT !.eta = now + timelock.delay]
  <2>1. q \in ProposalType /\ Changes(i, q) /\ settings' = settings
    BY <1>4, QueueChanges
  <2>2. q.tally = proposals[i].tally
    BY OneProposal DEF ProposalType
  <2>. HIDE DEF q, Goal
  <2>. QED BY <1>1, <1>b, <2>1, <2>2
<1>5. ASSUME NEW i \in Ids, Execute(i) PROVE Goal
  <2>. DEFINE q == [proposals[i] EXCEPT !.executed = TRUE]
  <2>1. q \in ProposalType /\ Changes(i, q) /\ settings' \in NextSettings
    BY <1>5, ExecuteChanges
  <2>2. q.tally = proposals[i].tally
    BY OneProposal DEF ProposalType
  <2>. HIDE DEF q, Goal
  <2>. QED BY <1>1, <2>1, <2>2
<1>6. ASSUME NEW i \in Ids, NEW a \in Accounts, Cancel(a, i) PROVE Goal
  <2>. DEFINE q == [proposals[i] EXCEPT !.canceled = TRUE]
  <2>1. q \in ProposalType /\ Changes(i, q) /\ settings' = settings
    BY <1>6, CancelChanges
  <2>2. q.tally = proposals[i].tally
    BY OneProposal DEF ProposalType
  <2>. HIDE DEF q, Goal
  <2>. QED BY <1>1, <1>b, <2>1, <2>2
<1>7. ASSUME NEW i \in Ids, NEW a \in Accounts, Veto(a, i) PROVE Goal
  <2>. DEFINE q == [proposals[i] EXCEPT !.vetoed = TRUE]
  <2>1. q \in ProposalType /\ Changes(i, q) /\ settings' = settings
    BY <1>7, VetoChanges
  <2>2. q.tally = proposals[i].tally
    BY OneProposal DEF ProposalType
  <2>. HIDE DEF q, Goal
  <2>. QED BY <1>1, <1>b, <2>1, <2>2
<1>8. CASE Background
  <2>1. proposals' = proposals /\ now' = now /\ settings' \in NextSettings
    BY <1>8 DEF Background
  <2>2. Ids' = Ids
    BY <2>1 DEF Ids
  <2>. HIDE DEF Kept
  <2>. QED BY <1>0, <1>a, <2>1, <2>2
<1>9. CASE Mine
  <2>1. proposals' = proposals /\ now' = now + 1 /\ settings' = settings
    BY <1>9, MineKeepsPast
  <2>2. Ids' = Ids
    BY <2>1 DEF Ids
  <2>. HIDE DEF Kept
  <2>. QED BY <1>0, <2>1, <2>2
<1>. HIDE DEF Goal
<1>. QED BY <1>2, <1>3, <1>4, <1>5, <1>6, <1>7, <1>8, <1>9, Steps DEF Step

(***************************************************************************)
(* Proposals are added by propose alone, and with them the latest ones.    *)
(***************************************************************************)
LEMMA OnlyProposeAdds ==
  ASSUME Typed, Timed, [Next]_vars,
         ~ \E a \in Accounts, payload \in Payloads : Propose(a, payload)
  PROVE  Ids' = Ids /\ latestProposalIds' = latestProposalIds
<1>. DEFINE Kept == Ids' = Ids /\ latestProposalIds' = latestProposalIds
<1>1. ASSUME NEW i \in Ids, NEW q \in ProposalType, Changes(i, q) PROVE Kept
  BY <1>1, Replaced DEF Changes
<1>2. Background \/ Mine => Kept
  BY DEF Background, Mine, governorVars, Ids
<1>. QED BY <1>1, <1>2, Steps, CastVoteChanges, QueueChanges, ExecuteChanges,
            CancelChanges, VetoChanges DEF Step

(***************************************************************************)
(* A proposal is made before its vote starts, which is before it ends.     *)
(***************************************************************************)
LEMMA TimedStep ==
  ASSUME Typed, Timed, [Next]_vars
  PROVE  Timed'
<1>1. ASSUME NEW k \in Ids
      PROVE  /\ proposals'[k].creationBlock <= now'
             /\ proposals'[k].creationBlock < proposals'[k].startBlock
             /\ proposals'[k].startBlock < proposals'[k].endBlock
  <2>1. Fixed(proposals[k], proposals'[k]) /\ now' \in {now, now + 1}
    BY StepKeeps
  <2>2. now \in Nat /\ proposals[k].creationBlock \in Nat
    BY OneProposal DEF Typed, ProposalType
  <2>3. proposals[k].creationBlock <= now'
    BY <2>1, <2>2 DEF Timed
  <2>. QED BY <2>1, <2>3 DEF Fixed, Timed
<1>2. ASSUME NEW a \in Accounts, NEW payload \in Payloads, Propose(a, payload) PROVE Timed'
  <2>. DEFINE new == Len(proposals) + 1
  <2>1. /\ Ids' = Ids \cup {new} /\ now' = now /\ proposals' \in Seq(ProposalType)
        /\ Len(proposals') = new
        /\ proposals'[new].creationBlock = now /\ proposals'[new].startBlock > now
        /\ proposals'[new].endBlock > proposals'[new].startBlock
    BY <1>2, ProposeAppends
  <2>2. /\ now \in Nat /\ proposals'[new].startBlock \in Nat /\ proposals'[new].endBlock \in Nat
    <3>1. proposals'[new] \in ProposalType
      BY <2>1 DEF Typed
    <3>. QED BY <3>1 DEF Typed, ProposalType
  <2>. HIDE DEF new
  <2>3. /\ proposals'[new].creationBlock <= now'
        /\ proposals'[new].creationBlock < proposals'[new].startBlock
        /\ proposals'[new].startBlock < proposals'[new].endBlock
    BY <2>1, <2>2
  <2>. QED BY <1>1, <2>1, <2>3 DEF Timed
<1>3. CASE Ids' = Ids
  BY <1>1, <1>3 DEF Timed
<1>4. CASE ~ \E a \in Accounts, payload \in Payloads : Propose(a, payload)
  BY <1>3, <1>4, OnlyProposeAdds
<1>. QED BY <1>2, <1>4

(***************************************************************************)
(* Once the vote has ended, whether a proposal has passed is final: no     *)
(* vote is added, and no call to the settings changes the quorum it is     *)
(* measured by, although that is looked up again on every call.            *)
(***************************************************************************)
LEMMA PassedFinal ==
  ASSUME Typed, Timed, [Next]_vars, NEW k \in Ids, now > proposals[k].endBlock
  PROVE  Passed(proposals[k])' <=> Passed(proposals[k])
<1>1. /\ proposals'[k].tally = proposals[k].tally
      /\ Fixed(proposals[k], proposals'[k])
      /\ \A b \in 0 .. now - 1 : ParamsAt(settings', b) = ParamsAt(settings, b)
  BY StepKeeps
<1>2. proposals[k].creationBlock \in 0 .. now - 1
  <2>. DEFINE p == proposals[k]
  <2>1. now \in Nat /\ p.creationBlock \in Nat /\ p.startBlock \in Nat /\ p.endBlock \in Nat
    BY OneProposal DEF Typed, ProposalType
  <2>2. p.creationBlock < p.startBlock /\ p.startBlock < p.endBlock /\ now > p.endBlock
    BY DEF Timed
  <2>. HIDE DEF p
  <2>3. p.creationBlock \in 0 .. now - 1
    BY <2>1, <2>2
  <2>. QED BY <2>3 DEF p
<1>3. ParamsAt(settings', proposals[k].creationBlock) = ParamsAt(settings, proposals[k].creationBlock)
  BY <1>1, <1>2
<1>. QED BY <1>1, <1>3 DEF Passed, quorumVotes, Fixed, ParamsAt

-------------------------------------------------------------------------------
(* The inductive invariant.                                                *)

Stopped(i) == proposals[i].canceled \/ proposals[i].vetoed
Live(i)    == ~ Stopped(i) /\ now <= proposals[i].endBlock

\* queue has put its actions into the timelock, and nothing has used them up
InTimelock(i) ==
  /\ proposals[i].eta # 0
  /\ ~ Stopped(i) /\ ~ proposals[i].executed

\* a stopped proposal has the action at that eta
StoppedTwin(tx, eta) ==
  \E j \in Ids : /\ Stopped(j)
                 /\ tx \in ToSet(proposals[j].payload) /\ proposals[j].eta = eta

LiveIsLatest ==
  \A i \in Ids : Live(i) => latestProposalIds[proposals[i].proposer] = i

\* only a proposal that has passed is queued, and only a queued one executed
QueuedPassed ==
  \A i \in Ids :
    /\ proposals[i].executed => proposals[i].eta # 0
    /\ proposals[i].eta # 0 =>
         /\ now > proposals[i].endBlock /\ Passed(proposals[i])
         /\ proposals[i].eta > proposals[i].endBlock + MINIMUM_DELAY

EntriesQueued ==
  \A entry \in queuedTransactions :
    \E i \in Ids : InTimelock(i) /\ entry \in Entries(ToSet(proposals[i].payload), proposals[i].eta)

\* what a queued proposal misses, a stopped one has taken away
MissingHasTwin ==
  \A i \in Ids : InTimelock(i) =>
    \A tx \in ToSet(proposals[i].payload) :
      \/ [tx |-> tx, eta |-> proposals[i].eta] \in queuedTransactions
      \/ StoppedTwin(tx, proposals[i].eta)

\* two queued proposals share an action and its eta only if a stopped one does:
\* queue refuses an entry that is there
SharedHasTwin ==
  \A i, k \in Ids :
    i # k /\ InTimelock(i) /\ InTimelock(k) /\ proposals[i].eta = proposals[k].eta =>
      \A tx \in ToSet(proposals[i].payload) \cap ToSet(proposals[k].payload) :
        StoppedTwin(tx, proposals[i].eta)

TimelockInv == EntriesQueued /\ MissingHasTwin /\ SharedHasTwin

GovInv == Typed /\ Timed /\ LiveIsLatest /\ QueuedPassed /\ TimelockInv

(***************************************************************************)
(* What state() tells, read off the fields.                                *)
(***************************************************************************)
LEMMA StateOf ==
  ASSUME Typed, Timed, NEW i \in Ids
  PROVE  /\ State(i) \in {"Pending", "Active"} <=> Live(i)
         /\ State(i) \in {"Canceled", "Vetoed"} <=> Stopped(i)
         /\ State(i) = "Active" =>
              ~ Stopped(i) /\ now > proposals[i].startBlock /\ now <= proposals[i].endBlock
         /\ State(i) = "Succeeded" =>
              /\ ~ Stopped(i) /\ now > proposals[i].endBlock
              /\ Passed(proposals[i]) /\ proposals[i].eta = 0
         /\ State(i) \in {"Queued", "Expired"} <=>
              /\ ~ Stopped(i) /\ now > proposals[i].endBlock
              /\ Passed(proposals[i]) /\ proposals[i].eta # 0 /\ ~ proposals[i].executed
<1>. DEFINE p == proposals[i]
<1>1. /\ now \in Nat /\ p.startBlock \in Nat /\ p.endBlock \in Nat
      /\ p.startBlock < p.endBlock
      /\ p.canceled \in BOOLEAN /\ p.vetoed \in BOOLEAN /\ p.executed \in BOOLEAN
  BY OneProposal DEF Typed, Timed, ProposalType
<1>. DEFINE ok == Passed(p)
            late == now >= p.eta + GRACE_PERIOD
<1>2. State(i) = IF p.vetoed THEN "Vetoed"
                 ELSE IF p.canceled THEN "Canceled"
                 ELSE IF now <= p.startBlock THEN "Pending"
                 ELSE IF now <= p.endBlock THEN "Active"
                 ELSE IF ~ ok THEN "Defeated"
                 ELSE IF p.eta = 0 THEN "Succeeded"
                 ELSE IF p.executed THEN "Executed"
                 ELSE IF late THEN "Expired"
                 ELSE "Queued"
  BY DEF State
<1>. HIDE DEF ok, late
<1>3. Stopped(i) <=> p.canceled \/ p.vetoed
  BY DEF Stopped
<1>4. Live(i) <=> ~ Stopped(i) /\ now <= p.endBlock
  BY DEF Live
<1>5. (now <= p.startBlock => now <= p.endBlock)
      /\ (now > p.endBlock <=> ~ (now <= p.endBlock))
      /\ (now > p.startBlock <=> ~ (now <= p.startBlock))
  <2>. HIDE DEF p
  <2>. QED BY <1>1
<1>. DEFINE pending == now <= p.startBlock
            open    == now <= p.endBlock
            over    == now > p.endBlock
            started == now > p.startBlock
<1>6. (pending => open) /\ (over <=> ~ open) /\ (started <=> ~ pending)
  BY <1>5
<1>. HIDE DEF pending, open, over, started
<1>7. /\ State(i) \in {"Pending", "Active"} <=> Live(i)
      /\ State(i) \in {"Canceled", "Vetoed"} <=> Stopped(i)
      /\ State(i) = "Active" => ~ Stopped(i) /\ started /\ open
      /\ State(i) = "Succeeded" => ~ Stopped(i) /\ over /\ ok /\ p.eta = 0
      /\ State(i) \in {"Queued", "Expired"} <=>
           ~ Stopped(i) /\ over /\ ok /\ p.eta # 0 /\ ~ p.executed
  BY <1>1, <1>2, <1>3, <1>4, <1>6 DEF pending, open
<1>. QED BY <1>7 DEF ok, over, open, started

(***************************************************************************)
(* propose looks at the latest proposal of the proposer only; that is      *)
(* enough, since a live proposal is the latest one of its proposer.        *)
(***************************************************************************)
LEMMA LiveIsLatestStep ==
  ASSUME Typed, Timed, LiveIsLatest, [Next]_vars
  PROVE  LiveIsLatest'
<1>1. ASSUME NEW k \in Ids PROVE Live(k)' => Live(k)
  <2>1. Fixed(proposals[k], proposals'[k]) /\ now' \in {now, now + 1}
    BY StepKeeps
  <2>2. now \in Nat /\ proposals[k].endBlock \in Nat
    BY OneProposal DEF Typed, ProposalType
  <2>. QED BY <2>1, <2>2 DEF Live, Stopped, Fixed
<1>2. ASSUME NEW k \in Ids PROVE proposals'[k].proposer = proposals[k].proposer
  BY StepKeeps DEF Fixed
<1>3. CASE Ids' = Ids /\ latestProposalIds' = latestProposalIds
  BY <1>1, <1>2, <1>3 DEF LiveIsLatest
<1>4. ASSUME NEW a \in Accounts, NEW payload \in Payloads, Propose(a, payload)
      PROVE  LiveIsLatest'
  <2>. DEFINE new == Len(proposals) + 1
  <2>1. /\ Ids' = Ids \cup {new} /\ now' = now /\ proposals'[new].proposer = a
        /\ latestProposalIds' = [latestProposalIds EXCEPT ![a] = new]
    BY <1>4, ProposeAppends
  <2>2. latestProposalIds \in [Accounts -> Nat]
    BY DEF Typed
  <2>. HIDE DEF new
  <2>3. latestProposalIds'[a] = new
    BY <2>1, <2>2
  <2>4. ASSUME NEW k \in Ids, Live(k)'
        PROVE  latestProposalIds'[proposals'[k].proposer] = k
    <3>1. Live(k) /\ latestProposalIds[proposals[k].proposer] = k
      BY <1>1, <2>4 DEF LiveIsLatest
    <3>2. proposals[k].proposer \in Accounts /\ k # 0
      BY OneProposal DEF ProposalType, Ids
    <3>3. proposals[k].proposer # a
      <4>1. ASSUME proposals[k].proposer = a PROVE FALSE
        <5>1. latestProposalIds[a] = k /\ State(k) \notin {"Active", "Pending"}
          BY <1>4, <3>1, <3>2, <4>1 DEF Propose, MayPropose
        <5>. QED BY <3>1, <5>1, StateOf
      <4>. QED BY <4>1
    <3>. QED BY <1>2, <2>1, <2>2, <3>1, <3>2, <3>3
  <2>. QED BY <2>1, <2>3, <2>4 DEF LiveIsLatest
<1>. QED BY <1>3, <1>4, OnlyProposeAdds

-------------------------------------------------------------------------------
(* Queued proposals.                                                       *)

(***************************************************************************)
(* The eta of a proposal is set by queue, and executed by execute.         *)
(***************************************************************************)
LEMMA EtasChange ==
  ASSUME Typed, Timed, [Next]_vars, NEW k \in Ids
  PROVE  \/ Queue(k) /\ proposals'[k] = [proposals[k] EXCEPT !.eta = now + timelock.delay]
         \/ Execute(k) /\ proposals'[k] = [proposals[k] EXCEPT !.executed = TRUE]
         \/ /\ proposals'[k].eta = proposals[k].eta
            /\ proposals'[k].executed = proposals[k].executed
<1>. DEFINE Same == /\ proposals'[k].eta = proposals[k].eta
                    /\ proposals'[k].executed = proposals[k].executed
<1>1. ASSUME NEW i \in Ids, NEW q \in ProposalType, Changes(i, q), k # i PROVE Same
  BY <1>1, Replaced DEF Changes
<1>2. ASSUME NEW i \in Ids, NEW q \in ProposalType, Changes(i, q), k = i PROVE proposals'[k] = q
  BY <1>2, Replaced DEF Changes
<1>3. proposals[k] \in ProposalType
  BY OneProposal
<1>4. ASSUME NEW a \in Accounts, NEW payload \in Payloads, Propose(a, payload) PROVE Same
  BY <1>4, ProposeAppends
<1>5. ASSUME NEW i \in Ids, NEW c \in Intentions, CastVote(c[1], i, c[2]) PROVE Same
  <2>. DEFINE p == proposals[i]
              t == [p.tally EXCEPT ![c[2]] = @ + VoteWeight(p, c[1])]
              r == [p.receipts EXCEPT ![c[1]] = c[2]]
              q == [p EXCEPT !.tally = t, !.receipts = r]
  <2>1. q \in ProposalType /\ Changes(i, q)
    BY <1>5, CastVoteChanges
  <2>2. q.eta = p.eta /\ q.executed = p.executed
    <3>1. p \in ProposalType
      BY OneProposal
    <3>. HIDE DEF t, r, p
    <3>. QED BY <3>1 DEF ProposalType
  <2>. HIDE DEF q
  <2>. QED BY <1>1, <1>2, <2>1, <2>2
<1>6. ASSUME NEW i \in Ids, Queue(i)
      PROVE  \/ Same
             \/ Queue(k) /\ proposals'[k] = [proposals[k] EXCEPT !.eta = now + timelock.delay]
  BY <1>1, <1>2, <1>6, QueueChanges
<1>7. ASSUME NEW i \in Ids, Execute(i)
      PROVE  \/ Same
             \/ Execute(k) /\ proposals'[k] = [proposals[k] EXCEPT !.executed = TRUE]
  BY <1>1, <1>2, <1>7, ExecuteChanges
<1>8. ASSUME NEW i \in Ids, NEW a \in Accounts, Cancel(a, i) PROVE Same
  <2>. DEFINE q == [proposals[i] EXCEPT !.canceled = TRUE]
  <2>1. q \in ProposalType /\ Changes(i, q)
    BY <1>8, CancelChanges
  <2>2. q.eta = proposals[i].eta /\ q.executed = proposals[i].executed
    BY OneProposal DEF ProposalType
  <2>. HIDE DEF q
  <2>. QED BY <1>1, <1>2, <2>1, <2>2
<1>9. ASSUME NEW i \in Ids, NEW a \in Accounts, Veto(a, i) PROVE Same
  <2>. DEFINE q == [proposals[i] EXCEPT !.vetoed = TRUE]
  <2>1. q \in ProposalType /\ Changes(i, q)
    BY <1>9, VetoChanges
  <2>2. q.eta = proposals[i].eta /\ q.executed = proposals[i].executed
    BY OneProposal DEF ProposalType
  <2>. HIDE DEF q
  <2>. QED BY <1>1, <1>2, <2>1, <2>2
<1>10. CASE Background \/ Mine
  BY <1>10 DEF Background, Mine, governorVars
<1>. QED BY <1>4, <1>5, <1>6, <1>7, <1>8, <1>9, <1>10, Steps DEF Step

(***************************************************************************)
(* A proposal is queued only when its vote is over and it has passed, and  *)
(* then its eta is a full delay away.                                      *)
(***************************************************************************)
LEMMA QueuedPassedStep ==
  ASSUME Typed, Timed, QueuedPassed, [Next]_vars
  PROVE  QueuedPassed'
<1>. DEFINE Ok(k) == /\ proposals[k].executed => proposals[k].eta # 0
                     /\ proposals[k].eta # 0 =>
                          /\ now > proposals[k].endBlock /\ Passed(proposals[k])
                          /\ proposals[k].eta > proposals[k].endBlock + MINIMUM_DELAY
<1>1. ASSUME NEW k \in Ids PROVE Ok(k)'
  <2>1. /\ now \in Nat /\ now' \in {now, now + 1}
        /\ proposals[k].endBlock \in Nat /\ proposals[k].eta \in Nat
        /\ proposals'[k].endBlock = proposals[k].endBlock
        /\ proposals[k] \in ProposalType
    BY OneProposal, StepKeeps DEF Typed, ProposalType, Fixed
  <2>2. Ok(k)
    BY DEF QueuedPassed
  <2>3. now > proposals[k].endBlock =>
          now' > proposals'[k].endBlock /\ (Passed(proposals[k])' <=> Passed(proposals[k]))
    BY <2>1, PassedFinal
  <2>4. CASE Queue(k) /\ proposals'[k] = [proposals[k] EXCEPT !.eta = now + timelock.delay]
    <3>1. now > proposals[k].endBlock /\ Passed(proposals[k])
      BY <2>4, StateOf DEF Queue
    <3>2. timelock.delay \in Nat /\ timelock.delay >= MINIMUM_DELAY /\ MINIMUM_DELAY \in Nat \ {0}
      BY DelaysAreOrdered DEF Typed, TimelockType
    <3>3. proposals'[k].eta = now + timelock.delay
      BY <2>1, <2>4 DEF ProposalType
    <3>4. now + timelock.delay > proposals[k].endBlock + MINIMUM_DELAY /\ now + timelock.delay # 0
      BY <2>1, <3>1, <3>2
    <3>. QED BY <2>1, <2>3, <3>1, <3>3, <3>4
  <2>5. CASE Execute(k) /\ proposals'[k] = [proposals[k] EXCEPT !.executed = TRUE]
    <3>1. proposals[k].eta # 0
      BY <2>5, StateOf DEF Execute
    <3>2. proposals'[k].eta = proposals[k].eta
      BY <2>1, <2>5 DEF ProposalType
    <3>. QED BY <2>1, <2>2, <2>3, <3>1, <3>2
  <2>6. CASE /\ proposals'[k].eta = proposals[k].eta
             /\ proposals'[k].executed = proposals[k].executed
    BY <2>1, <2>2, <2>3, <2>6
  <2>. QED BY <2>4, <2>5, <2>6, EtasChange
<1>2. ASSUME NEW a \in Accounts, NEW payload \in Payloads, Propose(a, payload)
      PROVE  \A k \in Ids' \ Ids : Ok(k)'
  BY <1>2, ProposeAppends
<1>3. (~ \E a \in Accounts, payload \in Payloads : Propose(a, payload)) => Ids' = Ids
  BY OnlyProposeAdds
<1>4. \A k \in Ids' : Ok(k)'
  <2>. HIDE DEF Ok
  <2>. QED BY <1>1, <1>2, <1>3
<1>. QED BY <1>4 DEF QueuedPassed

\* the fields the timelock depends on
SameEntries(k) ==
  /\ proposals'[k].payload = proposals[k].payload
  /\ proposals'[k].eta = proposals[k].eta
  /\ proposals'[k].canceled = proposals[k].canceled
  /\ proposals'[k].vetoed = proposals[k].vetoed
  /\ proposals'[k].executed = proposals[k].executed

\* a stopped proposal has it after the step
TwinAfter(tx, eta) ==
  \E j \in Ids' : /\ Stopped(j)'
                  /\ tx \in ToSet(proposals'[j].payload) /\ proposals'[j].eta = eta

\* a step that neither queues nor takes back
Quiet ==
  /\ queuedTransactions' = queuedTransactions
  /\ Ids \subseteq Ids'
  /\ \A k \in Ids : SameEntries(k)
  /\ \A k \in Ids' \ Ids : proposals'[k].eta = 0

\* a step that takes the entries of proposal i back, since it is stopped or executed
TakesBack(i) ==
  /\ queuedTransactions' = queuedTransactions \ Entries(ToSet(proposals[i].payload), proposals[i].eta)
  /\ Ids' = Ids
  /\ \A k \in Ids \ {i} : SameEntries(k)
  /\ proposals'[i].payload = proposals[i].payload /\ proposals'[i].eta = proposals[i].eta
  /\ \/ Stopped(i)'
     \/ InTimelock(i) /\ proposals'[i].executed

\* a step that adds the entries of proposal i, none of which is there
PutsIn(i, eta) ==
  /\ eta # 0 /\ proposals[i].eta = 0
  /\ ~ Stopped(i) /\ ~ proposals[i].executed
  /\ Entries(ToSet(proposals[i].payload), eta) \cap queuedTransactions = {}
  /\ queuedTransactions' = queuedTransactions \cup Entries(ToSet(proposals[i].payload), eta)
  /\ Ids' = Ids
  /\ \A k \in Ids \ {i} : SameEntries(k)
  /\ proposals'[i] = [proposals[i] EXCEPT !.eta = eta]

(***************************************************************************)
(* Every step is one of the three.                                         *)
(***************************************************************************)
LEMMA EntriesChange ==
  ASSUME Typed, Timed, QueuedPassed, [Next]_vars
  PROVE  \/ Quiet
         \/ \E i \in Ids : TakesBack(i)
         \/ \E i \in Ids : \E eta : PutsIn(i, eta)
<1>1. ASSUME NEW i \in Ids, NEW q \in ProposalType, Changes(i, q)
      PROVE  /\ Ids' = Ids /\ proposals'[i] = q
             /\ \A k \in Ids \ {i} : SameEntries(k)
  BY <1>1, Replaced DEF Changes, SameEntries
<1>2. ASSUME NEW a \in Accounts, NEW payload \in Payloads, Propose(a, payload) PROVE Quiet
  BY <1>2, ProposeAppends DEF Quiet, SameEntries
<1>3. ASSUME NEW i \in Ids, NEW c \in Intentions, CastVote(c[1], i, c[2]) PROVE Quiet
  <2>. DEFINE p == proposals[i]
              t == [p.tally EXCEPT ![c[2]] = @ + VoteWeight(p, c[1])]
              r == [p.receipts EXCEPT ![c[1]] = c[2]]
              q == [p EXCEPT !.tally = t, !.receipts = r]
  <2>1. q \in ProposalType /\ Changes(i, q) /\ queuedTransactions' = queuedTransactions
    BY <1>3, CastVoteChanges
  <2>2. /\ q.eta = p.eta /\ q.executed = p.executed /\ q.payload = p.payload
        /\ q.canceled = p.canceled /\ q.vetoed = p.vetoed
    <3>1. p \in ProposalType
      BY OneProposal
    <3>. HIDE DEF t, r, p
    <3>. QED BY <3>1 DEF ProposalType
  <2>. HIDE DEF q
  <2>. QED BY <1>1, <2>1, <2>2 DEF Quiet, SameEntries
<1>4. ASSUME NEW i \in Ids, Queue(i) PROVE PutsIn(i, now + timelock.delay)
  <2>. DEFINE eta == now + timelock.delay
              q   == [proposals[i] EXCEPT !.eta = eta]
  <2>1. q \in ProposalType /\ Changes(i, q) /\ eta \in Nat /\ eta >= now + MINIMUM_DELAY
    BY <1>4, QueueChanges
  <2>2. eta # 0
    <3>1. now \in Nat /\ MINIMUM_DELAY \in Nat \ {0}
      BY DelaysAreOrdered DEF Typed
    <3>. HIDE DEF eta
    <3>. QED BY <2>1, <3>1
  <2>3. ~ Stopped(i) /\ proposals[i].eta = 0 /\ ~ proposals[i].executed
    BY <1>4, StateOf DEF Queue, QueuedPassed
  <2>4. /\ Entries(ToSet(proposals[i].payload), eta) \cap queuedTransactions = {}
        /\ queuedTransactions' = queuedTransactions \cup Entries(ToSet(proposals[i].payload), eta)
    BY <1>4 DEF Queue, NotYetQueued, queueTransactions
  <2>5. Ids' = Ids /\ proposals'[i] = q /\ \A k \in Ids \ {i} : SameEntries(k)
    <3>. HIDE DEF q
    <3>. QED BY <1>1, <2>1
  <2>. QED BY <2>2, <2>3, <2>4, <2>5 DEF PutsIn
<1>5. ASSUME NEW i \in Ids, Execute(i) PROVE TakesBack(i)
  <2>. DEFINE q == [proposals[i] EXCEPT !.executed = TRUE]
  <2>1. q \in ProposalType /\ Changes(i, q)
    BY <1>5, ExecuteChanges
  <2>2. /\ q.payload = proposals[i].payload /\ q.eta = proposals[i].eta /\ q.executed
    BY OneProposal DEF ProposalType
  <2>3. InTimelock(i)
    BY <1>5, StateOf DEF Execute, InTimelock
  <2>. HIDE DEF q
  <2>. QED BY <1>1, <1>5, <2>1, <2>2, <2>3 DEF Execute, executeTransactions, TakesBack
<1>6. ASSUME NEW i \in Ids, NEW a \in Accounts, Cancel(a, i) PROVE TakesBack(i)
  <2>. DEFINE q == [proposals[i] EXCEPT !.canceled = TRUE]
  <2>1. q \in ProposalType /\ Changes(i, q)
    BY <1>6, CancelChanges
  <2>2. /\ q.payload = proposals[i].payload /\ q.eta = proposals[i].eta /\ q.canceled
    BY OneProposal DEF ProposalType
  <2>. HIDE DEF q
  <2>. QED BY <1>1, <1>6, <2>1, <2>2 DEF Cancel, cancelTransactions, TakesBack, Stopped
<1>7. ASSUME NEW i \in Ids, NEW a \in Accounts, Veto(a, i) PROVE TakesBack(i)
  <2>. DEFINE q == [proposals[i] EXCEPT !.vetoed = TRUE]
  <2>1. q \in ProposalType /\ Changes(i, q)
    BY <1>7, VetoChanges
  <2>2. /\ q.payload = proposals[i].payload /\ q.eta = proposals[i].eta /\ q.vetoed
    BY OneProposal DEF ProposalType
  <2>. HIDE DEF q
  <2>. QED BY <1>1, <1>7, <2>1, <2>2 DEF Veto, cancelTransactions, TakesBack, Stopped
<1>8. CASE Background \/ Mine
  <2>1. proposals' = proposals /\ queuedTransactions' = queuedTransactions
    BY <1>8 DEF Background, Mine, governorVars, executorVars
  <2>2. Ids' = Ids
    BY <2>1 DEF Ids
  <2>. QED BY <2>1, <2>2 DEF Quiet, SameEntries
<1>. QED BY <1>2, <1>3, <1>4, <1>5, <1>6, <1>7, <1>8, Steps DEF Step

(***************************************************************************)
(* A step that neither queues nor takes back keeps the timelock and the    *)
(* queued proposals in step.                                               *)
(***************************************************************************)
LEMMA QuietKeeps ==
  ASSUME TimelockInv, Quiet
  PROVE  TimelockInv'
<1>1. ASSUME NEW k \in Ids
      PROVE  (InTimelock(k)' <=> InTimelock(k)) /\ (Stopped(k)' <=> Stopped(k))
  BY DEF Quiet, SameEntries, InTimelock, Stopped
<1>2. ASSUME NEW k \in Ids' \ Ids PROVE ~ InTimelock(k)'
  BY DEF Quiet, InTimelock
<1>3. ASSUME NEW tx, NEW eta, StoppedTwin(tx, eta) PROVE TwinAfter(tx, eta)
  BY <1>1, <1>3 DEF Quiet, SameEntries, StoppedTwin, TwinAfter
<1>4. EntriesQueued'
  BY <1>1 DEF TimelockInv, EntriesQueued, Quiet, SameEntries
<1>5. MissingHasTwin'
  BY <1>1, <1>2, <1>3 DEF TimelockInv, MissingHasTwin, StoppedTwin, TwinAfter, Quiet, SameEntries
<1>6. SharedHasTwin'
  BY <1>1, <1>2, <1>3 DEF TimelockInv, SharedHasTwin, StoppedTwin, TwinAfter, Quiet, SameEntries
<1>. QED BY <1>4, <1>5, <1>6 DEF TimelockInv

(***************************************************************************)
(* So does one that takes the entries of a proposal back: if a queued one  *)
(* misses some of them now, the proposal is a stopped twin, or it had one. *)
(***************************************************************************)
LEMMA TakingBackKeeps ==
  ASSUME TimelockInv, NEW i \in Ids, TakesBack(i)
  PROVE  TimelockInv'
<1>1. ASSUME NEW k \in Ids, k # i
      PROVE  /\ InTimelock(k)' <=> InTimelock(k)
             /\ Stopped(k)' <=> Stopped(k)
             /\ SameEntries(k)
  BY <1>1 DEF TakesBack, SameEntries, InTimelock, Stopped
<1>2. ~ InTimelock(i)'
  BY DEF TakesBack, InTimelock
<1>3. ASSUME NEW tx, NEW eta, StoppedTwin(tx, eta) PROVE TwinAfter(tx, eta)
  <2>1. PICK j \in Ids : /\ Stopped(j)
                       /\ tx \in ToSet(proposals[j].payload) /\ proposals[j].eta = eta
    BY <1>3 DEF StoppedTwin
  <2>2. CASE j # i
    BY <1>1, <2>1, <2>2 DEF TwinAfter, SameEntries, TakesBack
  <2>3. CASE j = i
    <3>1. Stopped(i)'
      BY <2>1, <2>3 DEF TakesBack, InTimelock
    <3>. QED BY <2>1, <2>3, <3>1 DEF TwinAfter, TakesBack
  <2>. QED BY <2>2, <2>3
<1>4. EntriesQueued'
  <2>1. ASSUME NEW entry \in queuedTransactions'
        PROVE  \E k \in Ids' : /\ InTimelock(k)'
                               /\ entry \in Entries(ToSet(proposals'[k].payload), proposals'[k].eta)
    <3>1. PICK k \in Ids : /\ InTimelock(k)
                           /\ entry \in Entries(ToSet(proposals[k].payload), proposals[k].eta)
      BY DEF TimelockInv, EntriesQueued, TakesBack
    <3>2. k # i
      BY <3>1 DEF TakesBack
    <3>. QED BY <1>1, <3>1, <3>2 DEF SameEntries, TakesBack
  <2>. QED BY <2>1 DEF EntriesQueued
<1>5. MissingHasTwin'
  <2>1. ASSUME NEW k \in Ids, InTimelock(k)', NEW tx \in ToSet(proposals[k].payload),
               [tx |-> tx, eta |-> proposals[k].eta] \notin queuedTransactions'
        PROVE  TwinAfter(tx, proposals[k].eta)
    <3>1. k # i /\ InTimelock(k)
      BY <1>1, <1>2, <2>1
    <3>2. CASE [tx |-> tx, eta |-> proposals[k].eta] \notin queuedTransactions
      BY <1>3, <3>1, <3>2 DEF TimelockInv, MissingHasTwin
    <3>3. CASE [tx |-> tx, eta |-> proposals[k].eta] \in queuedTransactions
      <4>1. [tx |-> tx, eta |-> proposals[k].eta]
              \in Entries(ToSet(proposals[i].payload), proposals[i].eta)
        BY <2>1, <3>3 DEF TakesBack
      <4>2. PICK ty \in ToSet(proposals[i].payload) :
              [tx |-> tx, eta |-> proposals[k].eta] = [tx |-> ty, eta |-> proposals[i].eta]
        BY <4>1 DEF Entries
      <4>3. tx = ty /\ proposals[k].eta = proposals[i].eta
        <5>. DEFINE e == [tx |-> tx, eta |-> proposals[k].eta]
                    f == [tx |-> ty, eta |-> proposals[i].eta]
        <5>1. e.tx = f.tx /\ e.eta = f.eta
          <6>. HIDE DEF e, f
          <6>. QED BY <4>2 DEF e, f
        <5>. QED BY <5>1
      <4>4. CASE Stopped(i)'
        BY <4>2, <4>3, <4>4 DEF TwinAfter, TakesBack
      <4>5. CASE InTimelock(i)
        <5>1. StoppedTwin(tx, proposals[k].eta)
          BY <2>1, <3>1, <4>2, <4>3, <4>5 DEF TimelockInv, SharedHasTwin
        <5>. QED BY <1>3, <5>1
      <4>. QED BY <4>4, <4>5 DEF TakesBack
    <3>. QED BY <3>2, <3>3
  <2>2. ASSUME NEW k \in Ids, InTimelock(k)' PROVE SameEntries(k)
    BY <1>1, <1>2, <2>2
  <2>. QED BY <2>1, <2>2 DEF MissingHasTwin, StoppedTwin, TwinAfter, SameEntries, TakesBack
<1>6. SharedHasTwin'
  <2>1. ASSUME NEW j \in Ids, NEW k \in Ids, j # k, InTimelock(j)', InTimelock(k)',
               proposals'[j].eta = proposals'[k].eta,
               NEW tx \in ToSet(proposals'[j].payload) \cap ToSet(proposals'[k].payload)
        PROVE  TwinAfter(tx, proposals'[j].eta)
    <3>1. InTimelock(j) /\ InTimelock(k) /\ SameEntries(j) /\ SameEntries(k)
      BY <1>1, <1>2, <2>1
    <3>2. StoppedTwin(tx, proposals[j].eta)
      BY <2>1, <3>1 DEF TimelockInv, SharedHasTwin, SameEntries
    <3>. QED BY <1>3, <3>1, <3>2 DEF SameEntries
  <2>. QED BY <2>1 DEF SharedHasTwin, StoppedTwin, TwinAfter, TakesBack
<1>. QED BY <1>4, <1>5, <1>6 DEF TimelockInv

(***************************************************************************)
(* So does queue: a proposal that shares an action with one that is queued *)
(* has found it missing, so that a stopped one has taken it.               *)
(***************************************************************************)
LEMMA PuttingInKeeps ==
  ASSUME Typed, TimelockInv, NEW i \in Ids, NEW eta, PutsIn(i, eta)
  PROVE  TimelockInv'
<1>0. proposals[i] \in ProposalType
  BY OneProposal
<1>1. ASSUME NEW k \in Ids, k # i
      PROVE  /\ InTimelock(k)' <=> InTimelock(k)
             /\ Stopped(k)' <=> Stopped(k)
             /\ SameEntries(k)
  BY <1>1 DEF PutsIn, SameEntries, InTimelock, Stopped
<1>2. /\ InTimelock(i)' /\ ~ InTimelock(i) /\ ~ Stopped(i)
      /\ proposals'[i].eta = eta /\ proposals'[i].payload = proposals[i].payload
  BY <1>0 DEF PutsIn, InTimelock, Stopped, ProposalType
<1>3. ASSUME NEW tx, NEW e, StoppedTwin(tx, e) PROVE TwinAfter(tx, e)
  BY <1>1, <1>2, <1>3 DEF StoppedTwin, TwinAfter, SameEntries, PutsIn
<1>4. EntriesQueued'
  <2>1. ASSUME NEW entry \in queuedTransactions'
        PROVE  \E k \in Ids' : /\ InTimelock(k)'
                               /\ entry \in Entries(ToSet(proposals'[k].payload), proposals'[k].eta)
    <3>1. CASE entry \in queuedTransactions
      <4>1. PICK k \in Ids : /\ InTimelock(k)
                             /\ entry \in Entries(ToSet(proposals[k].payload), proposals[k].eta)
        BY <3>1 DEF TimelockInv, EntriesQueued
      <4>. QED BY <1>1, <1>2, <4>1 DEF SameEntries, PutsIn
    <3>2. CASE entry \in Entries(ToSet(proposals[i].payload), eta)
      BY <1>2, <3>2 DEF PutsIn
    <3>. QED BY <3>1, <3>2 DEF PutsIn
  <2>. QED BY <2>1 DEF EntriesQueued
<1>5. MissingHasTwin'
  <2>1. ASSUME NEW k \in Ids, InTimelock(k)', NEW tx \in ToSet(proposals'[k].payload)
        PROVE  \/ [tx |-> tx, eta |-> proposals'[k].eta] \in queuedTransactions'
               \/ TwinAfter(tx, proposals'[k].eta)
    <3>1. CASE k = i
      BY <1>2, <2>1, <3>1 DEF PutsIn, Entries
    <3>2. CASE k # i
      BY <1>1, <1>3, <2>1, <3>2 DEF TimelockInv, MissingHasTwin, SameEntries, PutsIn
    <3>. QED BY <3>1, <3>2
  <2>. QED BY <2>1 DEF MissingHasTwin, StoppedTwin, TwinAfter, PutsIn
<1>6. SharedHasTwin'
  <2>1. ASSUME NEW k \in Ids, k # i, InTimelock(k)', proposals'[k].eta = eta,
               NEW tx \in ToSet(proposals[k].payload) \cap ToSet(proposals[i].payload)
        PROVE  TwinAfter(tx, eta)
    <3>1. [tx |-> tx, eta |-> eta] \notin queuedTransactions
      BY DEF PutsIn, Entries
    <3>2. InTimelock(k) /\ proposals[k].eta = eta
      BY <1>1, <2>1 DEF SameEntries
    <3>. QED BY <1>3, <3>1, <3>2 DEF TimelockInv, MissingHasTwin
  <2>2. ASSUME NEW j \in Ids, NEW k \in Ids, j # k, InTimelock(j)', InTimelock(k)',
               proposals'[j].eta = proposals'[k].eta,
               NEW tx \in ToSet(proposals'[j].payload) \cap ToSet(proposals'[k].payload)
        PROVE  TwinAfter(tx, proposals'[j].eta)
    <3>1. CASE j = i
      BY <1>1, <1>2, <2>1, <2>2, <3>1 DEF SameEntries
    <3>2. CASE k = i
      BY <1>1, <1>2, <2>1, <2>2, <3>2 DEF SameEntries
    <3>3. CASE j # i /\ k # i
      BY <1>1, <1>3, <2>2, <3>3 DEF TimelockInv, SharedHasTwin, SameEntries
    <3>. QED BY <3>1, <3>2, <3>3
  <2>. QED BY <2>2 DEF SharedHasTwin, StoppedTwin, TwinAfter, PutsIn
<1>. QED BY <1>4, <1>5, <1>6 DEF TimelockInv

-------------------------------------------------------------------------------

(***************************************************************************)
(* The contracts start with settings within their bounds.                  *)
(***************************************************************************)
LEMMA Initially == Init => GovInv
<1>. SUFFICES ASSUME Init PROVE GovInv
  OBVIOUS
<1>1. Typed
  <2>1. settings \in SettingsType
    <3>1. InitialSettings.admin \in Appointed /\ InitialSettings.pendingAdmin \in Appointed
      BY DEF Appointed
    <3>. QED BY <3>1, StartsWithinBounds DEF Init, SettingsType, CheckpointOf, ParamsType
  <2>2. Ascending(settings.quorumParams, now)
    <3>1. CheckpointList(settings.quorumParams, ParamsType) /\ Ascending(settings.quorumParams, 0)
      BY <2>1, StartsWithinBounds DEF Init, SettingsType, CheckpointList
    <3>2. \A k \in 1 .. Len(settings.quorumParams) :
            settings.quorumParams[k].fromBlock \in Nat /\ settings.quorumParams[k].fromBlock <= 0
      BY <3>1, ListedBlocks DEF Ascending
    <3>3. \A k \in 1 .. Len(settings.quorumParams) : settings.quorumParams[k].fromBlock <= 1
      BY <3>2
    <3>. QED BY <3>1, <3>3 DEF Ascending, Init
  <2>3. timelock \in TimelockType
    BY StartsWithinBounds DEF Init, TimelockType, Appointed
  <2>4. pastVotes \in [0 .. now - 1 -> [Accounts -> Nat]]
    <3>1. 0 .. 1 - 1 = {0}
      OBVIOUS
    <3>. QED BY <3>1, StartsWithinBounds DEF Init
  <2>. QED BY <2>1, <2>2, <2>3, <2>4, StartsWithinBounds DEF Typed, Init
<1>2. Ids = {} /\ queuedTransactions = {}
  BY DEF Init, Ids
<1>. QED BY <1>1, <1>2 DEF GovInv, Timed, LiveIsLatest, QueuedPassed, TimelockInv,
                        EntriesQueued, MissingHasTwin, SharedHasTwin

(***************************************************************************)
(* The invariant is inductive.                                             *)
(***************************************************************************)
LEMMA Inductive == GovInv /\ [Next]_vars => GovInv'
<1>. SUFFICES ASSUME GovInv, [Next]_vars PROVE GovInv'
  OBVIOUS
<1>1. Typed' /\ Timed' /\ LiveIsLatest' /\ QueuedPassed'
  BY TypedStep, TimedStep, LiveIsLatestStep, QueuedPassedStep DEF GovInv
<1>2. TimelockInv'
  BY EntriesChange, QuietKeeps, TakingBackKeeps, PuttingInKeeps DEF GovInv
<1>. QED BY <1>1, <1>2 DEF GovInv

(***************************************************************************)
(* The governor keeps the invariant.                                       *)
(***************************************************************************)
LEMMA InvariantHolds == Spec => []GovInv
BY Initially, Inductive, PTL DEF Spec

(***************************************************************************)
(* At most one proposal of a proposer is live, for any number of them and  *)
(* whatever is canceled, vetoed or reconfigured meanwhile.                 *)
(***************************************************************************)
THEOREM ProposersHaveOneLive == Spec => []OneLiveProposal
<1>1. GovInv => OneLiveProposal
  <2>. SUFFICES ASSUME GovInv, NEW i \in Ids, NEW j \in Ids,
                       proposals[i].proposer = proposals[j].proposer,
                       {State(i), State(j)} \subseteq {"Pending", "Active"}
                PROVE  i = j
    BY DEF OneLiveProposal
  <2>1. Live(i) /\ Live(j)
    BY StateOf DEF GovInv
  <2>. QED BY <2>1 DEF GovInv, LiveIsLatest
<1>. QED BY <1>1, InvariantHolds, PTL

(***************************************************************************)
(* The timelock holds nothing but the actions of queued or expired         *)
(* proposals, each a full delay after its vote.                            *)
(***************************************************************************)
THEOREM TimelockIsGovernors == Spec => []TimelockHoldsQueued
<1>1. GovInv => TimelockHoldsQueued
  <2>. SUFFICES ASSUME GovInv, NEW entry \in queuedTransactions
                PROVE  \E i \in Ids :
                         /\ entry \in Entries(ToSet(proposals[i].payload), proposals[i].eta)
                         /\ State(i) \in {"Queued", "Expired"}
                         /\ entry.eta > proposals[i].endBlock + MINIMUM_DELAY
    BY DEF TimelockHoldsQueued
  <2>1. PICK i \in Ids : /\ InTimelock(i)
                         /\ entry \in Entries(ToSet(proposals[i].payload), proposals[i].eta)
    BY DEF GovInv, TimelockInv, EntriesQueued
  <2>2. entry.eta = proposals[i].eta
    BY <2>1 DEF Entries
  <2>3. State(i) \in {"Queued", "Expired"}
    BY <2>1, StateOf DEF GovInv, InTimelock, QueuedPassed
  <2>. QED BY <2>1, <2>2, <2>3 DEF GovInv, InTimelock, QueuedPassed
<1>. QED BY <1>1, InvariantHolds, PTL

(***************************************************************************)
(* A queued proposal can be carried out in full, unless a stopped proposal *)
(* had one of its actions at the same eta.                                 *)
(***************************************************************************)
THEOREM OnlyTwinsTakeAway == Spec => []QueuedUnlessTwin
<1>1. GovInv => QueuedUnlessTwin
  <2>. SUFFICES ASSUME GovInv, NEW i \in Ids, State(i) = "Queued", ~ Executable(i)
                PROVE  \E j \in Ids \ {i} :
                         /\ State(j) \in {"Canceled", "Vetoed"}
                         /\ proposals[j].eta = proposals[i].eta
                         /\ ToSet(proposals[j].payload) \cap ToSet(proposals[i].payload) # {}
    BY DEF QueuedUnlessTwin
  <2>1. InTimelock(i) /\ ~ Stopped(i)
    BY StateOf DEF GovInv, InTimelock
  <2>2. PICK tx \in ToSet(proposals[i].payload) :
          [tx |-> tx, eta |-> proposals[i].eta] \notin queuedTransactions
    BY DEF Executable, Entries
  <2>3. PICK j \in Ids : /\ Stopped(j) /\ tx \in ToSet(proposals[j].payload)
                       /\ proposals[j].eta = proposals[i].eta
    BY <2>1, <2>2 DEF GovInv, TimelockInv, MissingHasTwin, StoppedTwin
  <2>4. j # i /\ State(j) \in {"Canceled", "Vetoed"}
    BY <2>1, <2>3, StateOf DEF GovInv
  <2>. QED BY <2>2, <2>3, <2>4
<1>. QED BY <1>1, InvariantHolds, PTL

-------------------------------------------------------------------------------
(* The lifecycle of a proposal.                                            *)

\* the steps of ProposalLifecycle, for proposal i
LifecycleStep(i) ==
  \/ /\ Phase(i)' \in {Phase(i)} \cup Life(i)!Following[Phase(i)]
     /\ Ballots(i)' = Ballots(i)
  \/ /\ Phase(i) \notin {"None", "Executed", "Vetoed"} /\ Phase(i)' = "Vetoed"
     /\ Ballots(i)' = Ballots(i)
  \/ /\ Phase(i) \notin {"None", "Executed", "Vetoed", "Canceled"} /\ Phase(i)' = "Canceled"
     /\ Ballots(i)' = Ballots(i)
  \/ \E v \in Accounts, support \in {Against, For, Abstain} :
       /\ Phase(i) = "Active" /\ Ballots(i)[v] = NoVote
       /\ Ballots(i)' = [Ballots(i) EXCEPT ![v] = support]
       /\ Phase(i)' = Phase(i)

(***************************************************************************)
(* What state() tells before and after a step, with the times that never   *)
(* change.                                                                 *)
(***************************************************************************)
LEMMA StateAfter ==
  ASSUME Typed, Timed, [Next]_vars, NEW k \in Ids
  PROVE  LET p == proposals[k]
             q == proposals'[k]
         IN  /\ State(k) = IF p.vetoed THEN "Vetoed"
                           ELSE IF p.canceled THEN "Canceled"
                           ELSE IF now <= p.startBlock THEN "Pending"
                           ELSE IF now <= p.endBlock THEN "Active"
                           ELSE IF ~ Passed(p) THEN "Defeated"
                           ELSE IF p.eta = 0 THEN "Succeeded"
                           ELSE IF p.executed THEN "Executed"
                           ELSE IF now >= p.eta + GRACE_PERIOD THEN "Expired"
                           ELSE "Queued"
             /\ State(k)' = IF q.vetoed THEN "Vetoed"
                            ELSE IF q.canceled THEN "Canceled"
                            ELSE IF now' <= p.startBlock THEN "Pending"
                            ELSE IF now' <= p.endBlock THEN "Active"
                            ELSE IF ~ Passed(proposals[k])' THEN "Defeated"
                            ELSE IF q.eta = 0 THEN "Succeeded"
                            ELSE IF q.executed THEN "Executed"
                            ELSE IF now' >= q.eta + GRACE_PERIOD THEN "Expired"
                            ELSE "Queued"
             /\ now > p.endBlock => (Passed(proposals[k])' <=> Passed(p))
             /\ p.canceled => q.canceled
             /\ p.vetoed => q.vetoed
             /\ p.executed => q.executed
             /\ now \in Nat /\ p.startBlock \in Nat /\ p.endBlock \in Nat /\ p.eta \in Nat
             /\ p.startBlock < p.endBlock
             /\ p.canceled \in BOOLEAN /\ p.vetoed \in BOOLEAN /\ p.executed \in BOOLEAN
             /\ k \in Ids' /\ Phase(k) = State(k) /\ Phase(k)' = State(k)'
             /\ Ballots(k) = p.receipts /\ Ballots(k)' = q.receipts
<1>1. Fixed(proposals[k], proposals'[k]) /\ k \in Ids'
  BY StepKeeps
<1>2. /\ now \in Nat /\ proposals[k].startBlock \in Nat /\ proposals[k].endBlock \in Nat
      /\ proposals[k].startBlock < proposals[k].endBlock /\ proposals[k].eta \in Nat
      /\ proposals[k].canceled \in BOOLEAN /\ proposals[k].vetoed \in BOOLEAN
      /\ proposals[k].executed \in BOOLEAN
  BY OneProposal DEF Typed, Timed, ProposalType
<1>3. Phase(k) = State(k) /\ Phase(k)' = State(k)'
      /\ Ballots(k) = proposals[k].receipts /\ Ballots(k)' = proposals'[k].receipts
  BY <1>1 DEF Phase, Ballots
<1>. DEFINE ok  == Passed(proposals[k])
            ok1 == Passed(proposals[k])'
<1>4. now > proposals[k].endBlock => (ok1 <=> ok)
  BY PassedFinal
<1>5. /\ proposals'[k].startBlock = proposals[k].startBlock
      /\ proposals'[k].endBlock = proposals[k].endBlock
      /\ proposals[k].canceled => proposals'[k].canceled
      /\ proposals[k].vetoed => proposals'[k].vetoed
      /\ proposals[k].executed => proposals'[k].executed
  BY <1>1 DEF Fixed
<1>6. State(k) = IF proposals[k].vetoed THEN "Vetoed"
                 ELSE IF proposals[k].canceled THEN "Canceled"
                 ELSE IF now <= proposals[k].startBlock THEN "Pending"
                 ELSE IF now <= proposals[k].endBlock THEN "Active"
                 ELSE IF ~ ok THEN "Defeated"
                 ELSE IF proposals[k].eta = 0 THEN "Succeeded"
                 ELSE IF proposals[k].executed THEN "Executed"
                 ELSE IF now >= proposals[k].eta + GRACE_PERIOD THEN "Expired"
                 ELSE "Queued"
  BY DEF State
<1>7. State(k)' = IF proposals'[k].vetoed THEN "Vetoed"
                  ELSE IF proposals'[k].canceled THEN "Canceled"
                  ELSE IF now' <= proposals[k].startBlock THEN "Pending"
                  ELSE IF now' <= proposals[k].endBlock THEN "Active"
                  ELSE IF ~ ok1 THEN "Defeated"
                  ELSE IF proposals'[k].eta = 0 THEN "Succeeded"
                  ELSE IF proposals'[k].executed THEN "Executed"
                  ELSE IF now' >= proposals'[k].eta + GRACE_PERIOD THEN "Expired"
                  ELSE "Queued"
  BY <1>5 DEF State
<1>. QED BY <1>1, <1>2, <1>3, <1>4, <1>5, <1>6, <1>7

(***************************************************************************)
(* A proposal that a transaction does not change stays in its phase, even  *)
(* when the transaction changes the settings.                              *)
(***************************************************************************)
LEMMA PhaseStays ==
  ASSUME Typed, Timed, [Next]_vars, NEW k \in Ids,
         proposals'[k] = proposals[k], now' = now
  PROVE  Phase(k)' = Phase(k) /\ Ballots(k)' = Ballots(k)
<1>. DEFINE ok  == Passed(proposals[k])
            ok1 == Passed(proposals[k])'
            end == proposals[k].endBlock
<1>1. /\ now \in Nat /\ end \in Nat
      /\ now > end => (ok1 <=> ok)
  BY StateAfter
<1>2. now <= end \/ now > end
  <2>. HIDE DEF end
  <2>. QED BY <1>1
<1>3. State(k)' = State(k)
  BY <1>1, <1>2, StateAfter
<1>. QED BY <1>3, StateAfter

(***************************************************************************)
(* The phases follow each other as ProposalLifecycle says.                 *)
(***************************************************************************)
LEMMA LifecycleSteps ==
  ASSUME GovInv, [Next]_vars, NEW k \in Nat
  PROVE  LifecycleStep(k)
<1>0. Typed /\ Timed /\ QueuedPassed /\ DelaysAreOrdered
  BY DelaysAreOrdered DEF GovInv, DelaysAreOrdered
<1>1. CASE k \notin Ids'
  <2>1. k \notin Ids
    BY <1>0, <1>1, StepKeeps
  <2>. QED BY <1>1, <2>1 DEF LifecycleStep, Phase, Ballots
<1>2. CASE k \in Ids' /\ k \notin Ids
  <2>1. PICK a \in Accounts, payload \in Payloads : Propose(a, payload)
    BY <1>0, <1>2, OnlyProposeAdds
  <2>. DEFINE q == proposals'[k]
  <2>2. /\ q.startBlock > now /\ now' = now /\ ~ q.canceled /\ ~ q.vetoed
        /\ q.receipts = [v \in Accounts |-> NoVote] /\ q \in ProposalType
    BY <1>0, <1>2, <2>1, ProposeAppends DEF Typed, Ids
  <2>3. now' <= q.startBlock
    <3>1. now \in Nat /\ q.startBlock \in Nat
      BY <1>0, <2>2 DEF Typed, ProposalType
    <3>. HIDE DEF q
    <3>. QED BY <2>2, <3>1
  <2>4. State(k)' = "Pending"
    BY <2>2, <2>3 DEF State
  <2>5. Phase(k) = "None" /\ Phase(k)' = "Pending" /\ Ballots(k)' = Ballots(k)
    BY <1>2, <2>2, <2>4 DEF Phase, Ballots
  <2>. QED BY <2>5 DEF LifecycleStep, Life!Following
<1>3. CASE k \in Ids
  <2>1. CASE proposals'[k] = proposals[k] /\ now' = now
    BY <1>0, <1>3, <2>1, PhaseStays DEF LifecycleStep
  <2>2. ASSUME NEW i \in Ids, NEW q \in ProposalType, Changes(i, q)
        PROVE  /\ now' = now /\ proposals'[i] = q
               /\ k # i => proposals'[k] = proposals[k]
    BY <1>0, <1>3, <2>2, Replaced DEF Changes
  <2>3. ASSUME NEW c \in Intentions, CastVote(c[1], k, c[2]) PROVE LifecycleStep(k)
    <3>. DEFINE p == proposals[k]
                t == [p.tally EXCEPT ![c[2]] = @ + VoteWeight(p, c[1])]
                r == [p.receipts EXCEPT ![c[1]] = c[2]]
                q == [p EXCEPT !.tally = t, !.receipts = r]
    <3>1. /\ c[1] \in Accounts /\ c[2] \in {Against, For, Abstain}
          /\ now' = now /\ proposals'[k] = q
      <4>1. /\ c[1] \in Accounts /\ c[2] \in {Against, For, Abstain}
            /\ q \in ProposalType /\ Changes(k, q)
        BY <1>0, <1>3, <2>3, CastVoteChanges
      <4>. HIDE DEF q
      <4>. QED BY <1>3, <2>2, <4>1
    <3>2. q.receipts = r /\ q.canceled = p.canceled /\ q.vetoed = p.vetoed
      <4>1. p \in ProposalType
        BY <1>0, <1>3, OneProposal
      <4>. HIDE DEF t, r, p
      <4>. QED BY <4>1 DEF ProposalType
    <3>. HIDE DEF q
    <3>3. State(k) = "Active" /\ p.receipts[c[1]] = NoVote
      BY <2>3 DEF CastVote
    <3>4. State(k)' = "Active"
      BY <1>0, <1>3, <3>1, <3>2, <3>3, StateAfter
    <3>. QED BY <1>0, <1>3, <3>1, <3>2, <3>3, <3>4, StateAfter DEF LifecycleStep
  <2>4. ASSUME Queue(k) PROVE LifecycleStep(k)
    <3>. DEFINE q == [proposals[k] EXCEPT !.eta = now + timelock.delay]
    <3>1. /\ now' = now /\ proposals'[k] = q
          /\ now + timelock.delay \in Nat /\ now + timelock.delay >= now + MINIMUM_DELAY
      BY <1>0, <1>3, <2>2, <2>4, QueueChanges
    <3>2. /\ q.eta = now + timelock.delay /\ q.canceled = proposals[k].canceled
          /\ q.vetoed = proposals[k].vetoed /\ q.executed = proposals[k].executed
          /\ q.receipts = proposals[k].receipts
      BY <1>0, <1>3, OneProposal DEF ProposalType
    <3>. HIDE DEF q
    <3>3. now + timelock.delay # 0 /\ ~ (now >= (now + timelock.delay) + GRACE_PERIOD)
      BY <1>0, <3>1 DEF Typed, DelaysAreOrdered
    <3>4. State(k) = "Succeeded" /\ now > proposals[k].endBlock /\ proposals[k].eta = 0
      BY <1>0, <1>3, <2>4, StateOf DEF Queue
    <3>5. ~ proposals[k].executed
      BY <1>0, <1>3, <3>4 DEF QueuedPassed
    <3>6. State(k)' = "Queued"
      BY <1>0, <1>3, <3>1, <3>2, <3>3, <3>4, <3>5, StateAfter
    <3>. QED BY <1>0, <1>3, <3>1, <3>2, <3>4, <3>6, StateAfter DEF LifecycleStep, Life!Following
  <2>5. ASSUME Execute(k) PROVE LifecycleStep(k)
    <3>. DEFINE q == [proposals[k] EXCEPT !.executed = TRUE]
    <3>1. now' = now /\ proposals'[k] = q
      BY <1>0, <1>3, <2>2, <2>5, ExecuteChanges
    <3>2. /\ q.eta = proposals[k].eta /\ q.canceled = proposals[k].canceled
          /\ q.vetoed = proposals[k].vetoed /\ q.executed
          /\ q.receipts = proposals[k].receipts
      BY <1>0, <1>3, OneProposal DEF ProposalType
    <3>. HIDE DEF q
    <3>4. State(k) = "Queued" /\ now > proposals[k].endBlock
      BY <1>0, <1>3, <2>5, StateOf DEF Execute
    <3>6. State(k)' = "Executed"
      BY <1>0, <1>3, <3>1, <3>2, <3>4, StateAfter
    <3>. QED BY <1>0, <1>3, <3>1, <3>2, <3>4, <3>6, StateAfter DEF LifecycleStep, Life!Following
  <2>6. ASSUME NEW a \in Accounts, Cancel(a, k) PROVE LifecycleStep(k)
    <3>. DEFINE q == [proposals[k] EXCEPT !.canceled = TRUE]
    <3>1. now' = now /\ proposals'[k] = q
      BY <1>0, <1>3, <2>2, <2>6, CancelChanges
    <3>2. /\ q.canceled /\ q.vetoed = proposals[k].vetoed
          /\ q.receipts = proposals[k].receipts
      BY <1>0, <1>3, OneProposal DEF ProposalType
    <3>. HIDE DEF q
    <3>3. State(k) # "Executed"
      BY <2>6 DEF Cancel
    <3>4. State(k)' = IF proposals[k].vetoed THEN "Vetoed" ELSE "Canceled"
      BY <1>0, <1>3, <3>1, <3>2, StateAfter
    <3>5. proposals[k].vetoed <=> State(k) = "Vetoed"
      BY <1>0, <1>3, StateAfter
    <3>6. State(k) # "None"
      BY <1>0, <1>3, StateAfter
    <3>. QED BY <1>0, <1>3, <3>1, <3>2, <3>3, <3>4, <3>5, <3>6, StateAfter DEF LifecycleStep
  <2>7. ASSUME NEW a \in Accounts, Veto(a, k) PROVE LifecycleStep(k)
    <3>. DEFINE q == [proposals[k] EXCEPT !.vetoed = TRUE]
    <3>1. now' = now /\ proposals'[k] = q
      BY <1>0, <1>3, <2>2, <2>7, VetoChanges
    <3>2. q.vetoed /\ q.receipts = proposals[k].receipts
      BY <1>0, <1>3, OneProposal DEF ProposalType
    <3>. HIDE DEF q
    <3>3. State(k) # "Executed"
      BY <2>7 DEF Veto
    <3>4. State(k)' = "Vetoed"
      BY <1>0, <1>3, <3>1, <3>2, StateAfter
    <3>6. State(k) # "None"
      BY <1>0, <1>3, StateAfter
    <3>. QED BY <1>0, <1>3, <3>1, <3>2, <3>3, <3>4, <3>6, StateAfter DEF LifecycleStep
  <2>8. CASE Mine
    <3>. DEFINE p   == proposals[k]
                ok  == Passed(proposals[k])
                ok1 == Passed(proposals[k])'
                st  == State(k)
                st1 == State(k)'
    <3>1. now' = now + 1 /\ proposals'[k] = p
      BY <1>0, <2>8, MineKeepsPast
    <3>2. p.eta # 0 => now > p.endBlock
      BY <1>0, <1>3 DEF QueuedPassed
    <3>3. /\ st = IF p.vetoed THEN "Vetoed"
                  ELSE IF p.canceled THEN "Canceled"
                  ELSE IF now <= p.startBlock THEN "Pending"
                  ELSE IF now <= p.endBlock THEN "Active"
                  ELSE IF ~ ok THEN "Defeated"
                  ELSE IF p.eta = 0 THEN "Succeeded"
                  ELSE IF p.executed THEN "Executed"
                  ELSE IF now >= p.eta + GRACE_PERIOD THEN "Expired"
                  ELSE "Queued"
          /\ st1 = IF p.vetoed THEN "Vetoed"
                   ELSE IF p.canceled THEN "Canceled"
                   ELSE IF now + 1 <= p.startBlock THEN "Pending"
                   ELSE IF now + 1 <= p.endBlock THEN "Active"
                   ELSE IF ~ ok1 THEN "Defeated"
                   ELSE IF p.eta = 0 THEN "Succeeded"
                   ELSE IF p.executed THEN "Executed"
                   ELSE IF now + 1 >= p.eta + GRACE_PERIOD THEN "Expired"
                   ELSE "Queued"
          /\ now > p.endBlock => (ok1 <=> ok)
          /\ now \in Nat /\ p.startBlock \in Nat /\ p.endBlock \in Nat /\ p.eta \in Nat
          /\ p.startBlock < p.endBlock /\ GRACE_PERIOD \in Nat
      BY <1>0, <1>3, <3>1, StateAfter DEF DelaysAreOrdered
    <3>. HIDE DEF p, ok, ok1, st, st1
    <3>4. st1 \in {st} \cup Life(k)!Following[st]
      <4>1. CASE now > p.endBlock
        <5>1. ~ (now <= p.startBlock) /\ ~ (now <= p.endBlock)
              /\ ~ (now + 1 <= p.startBlock) /\ ~ (now + 1 <= p.endBlock)
              /\ (now >= p.eta + GRACE_PERIOD => now + 1 >= p.eta + GRACE_PERIOD)
          BY <3>3, <4>1
        <5>. DEFINE late  == now >= p.eta + GRACE_PERIOD
                    late1 == now + 1 >= p.eta + GRACE_PERIOD
        <5>2. late => late1
          BY <5>1
        <5>3. /\ st = IF p.vetoed THEN "Vetoed" ELSE IF p.canceled THEN "Canceled"
                      ELSE IF ~ ok THEN "Defeated" ELSE IF p.eta = 0 THEN "Succeeded"
                      ELSE IF p.executed THEN "Executed" ELSE IF late THEN "Expired"
                      ELSE "Queued"
              /\ st1 = IF p.vetoed THEN "Vetoed" ELSE IF p.canceled THEN "Canceled"
                       ELSE IF ~ ok THEN "Defeated" ELSE IF p.eta = 0 THEN "Succeeded"
                       ELSE IF p.executed THEN "Executed" ELSE IF late1 THEN "Expired"
                       ELSE "Queued"
          BY <3>3, <4>1, <5>1
        <5>. HIDE DEF late, late1
        <5>. QED BY <5>2, <5>3 DEF Life!Following
      <4>2. CASE now <= p.endBlock
        <5>1. p.eta = 0 /\ ((now <= p.startBlock) => (now + 1 <= p.endBlock))
          BY <3>2, <3>3, <4>2
        <5>. DEFINE before  == now <= p.startBlock
                    before1 == now + 1 <= p.startBlock
                    open1   == now + 1 <= p.endBlock
        <5>2. (before => open1) /\ (before1 => before)
          BY <3>3, <5>1
        <5>3. /\ st = IF p.vetoed THEN "Vetoed" ELSE IF p.canceled THEN "Canceled"
                      ELSE IF before THEN "Pending" ELSE "Active"
              /\ st1 = IF p.vetoed THEN "Vetoed" ELSE IF p.canceled THEN "Canceled"
                       ELSE IF before1 THEN "Pending" ELSE IF open1 THEN "Active"
                       ELSE IF ~ ok1 THEN "Defeated" ELSE "Succeeded"
          BY <3>3, <4>2, <5>1
        <5>. HIDE DEF before, before1, open1
        <5>. QED BY <5>2, <5>3 DEF Life!Following
      <4>. QED BY <3>3, <4>1, <4>2
    <3>5. /\ Phase(k) = st /\ Phase(k)' = st1 /\ Ballots(k) = p.receipts
          /\ Ballots(k)' = proposals'[k].receipts
      BY <1>0, <1>3, StateAfter DEF p, st, st1
    <3>. QED BY <3>1, <3>4, <3>5 DEF LifecycleStep
  <2>9. (\E a \in Accounts, payload \in Payloads : Propose(a, payload))
          => proposals'[k] = proposals[k] /\ now' = now
    BY <1>0, <1>3, ProposeAppends
  <2>10. Background => proposals'[k] = proposals[k] /\ now' = now
    BY DEF Background
  <2>11. ASSUME NEW i \in Ids, i # k,
                \/ \E c \in Intentions : CastVote(c[1], i, c[2])
                \/ Queue(i) \/ Execute(i)
                \/ \E a \in Accounts : Cancel(a, i) \/ Veto(a, i)
         PROVE  proposals'[k] = proposals[k] /\ now' = now
    <3>1. (\E c \in Intentions : CastVote(c[1], i, c[2])) => \E q \in ProposalType : Changes(i, q)
      BY <1>0, CastVoteChanges
    <3>2. (\E a \in Accounts : Cancel(a, i)) => \E q \in ProposalType : Changes(i, q)
      BY <1>0, CancelChanges
    <3>3. (\E a \in Accounts : Veto(a, i)) => \E q \in ProposalType : Changes(i, q)
      BY <1>0, VetoChanges
    <3>4. Queue(i) \/ Execute(i) => \E q \in ProposalType : Changes(i, q)
      BY <1>0, QueueChanges, ExecuteChanges
    <3>5. PICK q \in ProposalType : Changes(i, q)
      BY <2>11, <3>1, <3>2, <3>3, <3>4
    <3>. QED BY <2>2, <2>11, <3>5
  <2>. QED BY <1>0, <2>1, <2>3, <2>4, <2>5, <2>6, <2>7, <2>8, <2>9, <2>10, <2>11, Steps DEF Step
<1>. QED BY <1>1, <1>2, <1>3, <1>0, StepKeeps

LEMMA LifecycleStarts == ASSUME Init, NEW i \in Nat PROVE Life(i)!Init
<1>1. Ids = {}
  BY DEF Init, Ids
<1>. QED BY <1>1 DEF Life!Init, Phase, Ballots

LEMMA LifecycleGoesOn ==
  ASSUME GovInv, [Next]_vars, NEW i \in Nat
  PROVE  [Life(i)!Next]_(Life(i)!plVars)
<1>1. LifecycleStep(i)
  BY LifecycleSteps
<1>. QED BY <1>1 DEF LifecycleStep, Life!Next, Life!Advance, Life!Stop, Life!Vote, Life!plVars

(***************************************************************************)
(* The governor, which computes the state of a proposal anew on every      *)
(* call, implements the lifecycle that ProposalLifecycle describes, for    *)
(* each proposal.                                                          *)
(***************************************************************************)
THEOREM EveryProposalsLife == ASSUME NEW i \in Nat PROVE Spec => Life(i)!Spec
<1>1. Init => Life(i)!Init
  BY LifecycleStarts
<1>2. GovInv /\ [Next]_vars => [Life(i)!Next]_(Life(i)!plVars)
  BY LifecycleGoesOn
<1>. QED BY <1>1, <1>2, InvariantHolds, PTL DEF Spec, Life!Spec

(***************************************************************************)
(* The same of all of them at once, as TLC checks it: every proposal that  *)
(* is ever made goes through the phases of ProposalLifecycle (state).      *)
(***************************************************************************)
THEOREM GovernorImplementsLifecycle == Spec => ImplementsLifecycle
<1>. DEFINE Starts == \A i \in 1 .. MaxProposals : Life(i)!Init
            Steps1 == \A i \in 1 .. MaxProposals : [Life(i)!Next]_(Life(i)!plVars)
<1>1. Init => Starts
  BY LifecycleStarts
<1>2. GovInv /\ [Next]_vars => Steps1
  BY LifecycleGoesOn
<1>. HIDE DEF Starts, Steps1
<1>3. Spec => Starts /\ [][Steps1]_vars
  BY <1>1, <1>2, InvariantHolds, PTL DEF Spec
<1>. QED BY <1>3 DEF ImplementsLifecycle, Starts, Steps1

-------------------------------------------------------------------------------
(* Votes.                                                                  *)

\* who voted so, in a list of receipts
Voters(receipts, support) == {v \in Accounts : receipts[v] = support}

Tallied(i) ==
  \A support \in {Against, For, Abstain} :
    proposals[i].tally[support] =
      Sum(pastVotes[proposals[i].creationBlock], Voters(proposals[i].receipts, support))

\* before the vote starts, there is nothing to tally
BallotInv ==
  \A i \in Ids :
    /\ Tallied(i)
    /\ now <= proposals[i].startBlock => \A v \in Accounts : proposals[i].receipts[v] = NoVote

(***************************************************************************)
(* Nobody's receipt is a vote when all of them are NoVote.                 *)
(***************************************************************************)
LEMMA NobodyVoted ==
  ASSUME NEW receipts, \A v \in Accounts : receipts[v] = NoVote,
         NEW support \in {Against, For, Abstain}, NEW w
  PROVE  Sum(w, Voters(receipts, support)) = 0
<1>1. Voters(receipts, support) = {}
  BY DEF Voters, NoVote, Against, For, Abstain
<1>. QED BY <1>1, SumOfNone

(***************************************************************************)
(* Only a vote changes the receipts and the tally of a proposal.           *)
(***************************************************************************)
LEMMA BallotsChange ==
  ASSUME Typed, Timed, [Next]_vars, NEW k \in Ids
  PROVE  \/ \E c \in Intentions : CastVote(c[1], k, c[2])
         \/ /\ proposals'[k].tally = proposals[k].tally
            /\ proposals'[k].receipts = proposals[k].receipts
<1>. DEFINE Same == /\ proposals'[k].tally = proposals[k].tally
                    /\ proposals'[k].receipts = proposals[k].receipts
<1>1. ASSUME NEW i \in Ids, NEW q \in ProposalType, Changes(i, q),
             q.tally = proposals[i].tally, q.receipts = proposals[i].receipts
      PROVE  Same
  <2>1. proposals'[i] = q /\ (k # i => proposals'[k] = proposals[k])
    BY <1>1, Replaced DEF Changes
  <2>. QED BY <1>1, <2>1
<1>2. ASSUME NEW a \in Accounts, NEW payload \in Payloads, Propose(a, payload) PROVE Same
  BY <1>2, ProposeAppends
<1>3. ASSUME NEW i \in Ids, NEW c \in Intentions, CastVote(c[1], i, c[2]), i # k PROVE Same
  <2>1. PICK q \in ProposalType : Changes(i, q)
    BY <1>3, CastVoteChanges
  <2>2. proposals'[k] = proposals[k]
    BY <1>3, <2>1, Replaced DEF Changes
  <2>. QED BY <2>2
<1>4. ASSUME NEW i \in Ids, Queue(i) PROVE Same
  <2>. DEFINE q == [proposals[i] EXCEPT !.eta = now + timelock.delay]
  <2>1. q \in ProposalType /\ Changes(i, q)
    BY <1>4, QueueChanges
  <2>2. q.tally = proposals[i].tally /\ q.receipts = proposals[i].receipts
    BY OneProposal DEF ProposalType
  <2>. HIDE DEF q
  <2>. QED BY <1>1, <2>1, <2>2
<1>5. ASSUME NEW i \in Ids, Execute(i) PROVE Same
  <2>. DEFINE q == [proposals[i] EXCEPT !.executed = TRUE]
  <2>1. q \in ProposalType /\ Changes(i, q)
    BY <1>5, ExecuteChanges
  <2>2. q.tally = proposals[i].tally /\ q.receipts = proposals[i].receipts
    BY OneProposal DEF ProposalType
  <2>. HIDE DEF q
  <2>. QED BY <1>1, <2>1, <2>2
<1>6. ASSUME NEW i \in Ids, NEW a \in Accounts, Cancel(a, i) PROVE Same
  <2>. DEFINE q == [proposals[i] EXCEPT !.canceled = TRUE]
  <2>1. q \in ProposalType /\ Changes(i, q)
    BY <1>6, CancelChanges
  <2>2. q.tally = proposals[i].tally /\ q.receipts = proposals[i].receipts
    BY OneProposal DEF ProposalType
  <2>. HIDE DEF q
  <2>. QED BY <1>1, <2>1, <2>2
<1>7. ASSUME NEW i \in Ids, NEW a \in Accounts, Veto(a, i) PROVE Same
  <2>. DEFINE q == [proposals[i] EXCEPT !.vetoed = TRUE]
  <2>1. q \in ProposalType /\ Changes(i, q)
    BY <1>7, VetoChanges
  <2>2. q.tally = proposals[i].tally /\ q.receipts = proposals[i].receipts
    BY OneProposal DEF ProposalType
  <2>. HIDE DEF q
  <2>. QED BY <1>1, <2>1, <2>2
<1>8. CASE Background \/ Mine
  BY <1>8 DEF Background, Mine, governorVars
<1>. QED BY <1>2, <1>3, <1>4, <1>5, <1>6, <1>7, <1>8, Steps DEF Step

(***************************************************************************)
(* The votes of a finished block stay what they were.                      *)
(***************************************************************************)
LEMMA PastVotesStay ==
  ASSUME Typed, [Next]_vars
  PROVE  \A b \in 0 .. now - 1 : pastVotes'[b] = pastVotes[b]
<1>1. CASE Mine
  BY <1>1, MineKeepsPast
<1>2. CASE pastVotes' = pastVotes
  BY <1>2
<1>. QED BY <1>1, <1>2, Steps
          DEF Step, Background, Propose, CastVote, Queue, Execute, Cancel, Veto, tokenVars

(***************************************************************************)
(* A vote adds what the voter had at the end of the creation block.        *)
(***************************************************************************)
LEMMA VoteIsTallied ==
  ASSUME Typed, Timed, NEW k \in Ids, Tallied(k),
         NEW c \in Intentions, CastVote(c[1], k, c[2])
  PROVE  Tallied(k)' /\ ~ (now' <= proposals'[k].startBlock)
<1>. DEFINE p == proposals[k]
            w == VoteWeight(p, c[1])
            t == [p.tally EXCEPT ![c[2]] = @ + w]
            r == [p.receipts EXCEPT ![c[1]] = c[2]]
            q == [p EXCEPT !.tally = t, !.receipts = r]
            past == pastVotes[p.creationBlock]
<1>1. /\ c[1] \in Accounts /\ c[2] \in {Against, For, Abstain} /\ w \in Nat
      /\ q \in ProposalType /\ Changes(k, q) /\ pastVotes' = pastVotes
  BY CastVoteChanges
<1>2. /\ p.tally \in [{Against, For, Abstain} -> Nat] /\ p.receipts \in [Accounts -> 0 .. NoVote]
      /\ p \in ProposalType
  BY OneProposal DEF ProposalType
<1>3. /\ q.tally = t /\ q.receipts = r /\ q.creationBlock = p.creationBlock
      /\ q.startBlock = p.startBlock
  <2>. HIDE DEF p, t, r
  <2>. QED BY <1>2 DEF ProposalType
<1>4. proposals'[k] = q /\ now' = now /\ Ids' = Ids
  <2>. HIDE DEF q
  <2>. QED BY <1>1, Replaced DEF Changes
<1>5. p.receipts[c[1]] = NoVote /\ State(k) = "Active"
  BY DEF CastVote
<1>6. past \in [Accounts -> Nat] /\ w = past[c[1]]
  <2>1. now > p.startBlock /\ p.creationBlock < p.startBlock
    BY <1>5, StateOf DEF Timed
  <2>2. now \in Nat /\ p.startBlock \in Nat /\ p.creationBlock \in Nat
    BY <1>2 DEF Typed, ProposalType
  <2>. DEFINE b == p.creationBlock
              d == p.startBlock
  <2>3. b \in 0 .. now - 1
    <3>1. now > d /\ b < d /\ now \in Nat /\ b \in Nat /\ d \in Nat
      BY <2>1, <2>2
    <3>. HIDE DEF b, d
    <3>. QED BY <3>1
  <2>4. past \in [Accounts -> Nat]
    BY <2>3 DEF Typed
  <2>. QED BY <2>4 DEF VoteWeight, getPriorVotes
<1>7. ASSUME NEW support \in {Against, For, Abstain}
      PROVE  t[support] = Sum(past, Voters(r, support))
  <2>1. p.tally[support] = Sum(past, Voters(p.receipts, support))
    BY DEF Tallied
  <2>. HIDE DEF p, w, past
  <2>2. CASE support = c[2]
    <3>1. /\ Voters(r, support) = Voters(p.receipts, support) \cup {c[1]}
          /\ Voters(p.receipts, support) \in SUBSET Accounts
          /\ c[1] \in Accounts \ Voters(p.receipts, support)
      BY <1>1, <1>2, <1>5, <2>2 DEF Voters, NoVote, Against, For, Abstain
    <3>2. /\ Sum(past, Voters(p.receipts, support)) \in Nat
          /\ Sum(past, Voters(p.receipts, support) \cup {c[1]})
               = Sum(past, Voters(p.receipts, support)) + past[c[1]]
      <4>1. IsFiniteSet(Accounts) /\ \A v \in Accounts : past[v] \in Nat
        BY <1>6, StartsWithinBounds
      <4>. DEFINE S == Voters(p.receipts, support)
      <4>2. S \in SUBSET Accounts /\ c[1] \in Accounts \ S
        BY <3>1
      <4>3. Sum(past, S) \in Nat
        <5>. HIDE DEF S
        <5>. QED BY <4>1, <4>2, SumAdds
      <4>4. Sum(past, S \cup {c[1]}) = Sum(past, S) + past[c[1]]
        <5>. HIDE DEF S
        <5>. QED BY <4>1, <4>2, SumAdds
      <4>. QED BY <4>3, <4>4
    <3>3. t[support] = p.tally[support] + w
      BY <1>2, <2>2
    <3>. HIDE DEF t, r
    <3>. QED BY <1>6, <2>1, <3>1, <3>2, <3>3
  <2>3. CASE support # c[2]
    <3>1. Voters(r, support) = Voters(p.receipts, support)
      BY <1>1, <1>2, <1>5, <2>3 DEF Voters, NoVote, Against, For, Abstain
    <3>2. t[support] = p.tally[support]
      BY <1>2, <2>3
    <3>. HIDE DEF t, r
    <3>. QED BY <2>1, <3>1, <3>2
  <2>. QED BY <2>2, <2>3
<1>8. Tallied(k)'
  <2>. HIDE DEF q, t, r, p
  <2>. QED BY <1>1, <1>3, <1>4, <1>7 DEF Tallied, p
<1>9. ~ (now' <= proposals'[k].startBlock)
  <2>1. now > p.startBlock /\ now \in Nat /\ p.startBlock \in Nat
    BY <1>2, <1>5, StateOf DEF Typed, ProposalType
  <2>. DEFINE d == p.startBlock
  <2>2. ~ (now <= d)
    <3>1. now > d /\ now \in Nat /\ d \in Nat
      BY <2>1
    <3>. HIDE DEF d
    <3>. QED BY <3>1
  <2>. HIDE DEF q, p
  <2>. QED BY <1>3, <1>4, <2>2
<1>. QED BY <1>8, <1>9

(***************************************************************************)
(* The tallies stay sums over the receipts.                                *)
(***************************************************************************)
LEMMA BallotStep ==
  ASSUME Typed, Timed, BallotInv, [Next]_vars
  PROVE  BallotInv'
<1>. DEFINE Ok(k) == /\ Tallied(k)
                     /\ now <= proposals[k].startBlock =>
                          \A v \in Accounts : proposals[k].receipts[v] = NoVote
<1>1. ASSUME NEW k \in Ids PROVE Ok(k)'
  <2>1. CASE \E c \in Intentions : CastVote(c[1], k, c[2])
    BY <2>1, VoteIsTallied DEF BallotInv
  <2>2. CASE /\ proposals'[k].tally = proposals[k].tally
             /\ proposals'[k].receipts = proposals[k].receipts
    <3>1. /\ proposals'[k].creationBlock = proposals[k].creationBlock
          /\ proposals'[k].startBlock = proposals[k].startBlock
          /\ now' \in {now, now + 1} /\ now \in Nat
          /\ proposals[k].creationBlock \in Nat /\ proposals[k].startBlock \in Nat
          /\ proposals[k].creationBlock <= now
          /\ proposals[k].creationBlock < proposals[k].startBlock
      BY StepKeeps, OneProposal DEF Fixed, Typed, Timed, ProposalType
    <3>2. now' <= proposals'[k].startBlock => now <= proposals[k].startBlock
      BY <3>1
    <3>3. Tallied(k)'
      <4>1. CASE proposals[k].creationBlock < now
        <5>1. proposals[k].creationBlock \in 0 .. now - 1
          BY <3>1, <4>1
        <5>2. pastVotes'[proposals[k].creationBlock] = pastVotes[proposals[k].creationBlock]
          BY <5>1, PastVotesStay
        <5>. QED BY <2>2, <3>1, <5>2 DEF BallotInv, Tallied
      <4>2. CASE proposals[k].creationBlock = now
        <5>1. \A v \in Accounts : proposals[k].receipts[v] = NoVote
          BY <3>1, <4>2 DEF BallotInv
        <5>. QED BY <2>2, <5>1, NobodyVoted DEF BallotInv, Tallied
      <4>. QED BY <3>1, <4>1, <4>2
    <3>. QED BY <2>2, <3>2, <3>3 DEF BallotInv
  <2>. QED BY <2>1, <2>2, BallotsChange
<1>2. ASSUME NEW a \in Accounts, NEW payload \in Payloads, Propose(a, payload),
             NEW k \in Ids' \ Ids
      PROVE  Ok(k)'
  <2>1. /\ proposals'[k].tally = [s \in {Against, For, Abstain} |-> 0]
        /\ proposals'[k].receipts = [v \in Accounts |-> NoVote]
    BY <1>2, ProposeAppends
  <2>2. \A v \in Accounts : proposals'[k].receipts[v] = NoVote
    BY <2>1
  <2>3. ASSUME NEW support \in {Against, For, Abstain}, NEW w
        PROVE  proposals'[k].tally[support] = Sum(w, Voters(proposals'[k].receipts, support))
    BY <2>1, <2>2, NobodyVoted
  <2>4. Tallied(k)'
    BY <2>3 DEF Tallied
  <2>. QED BY <2>2, <2>4
<1>3. (~ \E a \in Accounts, payload \in Payloads : Propose(a, payload)) => Ids' = Ids
  BY OnlyProposeAdds
<1>4. \A k \in Ids' : Ok(k)'
  <2>. HIDE DEF Ok
  <2>. QED BY <1>1, <1>2, <1>3
<1>. QED BY <1>4 DEF BallotInv

(***************************************************************************)
(* What is counted is what those who voted had at the end of the block of  *)
(* the proposal, whatever is moved, delegated or minted later.             *)
(***************************************************************************)
THEOREM VotesAreOfTheSnapshot == Spec => []VotesAreSnapshots
<1>1. Init => BallotInv
  BY DEF Init, BallotInv, Ids
<1>2. GovInv /\ BallotInv /\ [Next]_vars => BallotInv'
  BY BallotStep DEF GovInv
<1>3. BallotInv => VotesAreSnapshots
  BY DEF BallotInv, Tallied, VotesAreSnapshots, Sum, Voters
<1>. QED BY <1>1, <1>2, <1>3, InvariantHolds, PTL DEF Spec
===============================================================================
