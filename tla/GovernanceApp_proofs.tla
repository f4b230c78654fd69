-------------------------- MODULE GovernanceApp_proofs --------------------------
(***************************************************************************)
(* Invariance proofs for the governor with its index and the page of a     *)
(* proposal: what the subgraph stores of a proposal, and what the web      *)
(* application derives from that, are the governor's for any number of     *)
(* accounts, proposals and blocks, any payloads and any settings; and what *)
(* it shows of a noun's history, for any noun, holders and proposals.      *)
(***************************************************************************)
EXTENDS GovernanceApp, NounsDAOLogicV2_proofs, ActivityFeed, DataTheorems, SequenceTheorems

-------------------------------------------------------------------------------
(* Types of the index.                                                     *)

Statuses == {"PENDING", "ACTIVE", "QUEUED", "EXECUTED", "CANCELLED", "VETOED"}

BallotType == [voter : Accounts, votes : Nat, support : 0 .. 2]

EntityType ==
  [status : Statuses, proposer : Accounts, createdBlock : Nat, startBlock : Nat,
   endBlock : Nat, executionETA : Nat, quorumVotes : Nat, tally : [0 .. 2 -> Nat],
   votes : SUBSET BallotType, totalSupply : Nat \ {0}, params : ParamsType]

\* the parameters are indexed from the block before the first
IndexType ==
  [proposals : Seq(EntityType), proposalsQueued : Int, params : ParamsType,
   dynamicQuorumStartBlock : {0}]

\* the quotient of two numbers is one
LEMMA DivNat ==
  ASSUME NEW x \in Nat, NEW y \in Nat \ {0}
  PROVE  x \div y \in Nat
  OBVIOUS

\* a quorum is a number of votes
LEMMA QuorumTyped ==
  ASSUME NEW against \in Nat, NEW total \in Nat \ {0}, NEW params \in ParamsType
  PROVE  dynamicQuorumVotes(against, total, params) \in Nat
<1> DEFINE bps == (10000 * against) \div total
           adj == (params.coefficient * bps) \div CoefficientOne
           n   == AtMost(params.max, params.min + adj)
<1>1. params.min \in Nat /\ params.max \in Nat /\ params.coefficient \in Nat
  BY DEF ParamsType
<1>2. bps \in Nat
  <2>1. 10000 * against \in Nat
    OBVIOUS
  <2> QED BY <2>1, DivNat
<1>3. adj \in Nat
  <2> HIDE DEF bps
  <2>1. params.coefficient * bps \in Nat
    BY <1>1, <1>2
  <2> QED BY <2>1, DivNat, InitializedWithinBounds
<1>4. n \in Nat
  <2> HIDE DEF adj
  <2> QED BY <1>1, <1>3 DEF AtMost
<1>5. (total * n) \div 10000 \in Nat
  <2> HIDE DEF n
  <2>1. total * n \in Nat
    BY <1>4
  <2> QED BY <2>1, DivNat
<1> QED BY <1>5 DEF dynamicQuorumVotes, bps2Uint

\* without votes against, it is the minimum
LEMMA QuorumWithoutAgainst ==
  ASSUME NEW total \in Nat \ {0}, NEW params \in ParamsType, params.min <= params.max
  PROVE  dynamicQuorumVotes(0, total, params) = bps2Uint(params.min, total)
<1>1. /\ params.min \in Nat /\ params.max \in Nat /\ params.coefficient \in Nat
  BY DEF ParamsType
<1>2. \A y \in Nat \ {0} : 0 \div y = 0
  OBVIOUS
<1>3. (10000 * 0) \div total = 0
  BY <1>2
<1>4. (params.coefficient * 0) \div CoefficientOne = 0
  <2>1. params.coefficient * 0 = 0
    BY <1>1
  <2> QED BY <1>2, <2>1, InitializedWithinBounds
<1>5. AtMost(params.max, params.min + 0) = params.min
  BY <1>1 DEF AtMost
<1> QED BY <1>3, <1>4, <1>5 DEF dynamicQuorumVotes

-------------------------------------------------------------------------------
(* The events of the calls a proposal makes.                               *)

\* the fold of the events of the calls at the positions s
Indexed(store, payload, f, s) ==
  IF s = {} THEN store ELSE AfterEvents(f[s \ {Max(s)}], payload[Max(s)])

IndexedBy(store, payload, f) ==
  f = [s \in SUBSET (DOMAIN payload) |-> Indexed(store, payload, f, s)]

(***************************************************************************)
(* The fold is defined: the positions are added one after the other.       *)
(***************************************************************************)
LEMMA EventsHaveResult ==
  ASSUME NEW store, NEW payload, NEW n \in Nat, DOMAIN payload = 1 .. n
  PROVE  \E g : IndexedBy(store, payload, g)
<1>. DEFINE D == SUBSET (DOMAIN payload)
            Solves(g, m) ==
              \A s \in D : s \subseteq 1 .. m => g[s] = Indexed(store, payload, g, s)
            T == {m \in Nat : \E g : Solves(g, m)}
<1>1. 0 \in T
  <2>1. Solves([s \in D |-> store], 0)
    <3>1. \A s \in D : s \subseteq 1 .. 0 => s = {}
      OBVIOUS
    <3>. QED BY <3>1 DEF Indexed
  <2>. HIDE DEF Solves
  <2>. QED BY <2>1
<1>2. ASSUME NEW m \in T PROVE m + 1 \in T
  <2>1. m \in Nat /\ \E g : Solves(g, m)
    OBVIOUS
  <2>2. PICK g : Solves(g, m)
    <3>. HIDE DEF Solves
    <3>. QED BY <2>1
  <2>. DEFINE h == [s \in D |-> IF s \subseteq 1 .. m THEN g[s] ELSE Indexed(store, payload, g, s)]
  <2>3. ASSUME NEW s \in D, s \subseteq 1 .. m + 1
        PROVE  h[s] = Indexed(store, payload, h, s)
    <3>1. CASE s = {}
      <4>1. s \subseteq 1 .. m
        BY <3>1
      <4>2. g[s] = store
        BY <2>2, <3>1, <4>1 DEF Indexed
      <4>. QED BY <3>1, <4>1, <4>2 DEF Indexed
    <3>2. CASE s # {}
      <4>1. s \ {Max(s)} \subseteq 1 .. m /\ s \ {Max(s)} \in D
        BY <2>1, <2>3, <3>2, LastPosition
      <4>2. h[s \ {Max(s)}] = g[s \ {Max(s)}]
        BY <4>1
      <4>3. Indexed(store, payload, h, s) = Indexed(store, payload, g, s)
        <5>. HIDE DEF h
        <5>. QED BY <4>2 DEF Indexed
      <4>4. h[s] = Indexed(store, payload, g, s)
        BY <2>2
      <4>. QED BY <4>3, <4>4
    <3>. QED BY <3>1, <3>2
  <2>4. Solves(h, m + 1)
    <3>. HIDE DEF h
    <3>. QED BY <2>3
  <2>. HIDE DEF Solves, h
  <2>. QED BY <2>1, <2>4
<1>3. T = Nat
  <2>1. T \in SUBSET Nat
    OBVIOUS
  <2>. HIDE DEF T
  <2>. QED BY <1>1, <1>2, <2>1, AllNumbers
<1>4. PICK g : Solves(g, n)
  <2>1. n \in T
    <3>. HIDE DEF T
    <3>. QED BY <1>3
  <2>. HIDE DEF Solves
  <2>. QED BY <2>1
<1>. DEFINE h == [s \in D |-> g[s]]
<1>5. \A s \in D : h[s] = Indexed(store, payload, h, s)
  <2>1. ASSUME NEW s \in D PROVE h[s] = Indexed(store, payload, h, s)
    <3>1. g[s] = Indexed(store, payload, g, s)
      BY <1>4
    <3>2. h[s \ {Max(s)}] = g[s \ {Max(s)}]
      OBVIOUS
    <3>3. Indexed(store, payload, h, s) = Indexed(store, payload, g, s)
      <4>. HIDE DEF h
      <4>. QED BY <3>2 DEF Indexed
    <3>. QED BY <3>1, <3>3
  <2>. QED BY <2>1
<1>6. IndexedBy(store, payload, h)
  <2>1. h = [s \in D |-> h[s]]
    OBVIOUS
  <2>. HIDE DEF h
  <2>. QED BY <1>5, <2>1 DEF IndexedBy
<1>. QED BY <1>6

(***************************************************************************)
(* The events are folded by a function that obeys its own equation.        *)
(***************************************************************************)
LEMMA AfterParameterEventsIs ==
  ASSUME NEW store, NEW payload, NEW g, IndexedBy(store, payload, g)
  PROVE  \E f : /\ IndexedBy(store, payload, f)
                /\ AfterParameterEvents(store, payload) = f[DOMAIN payload]
<1>1. AfterParameterEvents(store, payload)
        = (CHOOSE f : IndexedBy(store, payload, f))[DOMAIN payload]
  BY DEF AfterParameterEvents, FoldLeft, MapThenFoldSet, IndexedBy, Indexed
<1>2. IndexedBy(store, payload, CHOOSE f : IndexedBy(store, payload, f))
  <2> HIDE DEF IndexedBy
  <2> QED BY IndexedBy(store, payload, g)
<1> QED BY <1>1, <1>2

(***************************************************************************)
(* What ties the governor to the index before the first call, and is kept  *)
(* by every call and its events, ties them after the last one.             *)
(***************************************************************************)
LEMMA CallsAndEventsKeep ==
  ASSUME NEW payload, NEW n \in Nat, DOMAIN payload = 1 .. n, NEW store,
         NEW R, <<FirstCall, store>> \in R,
         \A r, e : <<r, e>> \in R => \A i \in DOMAIN payload :
           <<AfterCall(r, payload[i]), AfterEvents(e, payload[i])>> \in R
  PROVE  <<AfterCalls(payload), AfterParameterEvents(store, payload)>> \in R
<1>1. PICK f : CalledBy(payload, f) /\ AfterCalls(payload) = f[DOMAIN payload]
  BY CallsHaveResult, AfterCallsIs
<1>2. PICK g : /\ IndexedBy(store, payload, g)
               /\ AfterParameterEvents(store, payload) = g[DOMAIN payload]
  BY EventsHaveResult, AfterParameterEventsIs
<1>. DEFINE D == SUBSET (DOMAIN payload)
            T == {m \in Nat : \A s \in D : s \subseteq 1 .. m => <<f[s], g[s]>> \in R}
<1>3. \A s \in D : f[s] = Called(payload, f, s)
  <2>1. f = [s \in D |-> Called(payload, f, s)]
    BY <1>1 DEF CalledBy
  <2>. DEFINE F == [s \in D |-> Called(payload, f, s)]
  <2>2. \A s \in D : F[s] = Called(payload, f, s)
    OBVIOUS
  <2>. HIDE DEF F
  <2>. QED BY <2>1, <2>2 DEF F
<1>4. \A s \in D : g[s] = Indexed(store, payload, g, s)
  <2>1. g = [s \in D |-> Indexed(store, payload, g, s)]
    BY <1>2 DEF IndexedBy
  <2>. DEFINE G == [s \in D |-> Indexed(store, payload, g, s)]
  <2>2. \A s \in D : G[s] = Indexed(store, payload, g, s)
    OBVIOUS
  <2>. HIDE DEF G
  <2>. QED BY <2>1, <2>2 DEF G
<1>5. ASSUME NEW s \in D, s = {} PROVE <<f[s], g[s]>> \in R
  BY <1>3, <1>4, <1>5 DEF Called, Indexed
<1>6. 0 \in T
  <2>1. \A s \in D : s \subseteq 1 .. 0 => s = {}
    OBVIOUS
  <2>. QED BY <1>5, <2>1
<1>7. ASSUME NEW m \in T PROVE m + 1 \in T
  <2>1. ASSUME NEW s \in D, s \subseteq 1 .. m + 1, s # {} PROVE <<f[s], g[s]>> \in R
    <3>1. Max(s) \in s /\ s \ {Max(s)} \subseteq 1 .. m
      BY <2>1, LastPosition
    <3>2. s \ {Max(s)} \in D /\ Max(s) \in DOMAIN payload
      BY <3>1
    <3>3. <<f[s \ {Max(s)}], g[s \ {Max(s)}]>> \in R
      BY <3>1, <3>2
    <3>4. /\ f[s] = AfterCall(f[s \ {Max(s)}], payload[Max(s)])
          /\ g[s] = AfterEvents(g[s \ {Max(s)}], payload[Max(s)])
      BY <1>3, <1>4, <2>1 DEF Called, Indexed
    <3>. QED BY <3>2, <3>3, <3>4
  <2>. QED BY <1>5, <2>1
<1>8. n \in T
  <2>1. T \in SUBSET Nat
    OBVIOUS
  <2>. HIDE DEF T
  <2>. QED BY <1>6, <1>7, <2>1, AllNumbers
<1>. QED BY <1>1, <1>2, <1>8

-------------------------------------------------------------------------------
(* The parameters of the index and of the governor.                        *)

\* the parameters were written in block b
HasBlock(cps, b) == \E k \in DOMAIN cps : cps[k].fromBlock = b

\* the settings st and the index e that calls in the current block leave: the
\* same parameters, which are those from before unless the block has a checkpoint
Followed(st, e) ==
  /\ e.params = CurrentParams(st) /\ e.params.min <= e.params.max
  /\ e.proposals = index.proposals /\ e.proposalsQueued = index.proposalsQueued
  /\ CurrentParams(st) = CurrentParams(settings) \/ HasBlock(st.quorumParams, now)
  /\ \A b : HasBlock(settings.quorumParams, b) => HasBlock(st.quorumParams, b)

\* a written checkpoint is of the current block, and drops no other block
LEMMA WrittenBlocks ==
  ASSUME NEW V, NEW cps, CheckpointList(cps, V), NEW b \in Nat, NEW v
  PROVE  /\ HasBlock(Written(cps, b, v), b)
         /\ \A c : HasBlock(cps, c) => HasBlock(Written(cps, b, v), c)
<1> DEFINE new == [fromBlock |-> b, value |-> v]
<1>1. Len(cps) \in Nat /\ DOMAIN cps = 1 .. Len(cps) /\ (cps # <<>> => Len(cps) \in 1 .. Len(cps))
  BY DEF CheckpointList
<1>2. CASE cps # <<>> /\ cps[Len(cps)].fromBlock = b
  <2>1. Written(cps, b, v) = [cps EXCEPT ![Len(cps)] = new]
    BY <1>2 DEF Written
  <2>2. /\ DOMAIN Written(cps, b, v) = DOMAIN cps
        /\ Written(cps, b, v)[Len(cps)] = new
        /\ \A k \in DOMAIN cps : k # Len(cps) => Written(cps, b, v)[k] = cps[k]
    BY <1>1, <1>2, <2>1
  <2>3. new.fromBlock = b
    OBVIOUS
  <2> HIDE DEF new
  <2> QED BY <1>1, <1>2, <2>2, <2>3 DEF HasBlock
<1>3. CASE ~ (cps # <<>> /\ cps[Len(cps)].fromBlock = b)
  <2>1. Written(cps, b, v) = Append(cps, new)
    BY <1>3 DEF Written
  <2>2. /\ DOMAIN Append(cps, new) = 1 .. Len(cps) + 1
        /\ Append(cps, new)[Len(cps) + 1] = new
        /\ \A k \in 1 .. Len(cps) : Append(cps, new)[k] = cps[k]
    BY <1>1 DEF CheckpointList
  <2>3. new.fromBlock = b
    OBVIOUS
  <2>4. Len(cps) + 1 \in 1 .. Len(cps) + 1 /\ 1 .. Len(cps) \subseteq 1 .. Len(cps) + 1
    BY <1>1
  <2> HIDE DEF new
  <2> QED BY <1>1, <2>1, <2>2, <2>3, <2>4 DEF HasBlock
<1> QED BY <1>2, <1>3

\* the latest parameters are those in force
LEMMA CurrentIsLatest ==
  ASSUME NEW st, CheckpointList(st.quorumParams, ParamsType), NEW b \in Nat,
         Ascending(st.quorumParams, b)
  PROVE  getDynamicQuorumParamsAt(st.quorumParams, b)
           = Latest(st.quorumParams, [min |-> quorumVotesBPS, max |-> quorumVotesBPS,
                                      coefficient |-> 0])
  BY ValueAtEnd DEF getDynamicQuorumParamsAt

\* what is decoded and kept is a set of parameters
LEMMA NewParamsTyped ==
  ASSUME Typed, NEW st \in NextSettings, NEW tx \in Transactions, tx.call \in QuorumCalls
  PROVE  /\ CurrentParams(st) \in ParamsType /\ NewParams(st, tx) \in ParamsType
         /\ tx.call = "_setDynamicQuorumParams" => tx.arg \in ParamsType
         /\ tx.call # "_setDynamicQuorumParams" => tx.arg \in Nat
<1>1. /\ now \in Nat /\ CheckpointList(st.quorumParams, ParamsType)
      /\ Ascending(st.quorumParams, now)
  BY DEF Typed, NextSettings, SettingsType, CheckpointList
<1>2. CurrentParams(st) \in ParamsType
  BY <1>1, ParamsTyped DEF CurrentParams
<1>3. CASE tx.call = "_setDynamicQuorumParams"
  BY <1>2, <1>3, CallsAreDecoded DEF NewParams, ParamsType
<1>4. CASE tx.call \in {"_setMinQuorumVotesBPS", "_setMaxQuorumVotesBPS",
                        "_setQuorumCoefficient"}
  <2>1. tx.arg \in Nat
    BY <1>4, CallsAreDecoded
  <2> QED BY <1>2, <1>4, <2>1 DEF NewParams, ParamsType
<1> QED BY <1>3, <1>4 DEF QuorumCalls

\* one parameter is set in the index
LEMMA ParameterIndexed ==
  ASSUME NEW e \in IndexType, NEW v \in Nat, NEW field \in {"min", "max", "coefficient"},
         NEW p, p = [e.params EXCEPT ![field] = v]
  PROVE  handleParameterSet(e, now, field, v) = [e EXCEPT !.params = p] /\ p \in ParamsType
<1>1. e.params \in ParamsType /\ e.dynamicQuorumStartBlock = 0 /\ NoBlock # 0
  BY InitializedWithinBounds DEF IndexType
<1>2. StartBlockKept(e, now) = e
  BY <1>1 DEF StartBlockKept
<1>3. p \in ParamsType
  <2>1. CASE field = "min"
    BY <1>1, <2>1 DEF ParamsType
  <2>2. CASE field = "max"
    BY <1>1, <2>2 DEF ParamsType
  <2>3. CASE field = "coefficient"
    BY <1>1, <2>3 DEF ParamsType
  <2> QED BY <2>1, <2>2, <2>3
<1>4. handleParameterSet(e, now, field, v) = [e EXCEPT !.params[field] = v]
  BY <1>2 DEF handleParameterSet
<1>5. [e EXCEPT !.params[field] = v] = [e EXCEPT !.params = [e.params EXCEPT ![field] = v]]
  BY DEF IndexType
<1> QED BY <1>3, <1>4, <1>5

\* the event of the least quorum
LEMMA MinIndexed ==
  ASSUME NEW e \in IndexType, NEW v \in Nat,
         NEW p, p = [min |-> v, max |-> e.params.max, coefficient |-> e.params.coefficient]
  PROVE  handleParameterSet(e, now, "min", v) = [e EXCEPT !.params = p] /\ p \in ParamsType
<1>1. p = [e.params EXCEPT !["min"] = v]
  BY DEF IndexType, ParamsType
<1>2. "min" \in {"min", "max", "coefficient"}
  OBVIOUS
<1> QED BY <1>1, <1>2, ParameterIndexed

\* the event of the greatest quorum
LEMMA MaxIndexed ==
  ASSUME NEW e \in IndexType, NEW v \in Nat,
         NEW p, p = [min |-> e.params.min, max |-> v, coefficient |-> e.params.coefficient]
  PROVE  handleParameterSet(e, now, "max", v) = [e EXCEPT !.params = p] /\ p \in ParamsType
<1>1. p = [e.params EXCEPT !["max"] = v]
  BY DEF IndexType, ParamsType
<1>2. "max" \in {"min", "max", "coefficient"}
  OBVIOUS
<1> QED BY <1>1, <1>2, ParameterIndexed

\* the event of the coefficient
LEMMA CoefficientIndexed ==
  ASSUME NEW e \in IndexType, NEW v \in Nat,
         NEW p, p = [min |-> e.params.min, max |-> e.params.max, coefficient |-> v]
  PROVE  handleParameterSet(e, now, "coefficient", v) = [e EXCEPT !.params = p] /\ p \in ParamsType
<1>1. p = [e.params EXCEPT !["coefficient"] = v]
  BY DEF IndexType, ParamsType
<1>2. "coefficient" \in {"min", "max", "coefficient"}
  OBVIOUS
<1> QED BY <1>1, <1>2, ParameterIndexed

(***************************************************************************)
(* The events of a call: the index gets the parameters the call sets, and  *)
(* nothing else.                                                           *)
(***************************************************************************)
LEMMA EventsChange ==
  ASSUME Typed, NEW st \in NextSettings, NEW tx \in Transactions, NEW e \in IndexType
  PROVE  /\ AfterEvents(e, tx) \in IndexType
         /\ AfterEvents(e, tx).proposals = e.proposals
         /\ AfterEvents(e, tx).proposalsQueued = e.proposalsQueued
         /\ tx.call \notin QuorumCalls => AfterEvents(e, tx) = e
         /\ tx.call \in QuorumCalls /\ e.params = CurrentParams(st) =>
              AfterEvents(e, tx).params = NewParams(st, tx)
<1> DEFINE k == e.params
           P(p) == [e EXCEPT !.params = p]
<1>0. \A p \in ParamsType :
        /\ P(p) \in IndexType /\ P(p).params = p /\ P(p).proposals = e.proposals
        /\ P(p).proposalsQueued = e.proposalsQueued
        /\ \A q \in ParamsType : [P(p) EXCEPT !.params = q] = P(q)
  BY DEF IndexType
<1>k. k \in ParamsType /\ k.min \in Nat /\ k.max \in Nat /\ k.coefficient \in Nat
  BY DEF IndexType, ParamsType
<1>1. CASE tx.call \notin QuorumCalls
  <2>1. AfterEvents(e, tx) = e
    BY <1>1 DEF AfterEvents, QuorumCalls
  <2> QED BY <1>1, <2>1
<1>2. CASE tx.call = "_setMinQuorumVotesBPS"
  <2> DEFINE p == [min |-> tx.arg, max |-> k.max, coefficient |-> k.coefficient]
  <2>1. tx.call \in QuorumCalls /\ tx.arg \in Nat
    BY <1>2, NewParamsTyped DEF QuorumCalls
  <2>2. handleParameterSet(e, now, "min", tx.arg) = P(p) /\ p \in ParamsType
    BY <2>1, MinIndexed
  <2>3. AfterEvents(e, tx) = P(p)
    BY <1>2, <2>2 DEF AfterEvents
  <2>4. e.params = CurrentParams(st) => NewParams(st, tx) = p
    BY <1>2, <1>k DEF NewParams, ParamsType
  <2> HIDE DEF p, P
  <2> QED BY <1>0, <2>1, <2>2, <2>3, <2>4
<1>3. CASE tx.call = "_setMaxQuorumVotesBPS"
  <2> DEFINE p == [min |-> k.min, max |-> tx.arg, coefficient |-> k.coefficient]
  <2>1. tx.call \in QuorumCalls /\ tx.arg \in Nat
    BY <1>3, NewParamsTyped DEF QuorumCalls
  <2>2. handleParameterSet(e, now, "max", tx.arg) = P(p) /\ p \in ParamsType
    BY <2>1, MaxIndexed
  <2>3. AfterEvents(e, tx) = P(p)
    BY <1>3, <2>2 DEF AfterEvents
  <2>4. e.params = CurrentParams(st) => NewParams(st, tx) = p
    BY <1>3, <1>k DEF NewParams, ParamsType
  <2> HIDE DEF p, P
  <2> QED BY <1>0, <2>1, <2>2, <2>3, <2>4
<1>4. CASE tx.call = "_setQuorumCoefficient"
  <2> DEFINE p == [min |-> k.min, max |-> k.max, coefficient |-> tx.arg]
  <2>1. tx.call \in QuorumCalls /\ tx.arg \in Nat
    BY <1>4, NewParamsTyped DEF QuorumCalls
  <2>2. handleParameterSet(e, now, "coefficient", tx.arg) = P(p) /\ p \in ParamsType
    BY <2>1, CoefficientIndexed
  <2>3. AfterEvents(e, tx) = P(p)
    BY <1>4, <2>2 DEF AfterEvents
  <2>4. e.params = CurrentParams(st) => NewParams(st, tx) = p
    BY <1>4, <1>k DEF NewParams, ParamsType
  <2> HIDE DEF p, P
  <2> QED BY <1>0, <2>1, <2>2, <2>3, <2>4
<1>5. CASE tx.call = "_setDynamicQuorumParams"
  <2> DEFINE p1 == [min |-> tx.arg.min, max |-> k.max, coefficient |-> k.coefficient]
             p2 == [min |-> tx.arg.min, max |-> tx.arg.max, coefficient |-> k.coefficient]
             p3 == [min |-> tx.arg.min, max |-> tx.arg.max, coefficient |-> tx.arg.coefficient]
             e1 == P(p1)
             e2 == P(p2)
  <2>1. /\ tx.call \in QuorumCalls /\ tx.arg \in ParamsType
        /\ tx.arg.min \in Nat /\ tx.arg.max \in Nat /\ tx.arg.coefficient \in Nat
    BY <1>5, NewParamsTyped DEF QuorumCalls, ParamsType
  <2>2. handleParameterSet(e, now, "min", tx.arg.min) = e1 /\ p1 \in ParamsType
    BY <2>1, MinIndexed
  <2>3. e1 \in IndexType /\ e1.params = p1
    BY <1>0, <2>2
  <2>4. handleParameterSet(e1, now, "max", tx.arg.max) = e2 /\ p2 \in ParamsType
    <3>1. p2 = [min |-> e1.params.min, max |-> tx.arg.max, coefficient |-> e1.params.coefficient]
      BY <2>3
    <3> HIDE DEF P, p2, e1
    <3>2. handleParameterSet(e1, now, "max", tx.arg.max) = [e1 EXCEPT !.params = p2]
          /\ p2 \in ParamsType
      BY <2>1, <2>3, <3>1, MaxIndexed
    <3>3. [e1 EXCEPT !.params = p2] = e2
      BY <1>0, <2>2, <3>2 DEF e1
    <3> QED BY <3>2, <3>3
  <2>5. e2 \in IndexType /\ e2.params = p2
    BY <1>0, <2>4
  <2>6. handleParameterSet(e2, now, "coefficient", tx.arg.coefficient) = P(p3)
        /\ p3 \in ParamsType
    <3>1. p3 = [min |-> e2.params.min, max |-> e2.params.max, coefficient |-> tx.arg.coefficient]
      BY <2>5
    <3> HIDE DEF P, p3, e2
    <3>2. handleParameterSet(e2, now, "coefficient", tx.arg.coefficient)
            = [e2 EXCEPT !.params = p3] /\ p3 \in ParamsType
      BY <2>1, <2>5, <3>1, CoefficientIndexed
    <3>3. [e2 EXCEPT !.params = p3] = P(p3)
      BY <1>0, <2>4, <3>2 DEF e2
    <3> QED BY <3>2, <3>3
  <2>7. NewParams(st, tx) = tx.arg /\ tx.arg = p3
    BY <1>5, <2>1 DEF NewParams, ParamsType
  <2> HIDE DEF P, p1, p2, p3, e1, e2
  <2>8. AfterEvents(e, tx) = P(p3)
    BY <1>5, <2>2, <2>4, <2>6 DEF AfterEvents
  <2> QED BY <1>0, <2>1, <2>6, <2>7, <2>8
<1> QED BY <1>1, <1>2, <1>3, <1>4, <1>5 DEF QuorumCalls

(***************************************************************************)
(* The call of an admin and its events keep the index at the governor's    *)
(* parameters.                                                             *)
(***************************************************************************)
LEMMA AdminCallFollowed ==
  ASSUME Typed, NEW st \in NextSettings, NEW e \in IndexType, Followed(st, e),
         NEW tx \in Transactions, AdminAccepts(st, tx)
  PROVE  Followed(AfterAdminCall(st, tx), AfterEvents(e, tx))
<1> DEFINE after == AfterAdminCall(st, tx)
           events == AfterEvents(e, tx)
<1>1. /\ st \in SettingsType /\ now \in Nat
      /\ CheckpointList(st.quorumParams, ParamsType) /\ Ascending(st.quorumParams, now)
  BY DEF Typed, NextSettings, SettingsType, CheckpointList
<1>2. /\ events.proposals = index.proposals /\ events.proposalsQueued = index.proposalsQueued
  BY EventsChange DEF Followed
<1>3. CASE tx.call \notin QuorumCalls
  <2>1. events = e
    BY <1>3, EventsChange
  <2>2. after.quorumParams = st.quorumParams
    <3>1. CASE tx.call = "_setVotingDelay"
      BY <1>1, <3>1 DEF AfterAdminCall, QuorumCalls, SettingsType
    <3>2. CASE tx.call = "_setVotingPeriod"
      BY <1>1, <3>2 DEF AfterAdminCall, QuorumCalls, SettingsType
    <3>3. CASE tx.call = "_setProposalThresholdBPS"
      BY <1>1, <3>3 DEF AfterAdminCall, QuorumCalls, SettingsType
    <3>4. CASE tx.call = "_setPendingAdmin"
      BY <1>1, <3>4 DEF AfterAdminCall, QuorumCalls, SettingsType
    <3>5. CASE tx.call \notin {"_setVotingDelay", "_setVotingPeriod",
                               "_setProposalThresholdBPS", "_setPendingAdmin"}
      <4>1. after = st
        BY <1>3, <3>5 DEF AfterAdminCall
      <4> QED BY <4>1
    <3> QED BY <3>1, <3>2, <3>3, <3>4, <3>5
  <2> HIDE DEF after, events
  <2>3. CurrentParams(after) = CurrentParams(st)
    BY <2>2 DEF CurrentParams
  <2>4. Followed(after, events)
    BY <2>1, <2>2, <2>3 DEF Followed
  <2> QED BY <2>4 DEF after, events
<1>4. CASE tx.call \in QuorumCalls
  <2> DEFINE new == NewParams(st, tx)
             cps == Written(st.quorumParams, now, new)
  <2>1. new \in ParamsType
    BY <1>4, NewParamsTyped
  <2>2. events.params = new
    BY <1>4, EventsChange DEF Followed
  <2>3. new.min <= new.max
    BY <1>4 DEF AdminAccepts, ParamsInBounds
  <2> HIDE DEF new, events
  <2>4. after = [st EXCEPT !.quorumParams = cps]
    BY <1>4 DEF AfterAdminCall, QuorumCalls, new
  <2>5. after.quorumParams = cps
    BY <1>1, <2>4 DEF SettingsType
  <2>6. /\ CheckpointList(cps, ParamsType) /\ Ascending(cps, now)
        /\ Latest(cps, [min |-> quorumVotesBPS, max |-> quorumVotesBPS, coefficient |-> 0]) = new
    BY <1>1, <2>1, WrittenIsLatest
  <2>7. HasBlock(cps, now) /\ \A b : HasBlock(st.quorumParams, b) => HasBlock(cps, b)
    BY <1>1, WrittenBlocks
  <2> HIDE DEF after, cps
  <2>8. CurrentParams(after) = new
    BY <1>1, <2>5, <2>6, CurrentIsLatest DEF CurrentParams
  <2>9. \A b : HasBlock(settings.quorumParams, b) => HasBlock(st.quorumParams, b)
    BY DEF Followed
  <2>10. Followed(after, events)
    BY <1>2, <2>2, <2>3, <2>5, <2>7, <2>8, <2>9 DEF Followed
  <2> QED BY <2>10 DEF after, events
<1> QED BY <1>3, <1>4

(***************************************************************************)
(* So do the calls of a proposal, if none of them reverts.                 *)
(***************************************************************************)
LEMMA CallsFollowed ==
  ASSUME Typed, NEW payload \in Payloads, index \in IndexType, Followed(settings, index),
         ~ AfterCalls(payload).reverted
  PROVE  /\ AfterParameterEvents(index, payload) \in IndexType
         /\ Followed(AfterCalls(payload).settings, AfterParameterEvents(index, payload))
<1> DEFINE States == [timelock : TimelockType, settings : NextSettings, reverted : BOOLEAN]
           R == {pair \in States \X IndexType :
                   pair[1].reverted \/ Followed(pair[1].settings, pair[2])}
<1>1. payload \in Seq(Transactions)
  BY CallsAreDecoded
<1>2. Len(payload) \in Nat /\ DOMAIN payload = 1 .. Len(payload)
      /\ \A i \in DOMAIN payload : payload[i] \in Transactions
  BY <1>1
<1>3. <<FirstCall, index>> \in R
  BY DEF FirstCall, Typed, NextSettings
<1>4. ASSUME NEW r, NEW e, <<r, e>> \in R, NEW i \in DOMAIN payload
      PROVE  <<AfterCall(r, payload[i]), AfterEvents(e, payload[i])>> \in R
  <2> DEFINE tx == payload[i]
  <2>1. /\ r \in States /\ e \in IndexType /\ (r.reverted \/ Followed(r.settings, e))
        /\ tx \in Transactions /\ r.settings \in NextSettings /\ r.timelock \in TimelockType
        /\ r.reverted \in BOOLEAN
    BY <1>2, <1>4
  <2> HIDE DEF tx
  <2>2. AfterEvents(e, tx) \in IndexType
    BY <2>1, EventsChange
  <2>3. CASE SetterAccepts(tx) /\ (tx.call \in AdminCalls =>
                                     r.settings.admin = Executor /\ AdminAccepts(r.settings, tx))
    <3>1. AfterSetter(r.timelock, tx) \in TimelockType
      <4>1. tx.arg \in Appointed
        BY <2>1 DEF Appointed
      <4> QED BY <2>1, <2>3, <4>1 DEF AfterSetter, SetterAccepts, TimelockType
    <3>2. /\ AfterAdminCall(r.settings, tx) \in NextSettings
          /\ Followed(r.settings, e) =>
               Followed(AfterAdminCall(r.settings, tx), AfterEvents(e, tx))
      <4>1. CASE tx.call \in AdminCalls
        BY <2>1, <2>3, <4>1, AdminCallKeeps, AdminCallFollowed
      <4>2. CASE tx.call \notin AdminCalls
        <5>1. AfterAdminCall(r.settings, tx) = r.settings
          BY <4>2 DEF AfterAdminCall, AdminCalls, QuorumCalls
        <5>2. AfterEvents(e, tx) = e
          BY <2>1, <4>2, EventsChange DEF AdminCalls
        <5> QED BY <2>1, <5>1, <5>2
      <4> QED BY <4>1, <4>2
    <3>3. AfterCall(r, tx) = [r EXCEPT !.timelock = AfterSetter(@, tx),
                                       !.settings = AfterAdminCall(@, tx)]
      BY <2>3 DEF AfterCall
    <3>4. /\ AfterCall(r, tx) \in States /\ AfterCall(r, tx).reverted = r.reverted
          /\ AfterCall(r, tx).settings = AfterAdminCall(r.settings, tx)
      BY <2>1, <3>1, <3>2, <3>3
    <3> HIDE DEF States
    <3> QED BY <2>1, <2>2, <3>2, <3>4 DEF tx
  <2>4. CASE ~ (SetterAccepts(tx) /\ (tx.call \in AdminCalls =>
                                     r.settings.admin = Executor /\ AdminAccepts(r.settings, tx)))
    <3>1. AfterCall(r, tx) = [r EXCEPT !.reverted = TRUE]
      BY <2>4 DEF AfterCall
    <3>2. AfterCall(r, tx) \in States /\ AfterCall(r, tx).reverted
      BY <2>1, <3>1
    <3> HIDE DEF States
    <3> QED BY <2>2, <3>2 DEF tx
  <2> QED BY <2>3, <2>4
<1>5. <<AfterCalls(payload), AfterParameterEvents(index, payload)>> \in R
  <2>1. \A r, e : <<r, e>> \in R => \A i \in DOMAIN payload :
          <<AfterCall(r, payload[i]), AfterEvents(e, payload[i])>> \in R
    <3> HIDE DEF R
    <3> QED BY <1>4
  <2> HIDE DEF R
  <2> QED BY <1>2, <1>3, <2>1, CallsAndEventsKeep
<1> QED BY <1>5

-------------------------------------------------------------------------------
(* The inductive invariant.                                                *)

NoBallots == [s \in 0 .. 2 |-> 0]

\* what the entity x copies of the proposal p
Copies(x, p) ==
  /\ x.proposer = p.proposer /\ x.totalSupply = p.totalSupply
  /\ x.createdBlock = p.creationBlock /\ x.createdBlock > 0
  /\ x.startBlock = p.startBlock /\ x.endBlock = p.endBlock
  /\ x.tally = p.tally
  /\ x.executionETA = IF p.executed THEN 0 ELSE p.eta

\* what its status says of the proposal in the block t
StatusTells(x, p, t) ==
  /\ p.executed => ~ p.canceled /\ ~ p.vetoed
  /\ x.status = "EXECUTED" <=> p.executed
  /\ x.status \in {"CANCELLED", "VETOED"} <=> p.canceled \/ p.vetoed
  /\ x.status = "CANCELLED" => p.canceled
  /\ x.status = "VETOED" => p.vetoed
  /\ x.status = "QUEUED" => p.eta # 0
  /\ x.status \in {"PENDING", "ACTIVE"} => p.eta = 0
  /\ x.status = "PENDING" => x.votes = {} /\ x.tally = NoBallots
  /\ x.status = "ACTIVE" => t > p.startBlock

Tells(x, p, t) == Copies(x, p) /\ StatusTells(x, p, t) /\ x.quorumVotes = indexedQuorum(x)

\* the quorum parameters stored with x are those of p, or set in its block
ParamsTell(x, p, st) ==
  \/ x.params = ParamsAt(st, p.creationBlock)
  \/ HasBlock(st.quorumParams, p.creationBlock)

EntitiesTell ==
  /\ Len(index.proposals) = Len(proposals)
  /\ \A i \in Ids : Tells(index.proposals[i], proposals[i], now)

ParamsFollow ==
  /\ index.params = CurrentParams(settings) /\ index.params.min <= index.params.max
  /\ \A i \in Ids : ParamsTell(index.proposals[i], proposals[i], settings)

\* the proposals that were queued and not executed
Held == {i \in Ids : proposals[i].eta # 0 /\ ~ proposals[i].executed}

HeldCounted == index.proposalsQueued = Cardinality(Held)

\* who has votes has nouns
SuppliedVotes ==
  supply = 0 =>
    \A a \in Accounts : votes[a] = 0 /\ \A b \in 0 .. now - 1 : pastVotes[b][a] = 0

AppInv ==
  /\ GovInv /\ SuppliedVotes /\ index \in IndexType
  /\ EntitiesTell /\ ParamsFollow /\ HeldCounted

-------------------------------------------------------------------------------
(* The handlers of the events of one proposal.                             *)

\* the index d is e with the entity y of proposal i, and n proposals queued
EntityChanged(e, d, i, y, n) ==
  /\ d \in IndexType /\ Len(d.proposals) = Len(e.proposals)
  /\ d.proposals[i] = y
  /\ \A k \in 1 .. Len(e.proposals) : k # i => d.proposals[k] = e.proposals[k]
  /\ d.params = e.params /\ d.proposalsQueued = n

\* a stored entity is replaced
LEMMA EntityReplaced ==
  ASSUME NEW e \in IndexType, NEW i \in 1 .. Len(e.proposals), NEW y \in EntityType,
         NEW n \in Int, NEW s, s = [e.proposals EXCEPT ![i] = y],
         NEW d, d = [e EXCEPT !.proposals = s, !.proposalsQueued = n]
  PROVE  EntityChanged(e, d, i, y, n)
<1>1. e.proposals \in Seq(EntityType)
  BY DEF IndexType
<1>2. /\ s \in Seq(EntityType) /\ Len(s) = Len(e.proposals) /\ s[i] = y
      /\ \A k \in 1 .. Len(e.proposals) : k # i => s[k] = e.proposals[k]
  <2> HIDE DEF EntityType
  <2> QED BY <1>1
<1>3. d \in IndexType /\ d.proposals = s /\ d.params = e.params /\ d.proposalsQueued = n
  BY <1>2 DEF IndexType
<1> QED BY <1>2, <1>3 DEF EntityChanged

\* the stored entity of a proposal
LEMMA EntityOf ==
  ASSUME NEW e \in IndexType, NEW i \in 1 .. Len(e.proposals)
  PROVE  /\ e.proposals[i] \in EntityType /\ e.proposalsQueued \in Int
         /\ e.proposals \in Seq(EntityType) /\ DOMAIN e.proposals = 1 .. Len(e.proposals)
<1>1. e.proposals \in Seq(EntityType) /\ e.proposalsQueued \in Int
  BY DEF IndexType
<1> HIDE DEF EntityType
<1> QED BY <1>1

\* a canceled proposal
LEMMA CanceledIndexed ==
  ASSUME NEW e \in IndexType, NEW i \in 1 .. Len(e.proposals)
  PROVE  EntityChanged(e, handleProposalCanceled(e, i), i,
           [e.proposals[i] EXCEPT !.status = "CANCELLED"], e.proposalsQueued)
<1> DEFINE y == [e.proposals[i] EXCEPT !.status = "CANCELLED"]
           s == [e.proposals EXCEPT ![i] = y]
           d == handleProposalCanceled(e, i)
<1>1. y \in EntityType
  <2> DEFINE x == e.proposals[i]
  <2>1. x \in EntityType
    BY EntityOf
  <2> HIDE DEF x
  <2>2. [x EXCEPT !.status = "CANCELLED"] \in EntityType
    BY <2>1 DEF EntityType, Statuses
  <2> QED BY <2>2 DEF x
<1>2. d = [e EXCEPT !.proposals = s, !.proposalsQueued = e.proposalsQueued]
  BY DEF handleProposalCanceled, IndexType
<1> HIDE DEF y, d
<1>3. EntityChanged(e, d, i, y, e.proposalsQueued)
  BY <1>1, <1>2, EntityOf, EntityReplaced
<1> QED BY <1>3 DEF y, d

\* a vetoed one
LEMMA VetoedIndexed ==
  ASSUME NEW e \in IndexType, NEW i \in 1 .. Len(e.proposals)
  PROVE  EntityChanged(e, handleProposalVetoed(e, i), i,
           [e.proposals[i] EXCEPT !.status = "VETOED"], e.proposalsQueued)
<1> DEFINE y == [e.proposals[i] EXCEPT !.status = "VETOED"]
           s == [e.proposals EXCEPT ![i] = y]
           d == handleProposalVetoed(e, i)
<1>1. y \in EntityType
  <2> DEFINE x == e.proposals[i]
  <2>1. x \in EntityType
    BY EntityOf
  <2> HIDE DEF x
  <2>2. [x EXCEPT !.status = "VETOED"] \in EntityType
    BY <2>1 DEF EntityType, Statuses
  <2> QED BY <2>2 DEF x
<1>2. d = [e EXCEPT !.proposals = s, !.proposalsQueued = e.proposalsQueued]
  BY DEF handleProposalVetoed, IndexType
<1> HIDE DEF y, d
<1>3. EntityChanged(e, d, i, y, e.proposalsQueued)
  BY <1>1, <1>2, EntityOf, EntityReplaced
<1> QED BY <1>3 DEF y, d

\* a queued one
LEMMA QueuedIndexed ==
  ASSUME NEW e \in IndexType, NEW i \in 1 .. Len(e.proposals), NEW eta \in Nat
  PROVE  EntityChanged(e, handleProposalQueued(e, i, eta), i,
           [e.proposals[i] EXCEPT !.status = "QUEUED", !.executionETA = eta],
           e.proposalsQueued + 1)
<1> DEFINE y == [e.proposals[i] EXCEPT !.status = "QUEUED", !.executionETA = eta]
           s == [e.proposals EXCEPT ![i] = y]
           d == handleProposalQueued(e, i, eta)
           n == e.proposalsQueued + 1
<1>1. y \in EntityType /\ n \in Int
  <2> DEFINE x == e.proposals[i]
  <2>1. x \in EntityType /\ e.proposalsQueued \in Int
    BY EntityOf
  <2> HIDE DEF x
  <2>2. [x EXCEPT !.status = "QUEUED", !.executionETA = eta] \in EntityType
    BY <2>1 DEF EntityType, Statuses
  <2> QED BY <2>1, <2>2 DEF x
<1>2. d = [e EXCEPT !.proposals = s, !.proposalsQueued = n]
  BY EntityOf DEF handleProposalQueued, IndexType, EntityType
<1> HIDE DEF y, d, n
<1>3. EntityChanged(e, d, i, y, n)
  BY <1>1, <1>2, EntityReplaced
<1> QED BY <1>3 DEF y, d, n

\* an executed one
LEMMA ExecutedIndexed ==
  ASSUME NEW e \in IndexType, NEW i \in 1 .. Len(e.proposals)
  PROVE  EntityChanged(e, handleProposalExecuted(e, i), i,
           [e.proposals[i] EXCEPT !.status = "EXECUTED", !.executionETA = 0],
           e.proposalsQueued - 1)
<1> DEFINE y == [e.proposals[i] EXCEPT !.status = "EXECUTED", !.executionETA = 0]
           s == [e.proposals EXCEPT ![i] = y]
           d == handleProposalExecuted(e, i)
           n == e.proposalsQueued - 1
<1>1. y \in EntityType /\ n \in Int
  <2> DEFINE x == e.proposals[i]
  <2>1. x \in EntityType /\ e.proposalsQueued \in Int
    BY EntityOf
  <2> HIDE DEF x
  <2>2. [x EXCEPT !.status = "EXECUTED", !.executionETA = 0] \in EntityType
    BY <2>1 DEF EntityType, Statuses
  <2> QED BY <2>1, <2>2 DEF x
<1>2. d = [e EXCEPT !.proposals = s, !.proposalsQueued = n]
  BY EntityOf DEF handleProposalExecuted, IndexType, EntityType, NullEta
<1> HIDE DEF y, d, n
<1>3. EntityChanged(e, d, i, y, n)
  BY <1>1, <1>2, EntityReplaced
<1> QED BY <1>3 DEF y, d, n

\* a vote, which refreshes the quorum
LEMMA VoteIndexed ==
  ASSUME NEW e \in IndexType, NEW i \in 1 .. Len(e.proposals), e.proposals[i].createdBlock > 0,
         NEW voter \in Accounts, NEW support \in 0 .. 2, NEW w \in Nat,
         NEW x, x = e.proposals[i],
         NEW tally, tally = [x.tally EXCEPT ![support] = @ + w],
         NEW ballots, ballots = x.votes \cup {[voter |-> voter, votes |-> w, support |-> support]},
         NEW q, q = dynamicQuorumVotes(tally[0], x.totalSupply, x.params),
         NEW status, status = IF x.status = "PENDING" THEN "ACTIVE" ELSE x.status,
         NEW y, y = [x EXCEPT !.tally = tally, !.votes = ballots, !.quorumVotes = q,
                              !.status = status]
  PROVE  EntityChanged(e, handleVoteCast(e, i, voter, support, w), i, y, e.proposalsQueued)
<1> DEFINE counted == [x EXCEPT !.tally = tally, !.votes = ballots]
           s == [e.proposals EXCEPT ![i] = y]
           d == handleVoteCast(e, i, voter, support, w)
<1>1. x \in EntityType
  BY EntityOf
<1>2. tally \in [0 .. 2 -> Nat] /\ ballots \in SUBSET BallotType /\ status \in Statuses
  <2>1. /\ x.tally \in [0 .. 2 -> Nat]
        /\ x.votes \in SUBSET BallotType /\ x.status \in Statuses
    BY <1>1 DEF EntityType
  <2>2. tally \in [0 .. 2 -> Nat]
    <3>1. x.tally[support] \in Nat
      BY <2>1
    <3>2. x.tally[support] + w \in Nat
      BY <3>1
    <3>3. tally = [x.tally EXCEPT ![support] = x.tally[support] + w]
      OBVIOUS
    <3> QED BY <2>1, <3>2, <3>3
  <2>3. [voter |-> voter, votes |-> w, support |-> support] \in BallotType
    BY DEF BallotType
  <2>4. ballots \in SUBSET BallotType
    BY <2>1, <2>3
  <2>5. status \in Statuses
    BY <2>1 DEF Statuses
  <2> QED BY <2>2, <2>4, <2>5
<1>3. q \in Nat
  <2>1. x.totalSupply \in Nat \ {0} /\ x.params \in ParamsType
    BY <1>1 DEF EntityType
  <2>2. tally[0] \in Nat
    BY <1>2
  <2> QED BY <2>1, <2>2, QuorumTyped
<1>4. y \in EntityType
  <2>1. counted \in EntityType
    BY <1>1, <1>2 DEF EntityType
  <2>2. y = [counted EXCEPT !.quorumVotes = q, !.status = status]
    BY <1>1 DEF EntityType
  <2> HIDE DEF counted
  <2> QED BY <1>2, <1>3, <2>1, <2>2 DEF EntityType
<1>5. counted = [x EXCEPT !.tally[support] = @ + w,
                          !.votes = @ \cup {[voter |-> voter, votes |-> w, support |-> support]}]
  BY <1>1 DEF EntityType
<1>6. indexedQuorum(counted) = q /\ counted.status = x.status
  BY <1>1 DEF indexedQuorum, EntityType
<1>7. [counted EXCEPT !.quorumVotes = q, !.status = status] = y
  BY <1>1 DEF EntityType
<1>8. e.dynamicQuorumStartBlock # NoBlock /\ e.dynamicQuorumStartBlock < x.createdBlock
  BY InitializedWithinBounds DEF IndexType
<1>9. d = [e EXCEPT !.proposals[i] =
             [counted EXCEPT !.quorumVotes = indexedQuorum(counted),
                             !.status = IF @ = "PENDING" THEN "ACTIVE" ELSE @]]
  <2> HIDE DEF counted
  <2> QED BY <1>5, <1>8 DEF handleVoteCast
<1>10. [counted EXCEPT !.quorumVotes = indexedQuorum(counted),
                       !.status = IF @ = "PENDING" THEN "ACTIVE" ELSE @]
         = [counted EXCEPT !.quorumVotes = q, !.status = status]
  BY <1>1, <1>6 DEF EntityType
<1>11. d = [e EXCEPT !.proposals = s, !.proposalsQueued = e.proposalsQueued]
  <2> HIDE DEF counted
  <2>1. d = [e EXCEPT !.proposals[i] = y]
    BY <1>7, <1>9, <1>10
  <2>3. [e EXCEPT !.proposals[i] = y] = [e EXCEPT !.proposals = s]
    BY DEF IndexType
  <2>4. [e EXCEPT !.proposals = s]
          = [e EXCEPT !.proposals = s, !.proposalsQueued = e.proposalsQueued]
    <3> HIDE DEF s
    <3> QED BY DEF IndexType
  <2> HIDE DEF d
  <2> QED BY <2>1, <2>3, <2>4
<1> HIDE DEF d
<1>12. EntityChanged(e, d, i, y, e.proposalsQueued)
  BY <1>4, <1>11, EntityOf, EntityReplaced
<1> QED BY <1>12 DEF d

-------------------------------------------------------------------------------
(* What the steps keep.                                                    *)

\* a step of the application is one of the governor
LEMMA AppSteps == [AppNext]_appVars => [Next]_vars
<1> SUFFICES ASSUME AppNext \/ UNCHANGED appVars PROVE Next \/ UNCHANGED vars
  BY DEF appVars
<1>1. CASE UNCHANGED appVars
  BY <1>1 DEF appVars
<1>2. CASE Unindexed
  BY <1>2 DEF Unindexed, Next
<1>3. CASE AppNext /\ ~ Unindexed
  BY <1>3 DEF AppNext, Next, IndexPropose, IndexCastVote, IndexQueue, IndexExecute, IndexCancel,
       IndexVeto, IndexAdminCall
<1> QED BY <1>1, <1>2, <1>3

\* the index has an entity of every proposal
LEMMA EntityTells ==
  ASSUME AppInv, NEW i \in Ids
  PROVE  /\ i \in 1 .. Len(index.proposals) /\ index.proposals[i] \in EntityType
         /\ proposals[i] \in ProposalType /\ Tells(index.proposals[i], proposals[i], now)
         /\ ParamsTell(index.proposals[i], proposals[i], settings)
<1>1. /\ Typed /\ index \in IndexType /\ Len(index.proposals) = Len(proposals)
      /\ Tells(index.proposals[i], proposals[i], now)
      /\ ParamsTell(index.proposals[i], proposals[i], settings)
  BY DEF AppInv, GovInv, EntitiesTell, ParamsFollow
<1>2. i \in 1 .. Len(index.proposals)
  BY <1>1 DEF Ids
<1> QED BY <1>1, <1>2, EntityOf, OneProposal

\* the present settings and the index agree
LEMMA FollowedNow == AppInv => Followed(settings, index)
BY DEF AppInv, ParamsFollow, Followed

(***************************************************************************)
(* The settings a transaction leaves and the parameters of its events.     *)
(***************************************************************************)
LEMMA ParamsKept ==
  ASSUME AppInv, [Next]_vars, now' = now, NEW e, Followed(settings', e), index'.params = e.params,
         \A k \in Ids : index'.proposals[k].params = index.proposals[k].params
  PROVE  /\ index'.params = CurrentParams(settings)' /\ index'.params.min <= index'.params.max
         /\ \A k \in Ids : ParamsTell(index'.proposals[k], proposals'[k], settings')
<1>1. index'.params = CurrentParams(settings)' /\ index'.params.min <= index'.params.max
  BY DEF Followed, CurrentParams
<1>2. ASSUME NEW k \in Ids
      PROVE  ParamsTell(index'.proposals[k], proposals'[k], settings')
  <2> DEFINE b == proposals[k].creationBlock
             x == index.proposals[k]
  <2>1. /\ proposals'[k].creationBlock = b /\ index'.proposals[k].params = x.params
        /\ \A c \in 0 .. now - 1 : ParamsAt(settings', c) = ParamsAt(settings, c)
    BY StepKeeps DEF AppInv, GovInv, Fixed
  <2>2. b \in Nat /\ now \in Nat /\ b <= now
    <3>1. Typed /\ Timed /\ proposals[k] \in ProposalType
      BY EntityTells DEF AppInv, GovInv
    <3> QED BY <3>1 DEF Typed, Timed, ProposalType
  <2>3. x.params = ParamsAt(settings, b) \/ HasBlock(settings.quorumParams, b)
    BY EntityTells DEF ParamsTell
  <2>4. HasBlock(settings.quorumParams, b) => HasBlock(settings'.quorumParams, b)
    BY DEF Followed
  <2>5. CASE b < now
    <3>1. ParamsAt(settings', b) = ParamsAt(settings, b)
      <4> HIDE DEF b
      <4> QED BY <2>1, <2>2, <2>5
    <3> HIDE DEF b, x
    <3> QED BY <2>1, <2>3, <2>4, <3>1 DEF ParamsTell
  <2>6. CASE b = now
    <3>1. ParamsAt(settings', b) = ParamsAt(settings, b) \/ HasBlock(settings'.quorumParams, b)
      <4> HIDE DEF b
      <4>1. \/ CurrentParams(settings') = CurrentParams(settings)
            \/ HasBlock(settings'.quorumParams, now)
        BY DEF Followed
      <4>2. CurrentParams(settings') = ParamsAt(settings', b)
            /\ CurrentParams(settings) = ParamsAt(settings, b)
        BY <2>6 DEF CurrentParams, ParamsAt
      <4> QED BY <2>6, <4>1, <4>2
    <3> HIDE DEF b, x
    <3> QED BY <2>1, <2>3, <2>4, <3>1 DEF ParamsTell
  <2> HIDE DEF b
  <2> QED BY <2>2, <2>5, <2>6
<1> QED BY <1>1, <1>2

(***************************************************************************)
(* A transaction on one proposal, when its entity tells the proposal       *)
(* afterwards.                                                             *)
(***************************************************************************)
LEMMA OneChanged ==
  ASSUME AppInv, [Next]_vars, NEW i \in Ids, NEW q \in ProposalType, Changes(i, q),
         NEW e, Followed(settings', e), NEW y, NEW n, EntityChanged(e, index', i, y, n),
         Tells(y, q, now), y.params = index.proposals[i].params
  PROVE  EntitiesTell' /\ ParamsFollow'
<1>1. /\ Ids' = Ids /\ Len(proposals') = Len(proposals) /\ proposals'[i] = q /\ now' = now
      /\ \A k \in Ids : k # i => proposals'[k] = proposals[k]
  BY Replaced DEF AppInv, GovInv, Changes
<1>2. /\ Len(index'.proposals) = Len(index.proposals) /\ index'.proposals[i] = y
      /\ \A k \in 1 .. Len(index.proposals) : k # i => index'.proposals[k] = index.proposals[k]
      /\ index'.params = e.params
  BY DEF EntityChanged, Followed
<1>3. Len(index.proposals) = Len(proposals) /\ Ids = 1 .. Len(index.proposals)
  BY DEF AppInv, EntitiesTell, Ids
<1>4. \A k \in Ids : Tells(index'.proposals[k], proposals'[k], now')
  <2>1. \A k \in Ids : Tells(index.proposals[k], proposals[k], now)
    BY DEF AppInv, EntitiesTell
  <2> QED BY <1>1, <1>2, <1>3, <2>1
<1>5. EntitiesTell'
  BY <1>1, <1>2, <1>3, <1>4 DEF EntitiesTell
<1>6. ParamsFollow'
  <2>1. \A k \in Ids : index'.proposals[k].params = index.proposals[k].params
    BY <1>2, <1>3
  <2>2. /\ index'.params = CurrentParams(settings)' /\ index'.params.min <= index'.params.max
        /\ \A k \in Ids : ParamsTell(index'.proposals[k], proposals'[k], settings')
    BY <1>1, <1>2, <2>1, ParamsKept
  <2> QED BY <1>1, <2>2 DEF ParamsFollow
<1> QED BY <1>5, <1>6

(***************************************************************************)
(* The count of queued proposals follows one proposal.                     *)
(***************************************************************************)
LEMMA HeldChanges ==
  ASSUME AppInv, NEW i \in Ids, NEW q \in ProposalType, Changes(i, q)
  PROVE  /\ IsFiniteSet(Held)
         /\ q.eta # 0 /\ ~ q.executed => Held' = Held \cup {i}
         /\ ~ (q.eta # 0 /\ ~ q.executed) => Held' = Held \ {i}
<1>1. /\ Ids' = Ids /\ proposals'[i] = q
      /\ \A k \in Ids : k # i => proposals'[k] = proposals[k]
  BY Replaced DEF AppInv, GovInv, Changes
<1>2. IsFiniteSet(Held)
  <2>1. Len(proposals) \in Nat
    BY OneProposal DEF AppInv, GovInv
  <2>2. IsFiniteSet(Ids)
    BY <2>1, FS_Interval DEF Ids
  <2> QED BY <2>2, FS_Subset DEF Held
<1> QED BY <1>1, <1>2 DEF Held

\* what there is to keep beside the governor's invariant
IndexKept == index \in IndexType /\ EntitiesTell /\ ParamsFollow /\ HeldCounted

(***************************************************************************)
(* A transaction on one proposal whose entity and count follow.            *)
(***************************************************************************)
LEMMA OneKept ==
  ASSUME AppInv, [Next]_vars, NEW i \in Ids, NEW q \in ProposalType, Changes(i, q),
         NEW e, Followed(settings', e), NEW y, NEW n, EntityChanged(e, index', i, y, n),
         Tells(y, q, now), y.params = index.proposals[i].params,
         n = Cardinality(Held')
  PROVE  IndexKept'
<1>1. EntitiesTell' /\ ParamsFollow'
  BY OneChanged
<1>2. index' \in IndexType /\ HeldCounted'
  BY DEF EntityChanged, HeldCounted
<1> QED BY <1>1, <1>2 DEF IndexKept

(***************************************************************************)
(* A stopped proposal: cancel and veto.                                    *)
(***************************************************************************)
LEMMA StoppedKept ==
  ASSUME AppInv, [Next]_vars, NEW i \in Ids, NEW q \in ProposalType, Changes(i, q),
         settings' = settings, State(i) # "Executed",
         NEW y, NEW s \in {"CANCELLED", "VETOED"},
         y = [index.proposals[i] EXCEPT !.status = s],
         \/ q = [proposals[i] EXCEPT !.canceled = TRUE] /\ s = "CANCELLED"
         \/ q = [proposals[i] EXCEPT !.vetoed = TRUE] /\ s = "VETOED",
         EntityChanged(index, index', i, y, index.proposalsQueued)
  PROVE  IndexKept'
<1> DEFINE x == index.proposals[i]
           p == proposals[i]
<1>1. /\ x \in EntityType /\ p \in ProposalType /\ Copies(x, p) /\ StatusTells(x, p, now)
      /\ x.quorumVotes = indexedQuorum(x)
  BY EntityTells DEF Tells
<1>2. p.executed = FALSE
  <2>1. p.executed => State(i) = "Executed"
    <3>1. p.executed => /\ ~ p.canceled /\ ~ p.vetoed /\ p.eta # 0 /\ Passed(p)
                        /\ now > p.endBlock
      BY <1>1 DEF AppInv, GovInv, QueuedPassed, StatusTells
    <3>2. now \in Nat /\ p.startBlock \in Nat /\ p.endBlock \in Nat /\ p.startBlock < p.endBlock
      BY <1>1 DEF AppInv, GovInv, Typed, Timed, ProposalType
    <3> QED BY <3>1, <3>2 DEF State
  <2>2. p.executed \in BOOLEAN
    BY <1>1 DEF ProposalType
  <2> QED BY <2>1, <2>2
<1>3. /\ q.executed = FALSE /\ q.eta = p.eta /\ (q.canceled \/ q.vetoed)
      /\ s = "CANCELLED" => q.canceled
      /\ s = "VETOED" => q.vetoed
      /\ q.proposer = p.proposer /\ q.totalSupply = p.totalSupply
      /\ q.creationBlock = p.creationBlock /\ q.startBlock = p.startBlock
      /\ q.endBlock = p.endBlock /\ q.tally = p.tally
  BY <1>1, <1>2 DEF ProposalType
<1>4. /\ y.status = s /\ y.proposer = x.proposer /\ y.totalSupply = x.totalSupply
      /\ y.createdBlock = x.createdBlock /\ y.startBlock = x.startBlock
      /\ y.endBlock = x.endBlock /\ y.tally = x.tally /\ y.executionETA = x.executionETA
      /\ y.params = x.params /\ y.quorumVotes = x.quorumVotes
  BY <1>1 DEF EntityType
<1> HIDE DEF x, p
<1>5. Copies(y, q)
  BY <1>1, <1>2, <1>3, <1>4 DEF Copies
<1>6. StatusTells(y, q, now)
  BY <1>3, <1>4 DEF StatusTells
<1>7. Tells(y, q, now)
  BY <1>1, <1>4, <1>5, <1>6 DEF Tells, indexedQuorum
<1>8. Held' = Held
  <2>1. p.eta # 0 <=> i \in Held
    BY <1>2 DEF Held, p
  <2> QED BY <1>3, <2>1, HeldChanges
<1>9. index.proposalsQueued = Cardinality(Held') /\ Followed(settings', index)
  BY <1>8, FollowedNow DEF AppInv, HeldCounted
<1> QED BY <1>4, <1>7, <1>9, OneKept DEF x

\* cancel
LEMMA CancelKept ==
  ASSUME AppInv, [Next]_vars, NEW a, NEW i \in Ids, IndexCancel(a, i)
  PROVE  IndexKept'
<1> DEFINE q == [proposals[i] EXCEPT !.canceled = TRUE]
           y == [index.proposals[i] EXCEPT !.status = "CANCELLED"]
<1>1. Cancel(a, i) /\ index' = handleProposalCanceled(index, i)
  BY DEF IndexCancel
<1>2. q \in ProposalType /\ Changes(i, q) /\ settings' = settings
  BY <1>1, CancelChanges DEF AppInv, GovInv
<1>3. EntityChanged(index, index', i, y, index.proposalsQueued)
  BY <1>1, EntityTells, CanceledIndexed DEF AppInv
<1>4. State(i) # "Executed"
  BY <1>1 DEF Cancel
<1>5. /\ y = [index.proposals[i] EXCEPT !.status = "CANCELLED"]
      /\ q = [proposals[i] EXCEPT !.canceled = TRUE]
  OBVIOUS
<1>6. "CANCELLED" \in {"CANCELLED", "VETOED"}
  OBVIOUS
<1> HIDE DEF q, y
<1> QED BY <1>2, <1>3, <1>4, <1>5, <1>6, StoppedKept

\* veto
LEMMA VetoKept ==
  ASSUME AppInv, [Next]_vars, NEW a, NEW i \in Ids, IndexVeto(a, i)
  PROVE  IndexKept'
<1> DEFINE q == [proposals[i] EXCEPT !.vetoed = TRUE]
           y == [index.proposals[i] EXCEPT !.status = "VETOED"]
<1>1. Veto(a, i) /\ index' = handleProposalVetoed(index, i)
  BY DEF IndexVeto
<1>2. q \in ProposalType /\ Changes(i, q) /\ settings' = settings
  BY <1>1, VetoChanges DEF AppInv, GovInv
<1>3. EntityChanged(index, index', i, y, index.proposalsQueued)
  BY <1>1, EntityTells, VetoedIndexed DEF AppInv
<1>4. State(i) # "Executed"
  BY <1>1 DEF Veto
<1>5. /\ y = [index.proposals[i] EXCEPT !.status = "VETOED"]
      /\ q = [proposals[i] EXCEPT !.vetoed = TRUE]
  OBVIOUS
<1> HIDE DEF q, y
<1> QED BY <1>2, <1>3, <1>4, <1>5, StoppedKept

(***************************************************************************)
(* queue counts the proposal.                                              *)
(***************************************************************************)
LEMMA QueueKept ==
  ASSUME AppInv, [Next]_vars, NEW i \in Ids, IndexQueue(i)
  PROVE  IndexKept'
<1> DEFINE x == index.proposals[i]
           p == proposals[i]
           eta == now + timelock.delay
           q == [p EXCEPT !.eta = eta]
           y == [x EXCEPT !.status = "QUEUED", !.executionETA = eta]
<1>1. /\ x \in EntityType /\ p \in ProposalType /\ Copies(x, p) /\ StatusTells(x, p, now)
      /\ x.quorumVotes = indexedQuorum(x)
  BY EntityTells DEF Tells
<1>2. /\ q \in ProposalType /\ Changes(i, q) /\ settings' = settings
      /\ eta \in Nat /\ eta # 0 /\ proposals'[i].eta = eta
  <2>1. /\ Queue(i) /\ Typed
    BY DEF AppInv, GovInv, IndexQueue
  <2>2. q \in ProposalType /\ Changes(i, q) /\ settings' = settings /\ eta \in Nat
    BY <2>1, QueueChanges
  <2>3. eta # 0
    BY <2>1, DelaysAreOrdered DEF Typed, TimelockType
  <2>4. proposals'[i] = q
    BY <2>1, <2>2, Replaced DEF Changes
  <2>5. q.eta = eta
    BY <1>1 DEF ProposalType
  <2> QED BY <2>2, <2>3, <2>4, <2>5
<1>3. p.eta = 0 /\ p.canceled = FALSE /\ p.vetoed = FALSE /\ p.executed = FALSE
  <2>1. p.eta = 0 /\ ~ Stopped(i)
    <3>1. State(i) = "Succeeded" /\ Typed /\ Timed
      BY DEF IndexQueue, Queue, AppInv, GovInv
    <3> QED BY <3>1, StateOf
  <2>2. ~ p.executed
    BY <2>1 DEF AppInv, GovInv, QueuedPassed
  <2>3. p.canceled \in BOOLEAN /\ p.vetoed \in BOOLEAN /\ p.executed \in BOOLEAN
    BY <1>1 DEF ProposalType
  <2> QED BY <2>1, <2>2, <2>3 DEF Stopped
<1>4. EntityChanged(index, index', i, y, index.proposalsQueued + 1)
  <2>1. index' = handleProposalQueued(index, i, eta)
    BY <1>2 DEF IndexQueue
  <2> QED BY <1>2, <2>1, EntityTells, QueuedIndexed DEF AppInv
<1> HIDE DEF eta
<1>5. /\ q.executed = FALSE /\ q.canceled = FALSE /\ q.vetoed = FALSE /\ q.eta = eta
      /\ q.proposer = p.proposer /\ q.totalSupply = p.totalSupply
      /\ q.creationBlock = p.creationBlock /\ q.startBlock = p.startBlock
      /\ q.endBlock = p.endBlock /\ q.tally = p.tally
  BY <1>1, <1>3 DEF ProposalType
<1>6. /\ y.status = "QUEUED" /\ y.proposer = x.proposer /\ y.totalSupply = x.totalSupply
      /\ y.createdBlock = x.createdBlock /\ y.startBlock = x.startBlock
      /\ y.endBlock = x.endBlock /\ y.tally = x.tally /\ y.executionETA = eta
      /\ y.params = x.params /\ y.quorumVotes = x.quorumVotes
  BY <1>1 DEF EntityType
<1> HIDE DEF x, p, q, y
<1>7. Copies(y, q) /\ StatusTells(y, q, now)
  BY <1>1, <1>2, <1>5, <1>6 DEF Copies, StatusTells
<1>8. Tells(y, q, now)
  BY <1>1, <1>6, <1>7 DEF Tells, indexedQuorum
<1>9. index.proposalsQueued + 1 = Cardinality(Held')
  <2>1. i \notin Held
    BY <1>3 DEF Held, p
  <2>2. IsFiniteSet(Held) /\ Held' = Held \cup {i}
    BY <1>2, <1>5, HeldChanges
  <2>3. Cardinality(Held \cup {i}) = Cardinality(Held) + 1
    BY <2>1, <2>2, FS_AddElement
  <2> QED BY <2>2, <2>3 DEF AppInv, HeldCounted
<1>10. Followed(settings', index)
  BY <1>2, FollowedNow
<1>11. y.params = index.proposals[i].params
  BY <1>6 DEF x
<1> QED BY <1>2, <1>4, <1>8, <1>9, <1>10, <1>11, OneKept

(***************************************************************************)
(* execute discounts it, after the events of its calls.                    *)
(***************************************************************************)
LEMMA ExecuteKept ==
  ASSUME AppInv, [Next]_vars, NEW i \in Ids, IndexExecute(i)
  PROVE  IndexKept'
<1> DEFINE x == index.proposals[i]
           p == proposals[i]
           e == AfterParameterEvents(index, p.payload)
           q == [p EXCEPT !.executed = TRUE]
           y == [x EXCEPT !.status = "EXECUTED", !.executionETA = 0]
<1>1. /\ x \in EntityType /\ p \in ProposalType /\ Copies(x, p) /\ StatusTells(x, p, now)
      /\ x.quorumVotes = indexedQuorum(x)
  BY EntityTells DEF Tells
<1>2. q \in ProposalType /\ Changes(i, q)
  BY ExecuteChanges DEF AppInv, GovInv, IndexExecute
<1>3. p.eta # 0 /\ p.canceled = FALSE /\ p.vetoed = FALSE /\ p.executed = FALSE
  <2>1. p.eta # 0 /\ ~ Stopped(i) /\ ~ p.executed
    <3>1. State(i) = "Queued" /\ Typed /\ Timed
      BY DEF IndexExecute, Execute, AppInv, GovInv
    <3> QED BY <3>1, StateOf
  <2>2. p.canceled \in BOOLEAN /\ p.vetoed \in BOOLEAN /\ p.executed \in BOOLEAN
    BY <1>1 DEF ProposalType
  <2> QED BY <2>1, <2>2 DEF Stopped
<1>4. e \in IndexType /\ Followed(settings', e)
  <2>1. /\ p.payload \in Payloads /\ ~ AfterCalls(p.payload).reverted
        /\ settings' = AfterCalls(p.payload).settings /\ Typed /\ index \in IndexType
    BY <1>1 DEF IndexExecute, Execute, AppInv, GovInv, ProposalType
  <2> HIDE DEF p
  <2> QED BY <2>1, FollowedNow, CallsFollowed
<1>5. e.proposals = index.proposals /\ e.proposalsQueued = index.proposalsQueued
  BY <1>4 DEF Followed
<1>6. EntityChanged(e, index', i, y, e.proposalsQueued - 1)
  <2>1. index' = handleProposalExecuted(e, i)
    BY DEF IndexExecute
  <2>2. i \in 1 .. Len(e.proposals) /\ e.proposals[i] = x
    BY <1>5, EntityTells
  <2> HIDE DEF e, x
  <2> QED BY <1>4, <2>1, <2>2, ExecutedIndexed
<1>7. /\ q.executed = TRUE /\ q.canceled = FALSE /\ q.vetoed = FALSE /\ q.eta = p.eta
      /\ q.proposer = p.proposer /\ q.totalSupply = p.totalSupply
      /\ q.creationBlock = p.creationBlock /\ q.startBlock = p.startBlock
      /\ q.endBlock = p.endBlock /\ q.tally = p.tally
  BY <1>1, <1>3 DEF ProposalType
<1>8. /\ y.status = "EXECUTED" /\ y.proposer = x.proposer /\ y.totalSupply = x.totalSupply
      /\ y.createdBlock = x.createdBlock /\ y.startBlock = x.startBlock
      /\ y.endBlock = x.endBlock /\ y.tally = x.tally /\ y.executionETA = 0
      /\ y.params = x.params /\ y.quorumVotes = x.quorumVotes
  BY <1>1 DEF EntityType
<1> HIDE DEF x, p, q, y, e
<1>9. Copies(y, q) /\ StatusTells(y, q, now)
  BY <1>1, <1>7, <1>8 DEF Copies, StatusTells
<1>10. Tells(y, q, now)
  BY <1>1, <1>8, <1>9 DEF Tells, indexedQuorum
<1>11. e.proposalsQueued - 1 = Cardinality(Held')
  <2>1. i \in Held
    BY <1>3 DEF Held, p
  <2>2. IsFiniteSet(Held) /\ Held' = Held \ {i}
    BY <1>2, <1>7, HeldChanges
  <2>3. Cardinality(Held \ {i}) = Cardinality(Held) - 1
    BY <2>1, <2>2, FS_RemoveElement
  <2> QED BY <1>5, <2>2, <2>3 DEF AppInv, HeldCounted
<1>12. y.params = index.proposals[i].params
  BY <1>8 DEF x
<1> QED BY <1>2, <1>4, <1>6, <1>10, <1>11, <1>12, OneKept

(***************************************************************************)
(* A vote wakes the entity and refreshes its quorum.                       *)
(***************************************************************************)
LEMMA VoteKept ==
  ASSUME AppInv, [Next]_vars, NEW c \in Intentions, NEW i \in Ids, IndexCastVote(c[1], i, c[2])
  PROVE  IndexKept'
<1> DEFINE x == index.proposals[i]
           p == proposals[i]
           w == VoteWeight(p, c[1])
           t == [p.tally EXCEPT ![c[2]] = @ + w]
           r == [p.receipts EXCEPT ![c[1]] = c[2]]
           q == [p EXCEPT !.tally = t, !.receipts = r]
           ballots == x.votes \cup {[voter |-> c[1], votes |-> w, support |-> c[2]]}
           quorum  == dynamicQuorumVotes(t[0], x.totalSupply, x.params)
           y == [x EXCEPT !.tally = t, !.votes = ballots, !.quorumVotes = quorum,
                          !.status = "ACTIVE"]
<1>1. /\ x \in EntityType /\ p \in ProposalType /\ Copies(x, p) /\ StatusTells(x, p, now)
      /\ x.quorumVotes = indexedQuorum(x) /\ i \in 1 .. Len(index.proposals)
  BY EntityTells DEF Tells
<1>2. /\ c[1] \in Accounts /\ w \in Nat /\ q \in ProposalType /\ Changes(i, q)
      /\ settings' = settings
  BY CastVoteChanges DEF AppInv, GovInv, IndexCastVote
<1>3. c[2] \in 0 .. 2
  BY ActorsAreAccounts
<1>4. /\ p.eta = 0 /\ p.executed = FALSE /\ p.canceled = FALSE /\ p.vetoed = FALSE
      /\ now > p.startBlock
  <2>1. State(i) = "Active" /\ Typed /\ Timed
    BY DEF IndexCastVote, CastVote, AppInv, GovInv
  <2>2. ~ Stopped(i) /\ now > p.startBlock /\ now <= p.endBlock
    BY <2>1, StateOf
  <2>3. p.eta = 0 /\ ~ p.executed
    <3>1. now \in Nat /\ p.endBlock \in Nat
      BY <1>1, <2>1 DEF Typed, ProposalType
    <3>2. /\ p.executed => p.eta # 0
          /\ p.eta # 0 => now > p.endBlock
      BY DEF AppInv, GovInv, QueuedPassed
    <3> QED BY <2>2, <3>1, <3>2
  <2>4. p.canceled \in BOOLEAN /\ p.vetoed \in BOOLEAN /\ p.executed \in BOOLEAN
    BY <1>1 DEF ProposalType
  <2> QED BY <2>2, <2>3, <2>4 DEF Stopped
<1>5. x.status \in {"PENDING", "ACTIVE"}
  BY <1>1, <1>4 DEF StatusTells, EntityType, Statuses
<1>6. t = [x.tally EXCEPT ![c[2]] = @ + w] /\ x.createdBlock > 0
  BY <1>1 DEF Copies
<1> HIDE DEF w, t
<1>7. EntityChanged(index, index', i, y, index.proposalsQueued)
  <2>1. index' = handleVoteCast(index, i, c[1], c[2], w)
    BY DEF IndexCastVote, w
  <2>2. "ACTIVE" = IF x.status = "PENDING" THEN "ACTIVE" ELSE x.status
    BY <1>5
  <2>3. index \in IndexType
    BY DEF AppInv
  <2>4. c[1] \in Accounts /\ c[2] \in 0 .. 2 /\ w \in Nat /\ x.createdBlock > 0
        /\ i \in 1 .. Len(index.proposals)
    BY <1>1, <1>2, <1>3, <1>6
  <2>5. EntityChanged(index, handleVoteCast(index, i, c[1], c[2], w), i, y,
                      index.proposalsQueued)
    BY <1>6, <2>2, <2>3, <2>4, VoteIndexed
  <2> QED BY <2>1, <2>5
<1>8. /\ q.executed = FALSE /\ q.canceled = FALSE /\ q.vetoed = FALSE /\ q.eta = 0
      /\ q.proposer = p.proposer /\ q.totalSupply = p.totalSupply
      /\ q.creationBlock = p.creationBlock /\ q.startBlock = p.startBlock
      /\ q.endBlock = p.endBlock /\ q.tally = t
  <2> HIDE DEF r
  <2> QED BY <1>1, <1>4 DEF ProposalType
<1>9. /\ y.status = "ACTIVE" /\ y.proposer = x.proposer /\ y.totalSupply = x.totalSupply
      /\ y.createdBlock = x.createdBlock /\ y.startBlock = x.startBlock
      /\ y.endBlock = x.endBlock /\ y.tally = t /\ y.executionETA = x.executionETA
      /\ y.params = x.params /\ y.quorumVotes = quorum
  <2> HIDE DEF ballots, quorum
  <2> QED BY <1>1 DEF EntityType
<1> HIDE DEF x, p, q, y
<1>10. Copies(y, q) /\ StatusTells(y, q, now)
  BY <1>1, <1>4, <1>8, <1>9 DEF Copies, StatusTells
<1>11. y.quorumVotes = indexedQuorum(y)
  BY <1>9 DEF indexedQuorum
<1>12. Tells(y, q, now)
  BY <1>10, <1>11 DEF Tells
<1>13. index.proposalsQueued = Cardinality(Held')
  <2>1. i \notin Held
    BY <1>4 DEF Held, p
  <2>2. Held' = Held \ {i}
    BY <1>2, <1>8, HeldChanges
  <2>3. Held' = Held
    BY <2>1, <2>2
  <2> QED BY <2>3 DEF AppInv, HeldCounted
<1>14. Followed(settings', index)
  BY <1>2, FollowedNow
<1>15. y.params = index.proposals[i].params
  BY <1>9 DEF x
<1> QED BY <1>2, <1>7, <1>12, <1>13, <1>14, <1>15, OneKept

(***************************************************************************)
(* A transaction that concerns no proposal: its events are those of the    *)
(* settings.                                                               *)
(***************************************************************************)
LEMMA ElsewhereKept ==
  ASSUME AppInv, [Next]_vars, proposals' = proposals, now' = now, index' \in IndexType,
         Followed(settings', index')
  PROVE  IndexKept'
<1>1. index'.proposals = index.proposals /\ index'.proposalsQueued = index.proposalsQueued
  BY DEF Followed
<1>2. Ids' = Ids /\ Held' = Held
  BY DEF Ids, Held
<1>3. EntitiesTell'
  BY <1>1, <1>2 DEF AppInv, EntitiesTell
<1>4. HeldCounted'
  BY <1>1, <1>2 DEF AppInv, HeldCounted
<1>5. ParamsFollow'
  BY <1>1, <1>2, ParamsKept DEF ParamsFollow
<1> QED BY <1>3, <1>4, <1>5 DEF IndexKept

\* the admin's calls
LEMMA AdminCallKept ==
  ASSUME AppInv, [Next]_vars, NEW a, NEW tx \in Transactions, IndexAdminCall(a, tx)
  PROVE  IndexKept'
<1>1. /\ proposals' = proposals /\ now' = now /\ settings' = AfterAdminCall(settings, tx)
      /\ index' = AfterEvents(index, tx) /\ AdminAccepts(settings, tx)
  BY DEF IndexAdminCall, AdminCall, governorVars
<1>2. Typed /\ settings \in NextSettings /\ index \in IndexType /\ Followed(settings, index)
  BY FollowedNow, SettingsStay DEF AppInv, GovInv
<1>3. index' \in IndexType /\ Followed(settings', index')
  BY <1>1, <1>2, EventsChange, AdminCallFollowed
<1> QED BY <1>1, <1>3, ElsewhereKept

\* what the subgraph has no handler for, but the blocks
LEMMA UnindexedKept ==
  ASSUME AppInv, [Next]_vars, index' = index,
         UNCHANGED vars \/ (Unindexed /\ ~ Mine)
  PROVE  IndexKept'
<1>1. /\ proposals' = proposals /\ now' = now
      /\ settings' = settings \/ settings' = [settings EXCEPT !.admin = settings'.admin,
                                                              !.pendingAdmin = Nobody]
  <2>1. CASE UNCHANGED vars
    BY <2>1 DEF vars, governorVars
  <2>2. ASSUME NEW a \in Accounts, AcceptAdmin(a)
        PROVE  settings' = [settings EXCEPT !.admin = settings'.admin, !.pendingAdmin = Nobody]
    <3>1. /\ settings \in SettingsType
          /\ settings' = [settings EXCEPT !.admin = a, !.pendingAdmin = Nobody]
      BY <2>2 DEF AcceptAdmin, AppInv, GovInv, Typed
    <3>2. settings'.admin = a
      BY <3>1 DEF SettingsType
    <3> QED BY <3>1, <3>2
  <2>3. CASE Unindexed /\ ~ Mine
    BY <2>2, <2>3 DEF Unindexed, SetPendingVetoer, AcceptVetoer, BurnVetoPower, AcceptTimelock,
         MoveVotes, MintVote, AcceptAdmin, governorVars
  <2> QED BY <2>1, <2>3
<1>2. settings'.quorumParams = settings.quorumParams
  <2>1. settings \in SettingsType
    BY DEF AppInv, GovInv, Typed
  <2> QED BY <1>1, <2>1 DEF SettingsType
<1>3. Followed(settings', index')
  <2>1. CurrentParams(settings') = CurrentParams(settings)
    BY <1>2 DEF CurrentParams
  <2> QED BY <1>2, <2>1, FollowedNow DEF Followed
<1> QED BY <1>1, <1>3, ElsewhereKept DEF AppInv

(***************************************************************************)
(* A block passes.                                                         *)
(***************************************************************************)
LEMMA MineKept ==
  ASSUME AppInv, [Next]_vars, Mine, index' = index
  PROVE  IndexKept'
<1>1. Typed /\ Typed' /\ proposals' = proposals /\ settings' = settings /\ now' = now + 1
      /\ now \in Nat
  BY MineKeepsPast, TypedStep DEF AppInv, GovInv, Typed
<1>2. Ids' = Ids /\ Held' = Held
  BY <1>1 DEF Ids, Held
<1>3. ASSUME NEW i \in Ids PROVE Tells(index.proposals[i], proposals[i], now + 1)
  <2>1. Tells(index.proposals[i], proposals[i], now) /\ proposals[i].startBlock \in Nat
    BY EntityTells DEF ProposalType
  <2>2. now > proposals[i].startBlock => now + 1 > proposals[i].startBlock
    BY <1>1, <2>1
  <2> QED BY <2>1, <2>2 DEF Tells, StatusTells
<1>4. EntitiesTell'
  BY <1>1, <1>2, <1>3 DEF AppInv, EntitiesTell
<1>5. CurrentParams(settings)' = CurrentParams(settings)
  <2>1. /\ CheckpointList(settings.quorumParams, ParamsType)
        /\ Ascending(settings.quorumParams, now) /\ Ascending(settings.quorumParams, now + 1)
    BY <1>1 DEF Typed, SettingsType, CheckpointList
  <2>2. now + 1 \in Nat
    BY <1>1
  <2> QED BY <1>1, <2>1, <2>2, CurrentIsLatest DEF CurrentParams
<1>6. ParamsFollow'
  BY <1>1, <1>2, <1>5 DEF AppInv, ParamsFollow
<1>7. HeldCounted'
  BY <1>2 DEF AppInv, HeldCounted
<1> QED BY <1>4, <1>6, <1>7 DEF IndexKept, AppInv

(***************************************************************************)
(* A proposal is made, and its entity created: pending, with the quorum of *)
(* the present parameters.                                                 *)
(***************************************************************************)
LEMMA ProposeKept ==
  ASSUME AppInv, [Next]_vars, NEW a \in Accounts, NEW payload \in Payloads,
         IndexPropose(a, payload)
  PROVE  IndexKept'
<1> DEFINE new == Len(proposals) + 1
           q == proposals'[new]
           min == bps2Uint(CurrentParams(settings).min, supply)
           y == [status |-> "PENDING", proposer |-> a, createdBlock |-> now,
                 startBlock |-> q.startBlock, endBlock |-> q.endBlock, executionETA |-> 0,
                 quorumVotes |-> min, tally |-> NoBallots, votes |-> {},
                 totalSupply |-> supply, params |-> index.params]
           s == Append(index.proposals, y)
<1>1. /\ Typed /\ index \in IndexType /\ Propose(a, payload)
      /\ Len(index.proposals) = Len(proposals) /\ Len(proposals) \in Nat
      /\ now \in Nat \ {0} /\ supply \in Nat
  BY DEF AppInv, GovInv, EntitiesTell, IndexPropose, Typed
<1>2. /\ proposals' \in Seq(ProposalType) /\ Len(proposals') = new /\ q \in ProposalType
      /\ Ids' = Ids \cup {new} /\ new \notin Ids
      /\ \A k \in Ids : proposals'[k] = proposals[k]
      /\ q.proposer = a /\ q.creationBlock = now
      /\ q.startBlock > now /\ q.endBlock > q.startBlock
      /\ q.tally = [o \in {Against, For, Abstain} |-> 0]
      /\ q.eta = 0 /\ ~q.canceled /\ ~q.vetoed /\ ~q.executed
      /\ UNCHANGED <<settings, votes, supply, pastVotes, now>>
  <2>1. new \in 1 .. new
    BY <1>1
  <2> QED BY <1>1, <2>1, ProposeAppends
<1>3. q.totalSupply = supply
  BY <1>1 DEF Propose, Typed
<1>4. supply # 0
  <2>1. bps2Uint(settings.proposalThresholdBPS, supply) \in Nat
    <3>1. settings.proposalThresholdBPS \in Nat
      BY <1>1 DEF Typed, SettingsType
    <3> QED BY <1>1, <3>1 DEF bps2Uint
  <2>2. pastVotes[now - 1][a] > bps2Uint(settings.proposalThresholdBPS, supply)
    BY <1>1 DEF Propose, getPriorVotes
  <2>3. now - 1 \in 0 .. now - 1 /\ pastVotes[now - 1][a] \in Nat
    BY <1>1 DEF Typed
  <2>4. pastVotes[now - 1][a] # 0
    BY <2>1, <2>2, <2>3
  <2> QED BY <2>3, <2>4 DEF AppInv, SuppliedVotes
<1>5. index.params = CurrentParams(settings) /\ index.params.min <= index.params.max
      /\ index.params \in ParamsType
  BY <1>1 DEF AppInv, ParamsFollow, IndexType
<1>6. min = dynamicQuorumVotes(0, supply, index.params) /\ min \in Nat
  <2>1. supply \in Nat \ {0}
    BY <1>1, <1>4
  <2> QED BY <1>5, <2>1, QuorumWithoutAgainst, QuorumTyped
<1>7. index' = [index EXCEPT !.proposals = s]
  <2>1. Last(proposals') = q
    BY <1>2 DEF Last
  <2>2. ~ (now >= q.startBlock)
    BY <1>1, <1>2 DEF ProposalType
  <2>3. index' = handleProposalCreatedWithRequirements(index, now,
                   [proposer |-> a, startBlock |-> q.startBlock, endBlock |-> q.endBlock,
                    minQuorumVotes |-> min], supply)
    BY <2>1 DEF IndexPropose
  <2> HIDE DEF q, min
  <2> QED BY <2>2, <2>3 DEF handleProposalCreatedWithRequirements, NullEta, NoBallots
<1>8. y \in EntityType
  <2>1. q.startBlock \in Nat /\ q.endBlock \in Nat
    BY <1>2 DEF ProposalType
  <2>2. NoBallots \in [0 .. 2 -> Nat]
    BY DEF NoBallots
  <2> HIDE DEF q, min
  <2> QED BY <1>1, <1>4, <1>5, <1>6, <2>1, <2>2 DEF EntityType, Statuses
<1>9. Tells(y, q, now)
  <2>1. q.tally = NoBallots /\ NoBallots[0] = 0
    BY <1>2 DEF Against, For, Abstain, NoBallots
  <2>2. Copies(y, q)
    <3>1. now > 0
      BY <1>1
    <3>2. q.executed = FALSE
      BY <1>2 DEF ProposalType
    <3> HIDE DEF q, min
    <3> QED BY <1>2, <1>3, <2>1, <3>1, <3>2 DEF Copies
  <2>3. StatusTells(y, q, now)
    <3> HIDE DEF q, min
    <3> QED BY <1>2 DEF StatusTells
  <2>4. y.quorumVotes = indexedQuorum(y)
    <3> HIDE DEF min, q
    <3> QED BY <1>6, <2>1 DEF indexedQuorum
  <2> QED BY <2>2, <2>3, <2>4 DEF Tells
<1>10. y.params = index.params
  OBVIOUS
<1> HIDE DEF y, q
<1>11. /\ s \in Seq(EntityType) /\ Len(s) = new /\ s[new] = y
       /\ \A k \in Ids : s[k] = index.proposals[k]
  <2>1. index.proposals \in Seq(EntityType)
    BY <1>1 DEF IndexType
  <2> HIDE DEF EntityType
  <2> QED BY <1>1, <1>8, <2>1 DEF Ids
<1> HIDE DEF s
<1>12. /\ index' \in IndexType /\ index'.proposals = s /\ index'.params = index.params
       /\ index'.proposalsQueued = index.proposalsQueued
  BY <1>1, <1>7, <1>11 DEF IndexType
<1>13. EntitiesTell'
  <2>1. ASSUME NEW k \in Ids' PROVE Tells(s[k], proposals'[k], now)
    <3>1. CASE k = new
      BY <1>9, <1>11, <3>1 DEF q
    <3>2. CASE k \in Ids
      BY <1>2, <1>11, <3>2 DEF AppInv, EntitiesTell
    <3> QED BY <1>2, <3>1, <3>2
  <2> QED BY <1>2, <1>11, <1>12, <2>1 DEF EntitiesTell
<1>14. ParamsFollow'
  <2>1. Followed(settings', index)
    BY <1>2, FollowedNow
  <2>2. /\ index'.params = CurrentParams(settings)' /\ index'.params.min <= index'.params.max
        /\ \A k \in Ids : ParamsTell(index'.proposals[k], proposals'[k], settings')
    BY <1>2, <1>11, <1>12, <2>1, ParamsKept
  <2>3. ParamsTell(s[new], proposals'[new], settings')
    <3>1. s[new].params = ParamsAt(settings', q.creationBlock)
      BY <1>2, <1>5, <1>10, <1>11 DEF CurrentParams, ParamsAt
    <3> QED BY <3>1 DEF ParamsTell, q
  <2> QED BY <1>2, <1>12, <2>2, <2>3 DEF ParamsFollow
<1>15. HeldCounted'
  <2>1. Held' = Held
    BY <1>2 DEF Held, q
  <2> QED BY <1>12, <2>1 DEF AppInv, HeldCounted
<1> QED BY <1>12, <1>13, <1>14, <1>15 DEF IndexKept

(***************************************************************************)
(* Votes are of nouns: they only move to and fro once there are any.       *)
(***************************************************************************)
LEMMA SuppliedVotesStep ==
  ASSUME Typed, SuppliedVotes, [Next]_vars
  PROVE  SuppliedVotes'
<1> USE DEF governorVars, vetoVars, tokenVars, executorVars
<1>1. CASE UNCHANGED <<votes, supply, pastVotes, now>>
  BY <1>1 DEF SuppliedVotes
<1>2. ASSUME NEW m \in Moves, m[1] # Nobody, MoveVotes(m[1], m[2]) PROVE SuppliedVotes'
  <2>1. m[1] \in Accounts
    BY <1>2, ActorsAreAccounts
  <2>2. supply' = supply /\ supply # 0
    BY <1>2, <2>1 DEF MoveVotes, SuppliedVotes
  <2> QED BY <2>2 DEF SuppliedVotes
<1>3. ASSUME NEW m \in Moves, MintVote(m[2]) PROVE SuppliedVotes'
  <2>1. supply' # 0
    BY <1>3 DEF MintVote, Typed
  <2> QED BY <2>1 DEF SuppliedVotes
<1>4. CASE Mine
  <2>1. /\ now' = now + 1 /\ now \in Nat /\ pastVotes'[now] = votes
        /\ \A b \in 0 .. now - 1 : pastVotes'[b] = pastVotes[b]
        /\ supply' = supply /\ votes' = votes
    BY <1>4, MineKeepsPast
  <2>2. \A b \in 0 .. now' - 1 : b = now \/ b \in 0 .. now - 1
    BY <2>1
  <2> QED BY <2>1, <2>2 DEF SuppliedVotes
<1>5. UNCHANGED vars => UNCHANGED <<votes, supply, pastVotes, now>>
  BY DEF vars
<1>6. Next => \/ UNCHANGED <<votes, supply, pastVotes, now>>
              \/ \E m \in Moves : m[1] # Nobody /\ MoveVotes(m[1], m[2])
              \/ \E m \in Moves : MintVote(m[2])
              \/ Mine
  BY DEF Next, Propose, CastVote, Queue, Execute, Cancel, Veto, SetPendingVetoer, AcceptVetoer,
     BurnVetoPower, AcceptAdmin, AdminCall, AcceptTimelock
<1> QED BY <1>1, <1>2, <1>3, <1>4, <1>5, <1>6

-------------------------------------------------------------------------------

(***************************************************************************)
(* The invariant holds before the first block.                             *)
(***************************************************************************)
LEMMA AppInitially == AppInit => AppInv
<1> SUFFICES ASSUME AppInit PROVE AppInv
  OBVIOUS
<1> DEFINE first == InitialSettings.quorumParams[1]
<1>1. Init /\ index = [EmptyDAOIndex EXCEPT !.params = first.value,
                                            !.dynamicQuorumStartBlock = first.fromBlock]
  BY DEF AppInit
<1>2. GovInv
  BY <1>1, Initially
<1>3. /\ CheckpointList(settings.quorumParams, ParamsType) /\ settings.quorumParams # <<>>
      /\ Ascending(settings.quorumParams, 0) /\ settings = InitialSettings
      /\ Ascending(settings.quorumParams, now) /\ now \in Nat
  BY <1>1, <1>2, InitializedWithinBounds, StartsWithinBounds
     DEF Init, GovInv, Typed, SettingsType, CheckpointList
<1>4. Len(settings.quorumParams) = 1 /\ first.fromBlock = 0 /\ first \in CheckpointOf(ParamsType)
  <2> DEFINE cps == settings.quorumParams
  <2>1. /\ Len(cps) \in Nat /\ Len(cps) # 0
        /\ \A k \in 1 .. Len(cps) : cps[k] \in CheckpointOf(ParamsType)
    BY <1>3 DEF CheckpointList
  <2>2. \A k \in 1 .. Len(cps) : cps[k].fromBlock \in Nat
    BY <1>3, ListedBlocks
  <2> HIDE DEF cps
  <2>3. \A k \in 1 .. Len(cps) : cps[k].fromBlock = 0
    BY <1>3, <2>2 DEF Ascending, cps
  <2>4. ~ (Len(cps) > 1)
    BY <1>3, <2>1, <2>3 DEF Ascending, cps
  <2>5. 1 \in 1 .. Len(cps) /\ first = cps[1]
    BY <1>3, <2>1 DEF cps
  <2>6. Len(cps) = 1
    <3>1. Len(cps) \in Nat /\ Len(cps) # 0
      BY <2>1
    <3>2. \A n \in Nat : n # 0 /\ ~ (n > 1) => n = 1
      OBVIOUS
    <3> QED BY <2>4, <3>1, <3>2
  <2> HIDE DEF first
  <2>7. first.fromBlock = 0 /\ first \in CheckpointOf(ParamsType)
    BY <2>1, <2>3, <2>5
  <2> QED BY <2>6, <2>7 DEF cps
<1>5. first.value \in ParamsType /\ first.value.min <= first.value.max
  BY <1>4, InitializedWithinBounds DEF ParamsInBounds, CheckpointOf
<1>6. CurrentParams(settings) = first.value
  <2>1. CurrentParams(settings)
          = Latest(settings.quorumParams, [min |-> quorumVotesBPS, max |-> quorumVotesBPS,
                                           coefficient |-> 0])
    BY <1>3, CurrentIsLatest DEF CurrentParams
  <2> QED BY <1>3, <1>4, <2>1 DEF Latest
<1> HIDE DEF first
<1>7. /\ index \in IndexType /\ index.params = first.value /\ index.proposals = <<>>
      /\ index.proposalsQueued = 0
  <2>1. <<>> \in Seq(EntityType)
    <3> HIDE DEF EntityType
    <3> QED OBVIOUS
  <2>2. index = [proposals |-> <<>>, proposalsQueued |-> 0, params |-> first.value,
                 dynamicQuorumStartBlock |-> 0]
    BY <1>1, <1>4 DEF EmptyDAOIndex
  <2> QED BY <1>5, <2>1, <2>2 DEF IndexType
<1>8. Ids = {} /\ Held = {} /\ Len(proposals) = 0
  BY <1>1 DEF Init, Ids, Held
<1>9. SuppliedVotes
  BY <1>1, InitializedWithinBounds DEF Init, SuppliedVotes
<1>10. EntitiesTell /\ ParamsFollow
  BY <1>5, <1>6, <1>7, <1>8 DEF EntitiesTell, ParamsFollow
<1>11. HeldCounted
  BY <1>7, <1>8, FS_EmptySet DEF HeldCounted
<1> QED BY <1>2, <1>7, <1>9, <1>10, <1>11 DEF AppInv

(***************************************************************************)
(* Every step keeps it.                                                    *)
(***************************************************************************)
LEMMA AppInductive == AppInv /\ [AppNext]_appVars => AppInv'
<1> SUFFICES ASSUME AppInv, [AppNext]_appVars PROVE AppInv'
  OBVIOUS
<1>1. [Next]_vars /\ Typed /\ SuppliedVotes
  BY AppSteps DEF AppInv, GovInv
<1>2. GovInv' /\ SuppliedVotes'
  BY <1>1, Inductive, SuppliedVotesStep DEF AppInv
<1>3. IndexKept'
  <2>1. CASE UNCHANGED appVars
    <3>1. UNCHANGED vars /\ index' = index
      BY <2>1 DEF appVars
    <3>2. UNCHANGED vars \/ (Unindexed /\ ~ Mine)
      BY <3>1
    <3>3. [Next]_vars
      BY <1>1
    <3> QED BY <3>1, <3>2, <3>3, UnindexedKept
  <2>2. ASSUME NEW a \in Accounts, NEW payload \in Payloads, IndexPropose(a, payload)
        PROVE  IndexKept'
    BY <1>1, <2>2, ProposeKept
  <2>3. ASSUME NEW i \in Ids, NEW c \in Intentions, IndexCastVote(c[1], i, c[2])
        PROVE  IndexKept'
    BY <1>1, <2>3, VoteKept
  <2>4. ASSUME NEW i \in Ids, IndexQueue(i) PROVE IndexKept'
    BY <1>1, <2>4, QueueKept
  <2>5. ASSUME NEW i \in Ids, IndexExecute(i) PROVE IndexKept'
    BY <1>1, <2>5, ExecuteKept
  <2>6. ASSUME NEW i \in Ids, NEW a \in Accounts, IndexCancel(a, i) PROVE IndexKept'
    BY <1>1, <2>6, CancelKept
  <2>7. ASSUME NEW i \in Ids, NEW a \in Accounts, IndexVeto(a, i) PROVE IndexKept'
    BY <1>1, <2>7, VetoKept
  <2>8. ASSUME NEW a \in Accounts, NEW tx \in Transactions, IndexAdminCall(a, tx)
        PROVE  IndexKept'
    BY <1>1, <2>8, AdminCallKept
  <2>9. CASE Unindexed /\ UNCHANGED index
    BY <1>1, <2>9, UnindexedKept, MineKept
  <2> QED BY <2>1, <2>2, <2>3, <2>4, <2>5, <2>6, <2>7, <2>8, <2>9 DEF AppNext
<1> QED BY <1>2, <1>3 DEF AppInv, IndexKept

(***************************************************************************)
(* The application keeps the invariant.                                    *)
(***************************************************************************)
LEMMA AppInvariantHolds == AppSpec => []AppInv
BY AppInitially, AppInductive, PTL DEF AppSpec

-------------------------------------------------------------------------------

(***************************************************************************)
(* The application is the governor with an index beside it: what is proved *)
(* of the governor holds of it.                                            *)
(***************************************************************************)
THEOREM AppIsGovernor == AppSpec => Spec
<1>1. AppInit => Init
  BY DEF AppInit
<1> QED BY <1>1, AppSteps, PTL DEF AppSpec, Spec

(***************************************************************************)
(* What the governor has queued is in Held, which is what the subgraph     *)
(* counts.                                                                 *)
(***************************************************************************)
THEOREM QueuedAreCounted == AppSpec => []CountsEveryQueued
<1>1. AppInv => CountsEveryQueued
  <2> SUFFICES ASSUME AppInv PROVE CountsEveryQueued
    OBVIOUS
  <2> DEFINE Q == {i \in Ids : State(i) = "Queued"}
  <2>1. ASSUME NEW i \in Ids, State(i) = "Queued" PROVE i \in Held
    <3>1. proposals[i].eta # 0 /\ ~ proposals[i].executed
      BY <2>1 DEF State
    <3> QED BY <3>1 DEF Held
  <2>2. Q \subseteq Held
    BY <2>1
  <2>3. IsFiniteSet(Held)
    <3>1. Len(proposals) \in Nat
      BY DEF AppInv, GovInv, Typed
    <3>2. IsFiniteSet(Ids)
      BY <3>1, FS_Interval DEF Ids
    <3>3. Held \subseteq Ids
      BY DEF Held
    <3> QED BY <3>2, <3>3, FS_Subset
  <2> HIDE DEF Q
  <2>4. /\ Cardinality(Q) \in Nat /\ Cardinality(Held) \in Nat
        /\ Cardinality(Q) <= Cardinality(Held)
    BY <2>2, <2>3, FS_Subset, FS_CardinalityType
  <2>5. index.proposalsQueued = Cardinality(Held)
    BY DEF AppInv, HeldCounted
  <2>6. index.proposalsQueued >= Cardinality(Q)
    BY <2>4, <2>5
  <2> QED BY <2>6 DEF CountsEveryQueued, Q
<1> QED BY <1>1, AppInvariantHolds, PTL

(***************************************************************************)
(* The quorum stored with a proposal is the governor's, unless parameters  *)
(* were set in its block.                                                  *)
(***************************************************************************)
LEMMA QuorumTells ==
  ASSUME AppInv, NEW i \in Ids
  PROVE  index.proposals[i].quorumVotes = quorumVotes(proposals[i]) \/ ParamsSetBeside(i)
<1> DEFINE x == index.proposals[i]
           p == proposals[i]
<1>1. /\ Copies(x, p) /\ x.quorumVotes = indexedQuorum(x) /\ ParamsTell(x, p, settings)
  BY EntityTells DEF Tells
<1>2. CASE x.params = ParamsAt(settings, p.creationBlock)
  <2>1. x.tally[0] = p.tally[Against] /\ x.totalSupply = p.totalSupply
    BY <1>1 DEF Copies, Against
  <2> QED BY <1>1, <1>2, <2>1 DEF indexedQuorum, quorumVotes, ParamsAt
<1>3. CASE HasBlock(settings.quorumParams, p.creationBlock)
  BY <1>3 DEF HasBlock, ParamsSetBeside
<1> QED BY <1>1, <1>2, <1>3 DEF ParamsTell

(***************************************************************************)
(* The quorum of every entity, refreshed by ballots alone, is the one the  *)
(* governor looks up on every call, whatever the settings become.          *)
(***************************************************************************)
THEOREM QuorumIsIndexed == AppSpec => []IndexedQuorumIsGovernors
<1>1. AppInv => IndexedQuorumIsGovernors
  BY QuorumTells DEF IndexedQuorumIsGovernors
<1> QED BY <1>1, AppInvariantHolds, PTL

(***************************************************************************)
(* The state displayed and the state of the governor.                      *)
(***************************************************************************)
LEMMA StateTold ==
  ASSUME AppInv, NEW i \in Ids
  PROVE  \/ Displayed(i) = State(i)
         \/ index.proposals[i].votes = {} /\ State(i) = "Defeated" /\ Displayed(i) = "Active"
         \/ proposals[i].canceled /\ State(i) = "Vetoed" /\ Displayed(i) = "Canceled"
         \/ ParamsSetBeside(i) /\ {State(i), Displayed(i)} = {"Defeated", "Succeeded"}
<1> DEFINE x == index.proposals[i]
           p == proposals[i]
           passed == Passed(p)
           early == now <= p.startBlock
           open == now <= p.endBlock
<1>1. /\ x \in EntityType /\ p \in ProposalType /\ Copies(x, p) /\ StatusTells(x, p, now)
      /\ now \in Nat
  BY EntityTells DEF Tells, AppInv, GovInv, Typed
<1>2. /\ p.startBlock \in Nat /\ p.endBlock \in Nat /\ p.startBlock < p.endBlock
      /\ p.executed \in BOOLEAN /\ p.canceled \in BOOLEAN /\ p.vetoed \in BOOLEAN
      /\ p.executed => p.eta # 0
      /\ p.eta # 0 => now > p.endBlock /\ passed
  BY <1>1 DEF ProposalType, AppInv, GovInv, Timed, QueuedPassed
<1>3. State(i) = IF p.vetoed THEN "Vetoed"
                 ELSE IF p.canceled THEN "Canceled"
                 ELSE IF early THEN "Pending"
                 ELSE IF open THEN "Active"
                 ELSE IF ~ passed THEN "Defeated"
                 ELSE IF p.eta = 0 THEN "Succeeded"
                 ELSE IF p.executed THEN "Executed"
                 ELSE IF now >= p.eta + GRACE_PERIOD THEN "Expired"
                 ELSE "Queued"
  BY DEF State
<1>4. Displayed(i) =
        CASE x.status = "PENDING" -> IF early THEN "Pending" ELSE "Active"
          [] x.status = "ACTIVE"  ->
               IF open THEN "Active"
               ELSE IF x.tally[1] <= x.tally[0] \/ x.tally[1] < x.quorumVotes THEN "Defeated"
               ELSE IF x.executionETA = 0 THEN "Succeeded"
               ELSE "Active"
          [] x.status = "QUEUED"  ->
               IF now >= x.executionETA + GRACE_PERIOD THEN "Expired" ELSE "Queued"
          [] x.status = "EXECUTED"  -> "Executed"
          [] x.status = "CANCELLED" -> "Canceled"
          [] x.status = "VETOED"    -> "Vetoed"
  BY <1>1 DEF Displayed, getProposalState, Copies, NullEta
<1> HIDE DEF passed, early, open, x, p
<1>5. x.status \in Statuses
  BY <1>1 DEF EntityType
<1>6. CASE x.status = "PENDING"
  <2>1. /\ ~ p.executed /\ ~ p.canceled /\ ~ p.vetoed /\ p.eta = 0
        /\ x.votes = {} /\ x.tally = NoBallots
    BY <1>1, <1>6 DEF StatusTells
  <2>2. ~ passed
    <3>1. x.tally[For] = 0 /\ x.tally[Against] = 0
      BY <2>1 DEF For, Against, NoBallots
    <3>2. p.tally[For] = 0 /\ p.tally[Against] = 0
      BY <1>1, <3>1 DEF Copies
    <3> QED BY <3>2 DEF passed, Passed
  <2>3. Displayed(i) = IF early THEN "Pending" ELSE "Active"
    BY <1>4, <1>6
  <2> QED BY <1>3, <2>1, <2>2, <2>3 DEF x
<1>7. CASE x.status = "ACTIVE"
  <2>1. /\ ~ p.executed /\ ~ p.canceled /\ ~ p.vetoed /\ p.eta = 0 /\ x.executionETA = 0
    BY <1>1, <1>7 DEF StatusTells, Copies
  <2>2. ~ early
    BY <1>1, <1>2, <1>7 DEF StatusTells, early
  <2>3. Displayed(i) = IF open THEN "Active"
                       ELSE IF x.tally[1] <= x.tally[0] \/ x.tally[1] < x.quorumVotes
                            THEN "Defeated" ELSE "Succeeded"
    BY <1>4, <1>7, <2>1
  <2>4. State(i) = IF open THEN "Active" ELSE IF passed THEN "Succeeded" ELSE "Defeated"
    BY <1>3, <2>1, <2>2
  <2>5. CASE x.quorumVotes = quorumVotes(p)
    <3>1. passed <=> x.tally[1] > x.tally[0] /\ x.tally[1] >= x.quorumVotes
      BY <1>1, <2>5 DEF passed, Passed, Copies, For, Against
    <3>2. x.tally[1] \in Nat /\ x.tally[0] \in Nat /\ x.quorumVotes \in Nat
      BY <1>1 DEF EntityType
    <3>3. passed <=> ~ (x.tally[1] <= x.tally[0] \/ x.tally[1] < x.quorumVotes)
      BY <3>1, <3>2
    <3> QED BY <2>3, <2>4, <3>3
  <2>6. CASE ParamsSetBeside(i)
    BY <2>3, <2>4, <2>6
  <2> QED BY <2>5, <2>6, QuorumTells DEF x, p
<1>8. CASE x.status = "QUEUED"
  <2>1. /\ ~ p.executed /\ ~ p.canceled /\ ~ p.vetoed /\ p.eta # 0 /\ x.executionETA = p.eta
    BY <1>1, <1>8 DEF StatusTells, Copies
  <2>2. ~ early /\ ~ open /\ passed
    BY <1>1, <1>2, <2>1 DEF early, open
  <2>3. Displayed(i) = IF now >= p.eta + GRACE_PERIOD THEN "Expired" ELSE "Queued"
    BY <1>4, <1>8, <2>1
  <2> QED BY <1>3, <2>1, <2>2, <2>3
<1>9. CASE x.status = "EXECUTED"
  <2>1. p.executed /\ ~ p.canceled /\ ~ p.vetoed /\ p.eta # 0
    BY <1>1, <1>2, <1>9 DEF StatusTells
  <2>2. ~ early /\ ~ open /\ passed
    BY <1>1, <1>2, <2>1 DEF early, open
  <2> QED BY <1>3, <1>4, <1>9, <2>1, <2>2
<1>10. CASE x.status = "CANCELLED"
  <2>1. p.canceled
    BY <1>1, <1>10 DEF StatusTells
  <2>2. Displayed(i) = "Canceled"
    BY <1>4, <1>10
  <2> QED BY <1>2, <1>3, <2>1, <2>2 DEF p
<1>11. CASE x.status = "VETOED"
  <2>1. p.vetoed
    BY <1>1, <1>11 DEF StatusTells
  <2>2. Displayed(i) = "Vetoed"
    BY <1>4, <1>11
  <2> QED BY <1>3, <2>1, <2>2
<1> QED BY <1>5, <1>6, <1>7, <1>8, <1>9, <1>10, <1>11 DEF Statuses

(***************************************************************************)
(* The web application shows the governor's state, with the three          *)
(* exceptions, for any proposals and in any block.                         *)
(***************************************************************************)
THEOREM StateIsDisplayed == AppSpec => []DisplayedIsGovernors
<1>1. AppInv => DisplayedIsGovernors
  BY StateTold DEF DisplayedIsGovernors
<1> QED BY <1>1, AppInvariantHolds, PTL

(***************************************************************************)
(* Only a block moves the clock.                                           *)
(***************************************************************************)
LEMMA ClockIsMined == [AppNext]_appVars /\ now' # now => Mine
<1> SUFFICES ASSUME [AppNext]_appVars, now' # now PROVE Mine
  OBVIOUS
<1>1. CASE UNCHANGED appVars
  BY <1>1 DEF appVars, vars
<1>2. CASE AppNext
  BY <1>2 DEF AppNext, Unindexed, IndexPropose, IndexCastVote, IndexQueue, IndexExecute,
     IndexCancel, IndexVeto, IndexAdminCall, Propose, CastVote, Queue, Execute, Cancel, Veto,
     AdminCall, SetPendingVetoer, AcceptVetoer, BurnVetoPower, AcceptAdmin, AcceptTimelock,
     MoveVotes, MintVote
<1> QED BY <1>1, <1>2

(***************************************************************************)
(* What is sent from the page drawn in a block is accepted in the next.    *)
(***************************************************************************)
LEMMA OffersHold ==
  ASSUME AppInv, Mine, NEW i \in Ids
  PROVE  Accepted(i)
<1> DEFINE x == index.proposals[i]
           p == proposals[i]
           passed == Passed(p)
<1>1. /\ p \in ProposalType /\ Copies(x, p) /\ StatusTells(x, p, now) /\ x \in EntityType
      /\ now \in Nat
  BY EntityTells DEF Tells, AppInv, GovInv, Typed
<1>2. /\ p.startBlock \in Nat /\ p.endBlock \in Nat /\ p.startBlock < p.endBlock
      /\ p.executed \in BOOLEAN /\ p.canceled \in BOOLEAN /\ p.vetoed \in BOOLEAN /\ p.eta \in Nat
      /\ p.executed => p.eta # 0
      /\ p.eta # 0 => now > p.endBlock /\ passed
      /\ GRACE_PERIOD \in Nat
  BY <1>1, DelaysAreOrdered DEF ProposalType, AppInv, GovInv, Timed, QueuedPassed
<1>3. proposals' = proposals /\ settings' = settings /\ now' = now + 1
  BY MineKeepsPast DEF AppInv, GovInv
<1>4. State(i)' = IF p.vetoed THEN "Vetoed"
                  ELSE IF p.canceled THEN "Canceled"
                  ELSE IF now + 1 <= p.startBlock THEN "Pending"
                  ELSE IF now + 1 <= p.endBlock THEN "Active"
                  ELSE IF ~ passed THEN "Defeated"
                  ELSE IF p.eta = 0 THEN "Succeeded"
                  ELSE IF p.executed THEN "Executed"
                  ELSE IF now + 1 >= p.eta + GRACE_PERIOD THEN "Expired"
                  ELSE "Queued"
  BY <1>3 DEF State, Passed, quorumVotes
<1>5. State(i) = IF p.vetoed THEN "Vetoed"
                 ELSE IF p.canceled THEN "Canceled"
                 ELSE IF now <= p.startBlock THEN "Pending"
                 ELSE IF now <= p.endBlock THEN "Active"
                 ELSE IF ~ passed THEN "Defeated"
                 ELSE IF p.eta = 0 THEN "Succeeded"
                 ELSE IF p.executed THEN "Executed"
                 ELSE IF now >= p.eta + GRACE_PERIOD THEN "Expired"
                 ELSE "Queued"
  BY DEF State
<1> HIDE DEF passed, p, x
<1>6. OffersQueue(i) => State(i)' = "Succeeded" \/ ParamsSetBeside(i)
  <2> SUFFICES ASSUME Displayed(i) = "Succeeded", ~ ParamsSetBeside(i)
               PROVE  State(i)' = "Succeeded"
    BY DEF OffersQueue
  <2>1. State(i) = "Succeeded"
    BY StateTold
  <2>2. /\ ~ p.vetoed /\ ~ p.canceled /\ ~ (now <= p.startBlock) /\ ~ (now <= p.endBlock)
        /\ passed /\ p.eta = 0
    BY <1>5, <2>1
  <2>3. ~ (now + 1 <= p.startBlock) /\ ~ (now + 1 <= p.endBlock)
    BY <1>1, <1>2, <2>2
  <2> QED BY <1>4, <2>2, <2>3
<1>7. OffersExecute(i) =>
        \/ State(i)' = "Queued" /\ now' >= proposals[i].eta
        \/ now' = proposals[i].eta + GRACE_PERIOD
  <2> SUFFICES ASSUME Displayed(i) = "Queued", now >= x.executionETA
               PROVE  \/ State(i)' = "Queued" /\ now' >= p.eta
                      \/ now' = p.eta + GRACE_PERIOD
    BY DEF OffersExecute, x, p
  <2>1. State(i) = "Queued"
    BY StateTold
  <2>2. /\ ~ p.vetoed /\ ~ p.canceled /\ ~ (now <= p.startBlock) /\ ~ (now <= p.endBlock)
        /\ passed /\ p.eta # 0 /\ ~ p.executed /\ ~ (now >= p.eta + GRACE_PERIOD)
    BY <1>5, <2>1
  <2>3. now >= p.eta
    BY <1>1, <2>2 DEF Copies
  <2>4. /\ ~ (now + 1 <= p.startBlock) /\ ~ (now + 1 <= p.endBlock) /\ now + 1 >= p.eta
        /\ now + 1 >= p.eta + GRACE_PERIOD => now + 1 = p.eta + GRACE_PERIOD
    BY <1>1, <1>2, <2>2, <2>3
  <2> QED BY <1>3, <1>4, <2>2, <2>4
<1>8. ASSUME NEW a \in Accounts, OffersVote(a, i)
      PROVE  \/ State(i)' = "Active" /\ VoteWeight(proposals[i], a) > 0
             \/ State(i) \in {"Canceled", "Vetoed"}
  <2>1. now \in p.startBlock .. p.endBlock - 1 /\ VoteWeight(p, a) > 0
    BY <1>1, <1>8 DEF OffersVote, VoteWeight, Copies, x
  <2>2. ~ (now + 1 <= p.startBlock) /\ now + 1 <= p.endBlock
    BY <1>1, <1>2, <2>1
  <2>3. CASE p.vetoed \/ p.canceled
    BY <1>5, <2>3
  <2>4. CASE ~ p.vetoed /\ ~ p.canceled
    BY <1>4, <2>1, <2>2, <2>4 DEF p
  <2> QED BY <2>3, <2>4
<1>9. ASSUME NEW a \in Accounts, OffersCancel(a, i)
      PROVE  State(i)' # "Executed" /\ a = proposals[i].proposer
  <2>1. a = p.proposer
    BY <1>1, <1>9 DEF OffersCancel, Copies, x
  <2>2. ~ p.executed
    <3>1. Displayed(i) # "Executed"
      BY <1>9 DEF OffersCancel
    <3>2. x.status = "EXECUTED" => Displayed(i) = "Executed"
      BY DEF Displayed, getProposalState, x
    <3> QED BY <1>1, <3>1, <3>2 DEF StatusTells
  <2>3. State(i)' # "Executed"
    BY <1>4, <2>2
  <2> QED BY <2>1, <2>3 DEF p
<1> QED BY <1>6, <1>7, <1>8, <1>9 DEF Accepted

(***************************************************************************)
(* The buttons of a proposal's page, for any proposals and accounts.       *)
(***************************************************************************)
THEOREM AcceptsOffers == AppSpec => OffersAreAccepted
<1> DEFINE Taken == now' # now => \A i \in Ids : Accepted(i)
<1>1. AppInv /\ [AppNext]_appVars => [Taken]_appVars
  <2> SUFFICES ASSUME AppInv, [AppNext]_appVars PROVE Taken
    OBVIOUS
  <2> QED BY ClockIsMined, OffersHold
<1> HIDE DEF Taken
<1>2. AppSpec => [][Taken]_appVars
  BY <1>1, AppInvariantHolds, PTL DEF AppSpec
<1> QED BY <1>2 DEF Taken, OffersAreAccepted

-------------------------------------------------------------------------------
(* Lists put in order.                                                     *)

\* `before' says of any two members of S which one comes first
Orders(before, S) ==
  /\ \A i \in S : <<i, i>> \notin before
  /\ \A i, j \in S : i # j => <<i, j>> \in before \/ <<j, i>> \in before
  /\ \A i, j, k \in S : <<i, j>> \in before /\ <<j, k>> \in before => <<i, k>> \in before

\* Who comes first has fewer before him.
LEMMA FewerBefore ==
  ASSUME NEW S, IsFiniteSet(S), NEW before, Orders(before, S),
         NEW i \in S, NEW j \in S, <<i, j>> \in before
  PROVE  Cardinality({h \in S : <<h, i>> \in before}) < Cardinality({h \in S : <<h, j>> \in before})
<1>. DEFINE I == {h \in S : <<h, i>> \in before}
            J == {h \in S : <<h, j>> \in before}
<1>1. IsFiniteSet(I) /\ IsFiniteSet(J) /\ Cardinality(I) \in Nat /\ Cardinality(J) \in Nat
  BY FS_Subset, FS_CardinalityType
<1>2. i \in J /\ i \notin I /\ I \subseteq J
  BY DEF Orders
<1>3. IsFiniteSet(J \ {i}) /\ Cardinality(J \ {i}) = Cardinality(J) - 1
  BY <1>1, <1>2, FS_RemoveElement
<1>4. I \in SUBSET (J \ {i})
  BY <1>2
<1>5. Cardinality(I) <= Cardinality(J \ {i})
  BY <1>3, <1>4, FS_Subset
<1>. QED BY <1>1, <1>3, <1>5

\* Everybody has a place in the line, of which there are as many as members.
LEMMA LinedIsLine ==
  ASSUME NEW S, IsFiniteSet(S), NEW before, Orders(before, S)
  PROVE  /\ Cardinality(S) \in Nat
         /\ Lined(S, before) \in [1 .. Cardinality(S) -> S]
         /\ \A i \in S : \E k \in 1 .. Cardinality(S) : Lined(S, before)[k] = i
         /\ \A k, l \in 1 .. Cardinality(S) :
              k < l => <<Lined(S, before)[k], Lined(S, before)[l]>> \in before
         /\ \A k, l \in 1 .. Cardinality(S) :
              Lined(S, before)[k] = Lined(S, before)[l] => k = l
         /\ \A k \in 1 .. Cardinality(S) :
              Cardinality({h \in S : <<h, Lined(S, before)[k]>> \in before}) = k - 1
<1>. DEFINE Before(i) == Cardinality({h \in S : <<h, i>> \in before})
            n == Cardinality(S)
            rank == [i \in S |-> Before(i) + 1]
            line == Lined(S, before)
<1>1. n \in Nat
  BY FS_CardinalityType
<1>2. ASSUME NEW i \in S PROVE Before(i) \in 0 .. n - 1
  <2>1. {h \in S : <<h, i>> \in before} \in SUBSET (S \ {i})
    BY DEF Orders
  <2>2. IsFiniteSet(S \ {i}) /\ Cardinality(S \ {i}) = n - 1
    BY FS_RemoveElement
  <2>3. Before(i) <= n - 1 /\ IsFiniteSet({h \in S : <<h, i>> \in before})
    BY <2>1, <2>2, FS_Subset
  <2>4. Before(i) \in Nat
    BY <2>3, FS_CardinalityType
  <2>. QED BY <1>1, <2>3, <2>4
<1>3. ASSUME NEW i \in S, NEW j \in S, <<i, j>> \in before PROVE Before(i) < Before(j)
  BY <1>3, FewerBefore
<1>. HIDE DEF Before, n
<1>4. rank \in [S -> 1 .. n]
  BY <1>1, <1>2
<1>5. ASSUME NEW i \in S, NEW j \in S, Before(i) = Before(j) PROVE i = j
  <2>1. Before(i) \in Nat /\ Before(j) \in Nat
    BY <1>2
  <2>2. <<i, j>> \notin before /\ <<j, i>> \notin before
    BY <1>3, <1>5, <2>1
  <2>3. \A x, y \in S : x # y => <<x, y>> \in before \/ <<y, x>> \in before
    BY DEF Orders
  <2>. QED BY <2>2, <2>3
<1>6. rank \in Injection(S, 1 .. n)
  <2>1. \A i, j \in S : rank[i] = rank[j] => i = j
    BY <1>2, <1>5
  <2>. QED BY <1>4, <2>1 DEF Injection, IsInjective
<1>7. IsFiniteSet(1 .. n) /\ Cardinality(1 .. n) = n
  BY <1>1, FS_Interval
<1>8. rank \in Surjection(S, 1 .. n)
  BY <1>6, <1>7, FS_Injection DEF n
<1>9. ASSUME NEW k \in 1 .. n PROVE \E i \in S : Before(i) = k - 1
  <2>1. PICK i \in S : rank[i] = k
    BY <1>8 DEF Surjection
  <2>. QED BY <1>2, <2>1
<1>10. line = [k \in 1 .. n |-> CHOOSE i \in S : Before(i) = k - 1]
  BY DEF Lined, Before, n
<1>11. ASSUME NEW k \in 1 .. n PROVE line[k] \in S /\ Before(line[k]) = k - 1
  BY <1>9, <1>10
<1>12. line \in [1 .. n -> S]
  BY <1>9, <1>10
<1>. HIDE DEF line
<1>13. ASSUME NEW i \in S PROVE \E k \in 1 .. n : line[k] = i
  <2>1. Before(i) + 1 \in 1 .. n
    BY <1>1, <1>2
  <2>2. line[Before(i) + 1] \in S /\ Before(line[Before(i) + 1]) = Before(i)
    BY <1>2, <1>11, <2>1
  <2>. QED BY <1>5, <2>1, <2>2
<1>14. ASSUME NEW k \in 1 .. n, NEW l \in 1 .. n, k < l PROVE <<line[k], line[l]>> \in before
  <2>1. Before(line[k]) < Before(line[l]) /\ line[k] \in S /\ line[l] \in S
    BY <1>11, <1>14
  <2>2. ~ (Before(line[l]) < Before(line[k])) /\ line[k] # line[l]
    BY <1>2, <2>1
  <2>. QED BY <1>3, <2>1, <2>2 DEF Orders
<1>15. ASSUME NEW k \in 1 .. n, NEW l \in 1 .. n, line[k] = line[l] PROVE k = l
  <2>1. k - 1 = l - 1
    BY <1>11, <1>15
  <2>. QED BY <2>1
<1>. QED BY <1>1, <1>11, <1>12, <1>13, <1>14, <1>15 DEF line, n, Before

\* The places picked, in the order of the list.
LEMMA PickedIs ==
  ASSUME NEW m \in Nat, NEW places \in SUBSET (1 .. m), NEW list
  PROVE  /\ IsFiniteSet(places) /\ Cardinality(places) \in Nat
         /\ DOMAIN Picked(list, places) = 1 .. Cardinality(places)
         /\ \A k \in 1 .. Cardinality(places) : \E i \in places : Picked(list, places)[k] = list[i]
         /\ \A i \in places :
              \E k \in 1 .. Cardinality(places) : Picked(list, places)[k] = list[i]
<1>. DEFINE up == {p \in places \X places : p[1] < p[2]}
            line == Lined(places, up)
<1>1. IsFiniteSet(places)
  <2>1. IsFiniteSet(1 .. m)
    BY FS_Interval
  <2>. QED BY <2>1, FS_Subset
<1>2. Orders(up, places)
  BY DEF Orders
<1>. HIDE DEF up
<1>3. /\ Cardinality(places) \in Nat /\ line \in [1 .. Cardinality(places) -> places]
      /\ \A i \in places : \E k \in 1 .. Cardinality(places) : line[k] = i
  BY <1>1, <1>2, LinedIsLine
<1>4. Picked(list, places) = [k \in DOMAIN line |-> list[line[k]]]
  BY DEF Picked, up
<1>. HIDE DEF line
<1>. DEFINE n == Cardinality(places)
<1>5. DOMAIN line = 1 .. n /\ \A k \in 1 .. n : line[k] \in places
  BY <1>3
<1>. HIDE DEF n
<1>6. Picked(list, places) = [k \in 1 .. n |-> list[line[k]]]
  BY <1>4, <1>5
<1>7. \A k \in 1 .. n : \E i \in places : Picked(list, places)[k] = list[i]
  BY <1>5, <1>6
<1>8. \A i \in places : \E k \in 1 .. n : Picked(list, places)[k] = list[i]
  <2>1. ASSUME NEW i \in places PROVE \E k \in 1 .. n : Picked(list, places)[k] = list[i]
    <3>1. PICK k \in 1 .. n : line[k] = i
      BY <1>3 DEF n
    <3>. QED BY <1>6, <3>1
  <2>. QED BY <2>1
<1>9. DOMAIN Picked(list, places) = 1 .. n
  BY <1>6
<1>. QED BY <1>1, <1>3, <1>7, <1>8, <1>9 DEF n

\* Picking everything changes nothing.
LEMMA PickedAll ==
  ASSUME NEW m \in Nat, NEW T, NEW list \in [1 .. m -> T]
  PROVE  Picked(list, 1 .. m) = list
<1>. DEFINE S == 1 .. m
            up == {p \in S \X S : p[1] < p[2]}
            line == Lined(S, up)
<1>1. IsFiniteSet(S) /\ Cardinality(S) = m
  BY FS_Interval
<1>2. Orders(up, S)
  BY DEF Orders
<1>3. /\ line \in [1 .. m -> S]
      /\ \A k \in 1 .. m : Cardinality({h \in S : <<h, line[k]>> \in up}) = k - 1
  <2>. HIDE DEF up, S
  <2>. QED BY <1>1, <1>2, LinedIsLine
<1>4. ASSUME NEW k \in 1 .. m PROVE line[k] = k
  <2>1. PICK i \in 1 .. m : i = line[k]
    BY <1>3
  <2>2. {h \in S : <<h, i>> \in up} = 1 .. i - 1
    OBVIOUS
  <2>3. Cardinality(1 .. i - 1) = i - 1
    BY FS_Interval
  <2>4. Cardinality({h \in S : <<h, line[k]>> \in up}) = k - 1
    BY <1>3
  <2>5. Cardinality({h \in S : <<h, i>> \in up}) = i - 1
    BY <2>2, <2>3
  <2>. HIDE DEF up, S, line
  <2>6. i - 1 = k - 1
    BY <2>1, <2>4, <2>5
  <2>. QED BY <2>1, <2>6
<1>5. Picked(list, 1 .. m) = [k \in DOMAIN line |-> list[line[k]]]
  BY DEF Picked
<1>. HIDE DEF line
<1>. QED BY <1>3, <1>4, <1>5

\* If the members of C come last, they are the last.
LEMMA LastOnes ==
  ASSUME NEW n \in Nat, NEW line \in [1 .. n -> 1 .. n],
         \A i \in 1 .. n : \E k \in 1 .. n : line[k] = i,
         \A k, l \in 1 .. n : line[k] = line[l] => k = l,
         NEW C \in SUBSET (1 .. n),
         \A k, l \in 1 .. n : k < l /\ line[k] \in C => line[l] \in C
  PROVE  /\ Cardinality(C) \in 0 .. n
         /\ \A k \in 1 .. n : line[k] \in C <=> k > n - Cardinality(C)
<1>. DEFINE P == {k \in 1 .. n : line[k] \in C}
            f == [k \in P |-> line[k]]
<1>1. IsFiniteSet(P)
  <2>1. IsFiniteSet(1 .. n)
    BY FS_Interval
  <2>. QED BY <2>1, FS_Subset
<1>2. f \in Bijection(P, C)
  <2>1. f \in [P -> C]
    OBVIOUS
  <2>2. \A k, l \in P : f[k] = f[l] => k = l
    OBVIOUS
  <2>3. \A i \in C : \E k \in P : f[k] = i
    OBVIOUS
  <2>. QED BY <2>1, <2>2, <2>3 DEF Bijection, Injection, Surjection, IsInjective
<1>3. Cardinality(C) = Cardinality(P)
  <2>1. ExistsBijection(P, C)
    BY <1>2 DEF ExistsBijection
  <2>. HIDE DEF P, f
  <2>. QED BY <1>1, <2>1, FS_Bijection
<1>4. CASE P = {}
  <2>1. Cardinality(C) = 0
    BY <1>3, <1>4, FS_EmptySet
  <2>. QED BY <1>4, <2>1
<1>5. CASE P # {}
  <2>1. P \in SUBSET Nat
    OBVIOUS
  <2>2. PICK m \in P : \A k \in P : m <= k
    <3>. HIDE DEF P
    <3>. QED BY <1>5, <2>1, LeastNumber
  <2>3. P = m .. n /\ m \in 1 .. n
    BY <2>2
  <2>4. Cardinality(m .. n) = (n - m) + 1
    BY <2>3, FS_Interval
  <2>5. Cardinality(C) = (n - m) + 1
    BY <1>3, <2>3, <2>4
  <2>6. \A k \in 1 .. n : line[k] \in C <=> k \in P
    OBVIOUS
  <2>. HIDE DEF P
  <2>7. \A k \in 1 .. n : k \in P <=> k > n - ((n - m) + 1)
    BY <2>3
  <2>8. (n - m) + 1 \in 0 .. n
    BY <2>3
  <2>. QED BY <2>5, <2>6, <2>7, <2>8
<1>. QED BY <1>4, <1>5

-------------------------------------------------------------------------------
(* What has happened to the noun.                                          *)

TransferType == [block : Nat, to : Holders \cup {"house", "founders"}]
ProposedType == [created : Nat, end : Nat, vote : Nat, canceled : BOOLEAN]

FeedTyped ==
  /\ noun \in FeedNouns /\ txBlock \in Nat \ {0}
  /\ transfers \in Seq(TransferType)
  /\ delegated \in Seq(Nat)
  /\ proposed \in Seq(ProposedType)
  /\ nextStart \in 0 .. txBlock
  /\ auctionsSeen \in BOOLEAN /\ listed \in -1 .. Len(proposed)

\* every transaction has a block of its own
Chronology ==
  /\ \A i \in 1 .. Len(transfers) : transfers[i].block <= txBlock
  /\ \A i, j \in 1 .. Len(transfers) : i < j => transfers[i].block < transfers[j].block
  /\ \A i \in 1 .. Len(delegated) : delegated[i] <= txBlock
  /\ \A i, j \in 1 .. Len(delegated) : i < j => delegated[i] < delegated[j]
  /\ Len(transfers) >= 1 /\ transfers[1].block = 1
  /\ Len(delegated) >= 1 /\ delegated[1] = 1
  /\ \A i \in 1 .. Len(proposed) :
       /\ proposed[i].created <= txBlock /\ proposed[i].created # nextStart
       /\ proposed[i].created <= proposed[i].end
       /\ proposed[i].vote # 0 => proposed[i].created <= proposed[i].vote

\* the first owner bought it, and with that the next auction began, or was given it
FirstOwner ==
  /\ Auctioned(noun) =>
       \/ nextStart = 0 /\ Owner = "house" /\ Len(transfers) = 1 /\ Len(delegated) = 1
       \/ /\ nextStart # 0 /\ Owner # "house"
          /\ Len(transfers) >= 2 /\ transfers[2].block = nextStart
          /\ Len(delegated) >= 2 /\ delegated[2] = nextStart
  /\ ~ Auctioned(noun) => nextStart = 1 /\ Owner # "house"
  /\ laterStart # 0 => nextStart # 0
  /\ auctionsSeen => SoughtStart # 0

FeedInv == FeedTyped /\ Chronology /\ FirstOwner

\* The auction the page looks for is the next one or the one after, if it is any.
LEMMA SoughtIs ==
  /\ SoughtStart \in {nextStart, laterStart, 0}
  /\ UNCHANGED <<noun, nextStart, laterStart>> => SoughtStart' = SoughtStart
<1>1. SoughtStart \in {nextStart, laterStart, 0}
  BY DEF SoughtStart
<1>2. ASSUME UNCHANGED <<noun, nextStart, laterStart>> PROVE SoughtStart' = SoughtStart
  BY <1>2 DEF SoughtStart, NextForSale, Auctioned, GivenToNounders, GivenToCouncil, IsNounders
<1>. QED BY <1>1, <1>2

\* Where the page's rule holds, it is the next one.
LEMMA SoughtIsNext ==
  ASSUME FeedInv, auctionsSeen, RuleHolds
  PROVE  nextStart # 0 /\ NounCanVoteTimestamp = nextStart
<1>1. SoughtStart # 0 /\ noun \in Nat
  BY FeedConstants DEF FeedInv, FeedTyped, FirstOwner
<1>. DEFINE sought == IF IsNounders(noun + 1) THEN noun + 2 ELSE noun + 1
<1>2. SoughtStart = CASE sought = NextForSale(noun)              -> nextStart
                      [] sought = NextForSale(NextForSale(noun)) -> laterStart
                      [] OTHER                                   -> 0
  BY DEF SoughtStart
<1>3. sought = NextForSale(noun)
  <2>1. CASE IsNounders(noun + 1)
    BY <2>1 DEF RuleHolds, NextForSale, Auctioned
  <2>2. CASE ~ IsNounders(noun + 1)
    <3>1. CASE NextForSale(noun) = noun + 2
      <4>1. NextForSale(noun + 2) \in {noun + 3, noun + 4}
        BY <1>1 DEF NextForSale
      <4>2. sought # noun + 2 /\ sought # NextForSale(noun + 2)
        BY <1>1, <2>2, <4>1
      <4>. HIDE DEF sought
      <4>3. SoughtStart = 0
        BY <1>2, <3>1, <4>2
      <4>. QED BY <1>1, <4>3
    <3>. QED BY <2>2, <3>1 DEF NextForSale
  <2>. QED BY <2>1, <2>2
<1>. HIDE DEF sought
<1>4. SoughtStart = nextStart
  <2>1. PICK n \in Nat : n = NextForSale(noun)
    BY <1>1 DEF NextForSale
  <2>2. NextForSale(n) \in {n + 1, n + 2}
    BY DEF NextForSale
  <2>3. NextForSale(NextForSale(noun)) # NextForSale(noun)
    BY <2>1, <2>2
  <2>. QED BY <1>2, <1>3, <2>3
<1>. QED BY <1>1, <1>4 DEF NounCanVoteTimestamp

\* A noun is born.
LEMMA FeedInitInv == FeedInit => FeedInv
<1>. SUFFICES ASSUME FeedInit PROVE FeedInv
  OBVIOUS
<1>1. FeedTyped
  <2>1. [block |-> 1, to |-> IF Auctioned(noun) THEN "house" ELSE "founders"] \in TransferType
    BY DEF TransferType
  <2>2. transfers \in Seq(TransferType) /\ delegated \in Seq(Nat) /\ proposed \in Seq(ProposedType)
    BY <2>1 DEF FeedInit
  <2>3. nextStart \in 0 .. 1 /\ txBlock = 1
    BY DEF FeedInit
  <2>4. noun \in FeedNouns /\ auctionsSeen = FALSE /\ listed = -1 /\ Len(proposed) = 0
    BY DEF FeedInit
  <2>5. txBlock \in Nat \ {0} /\ nextStart \in 0 .. txBlock
    BY <2>3
  <2>6. auctionsSeen \in BOOLEAN
    BY <2>4
  <2>7. listed \in -1 .. Len(proposed)
    BY <2>4
  <2>. QED BY <2>2, <2>4, <2>5, <2>6, <2>7 DEF FeedTyped
<1>2. Chronology
  BY DEF FeedInit, Chronology
<1>3. FirstOwner
  BY DEF FeedInit, FirstOwner, Owner
<1>. QED BY <1>1, <1>2, <1>3 DEF FeedInv

\* It moves, and its votes with it.
LEMMA MovesKeep ==
  ASSUME FeedInv, NEW to \in Holders, SettleNoun(to) \/ TransferNoun(to)
  PROVE  FeedInv'
<1>1. /\ txBlock' = txBlock + 1
      /\ transfers' = Append(transfers, [block |-> txBlock', to |-> to])
      /\ delegated' = Append(delegated, txBlock')
      /\ nextStart' \in {nextStart, txBlock'}
      /\ UNCHANGED <<noun, proposed, laterStart, auctionsSeen, listed>>
  BY DEF SettleNoun, TransferNoun, NounMoves, Transact, feedQueries
<1>2. FeedTyped /\ txBlock \in Nat \ {0}
  BY DEF FeedInv, FeedTyped
<1>3. PICK n \in Nat : n = Len(transfers)
  BY <1>2 DEF FeedTyped
<1>4. PICK m \in Nat : m = Len(delegated)
  BY <1>2 DEF FeedTyped
<1>5. /\ Len(transfers') = n + 1 /\ transfers'[n + 1] = [block |-> txBlock + 1, to |-> to]
      /\ \A i \in 1 .. n : transfers'[i] = transfers[i]
  BY <1>1, <1>2, <1>3 DEF FeedTyped
<1>6. /\ Len(delegated') = m + 1 /\ delegated'[m + 1] = txBlock + 1
      /\ \A i \in 1 .. m : delegated'[i] = delegated[i]
  BY <1>1, <1>2, <1>4 DEF FeedTyped
<1>7. FeedTyped'
  <2>1. [block |-> txBlock', to |-> to] \in TransferType
    BY <1>1, <1>2 DEF TransferType
  <2>2. transfers' \in Seq(TransferType) /\ delegated' \in Seq(Nat)
    BY <1>1, <1>2, <2>1 DEF FeedTyped
  <2>3. nextStart' \in 0 .. txBlock'
    BY <1>1, <1>2 DEF FeedTyped
  <2>. QED BY <1>1, <1>2, <2>2, <2>3 DEF FeedTyped, TransferType, ProposedType
<1>8. Chronology'
  <2>1. Chronology
    BY DEF FeedInv
  <2>2. \A i \in 1 .. n : transfers[i].block \in Nat /\ transfers[i].block <= txBlock
    <3>1. \A i \in 1 .. n : transfers[i] \in TransferType
      BY <1>2, <1>3 DEF FeedTyped
    <3>. QED BY <1>3, <2>1, <3>1 DEF TransferType, Chronology
  <2>3. \A i \in 1 .. m : delegated[i] \in Nat /\ delegated[i] <= txBlock
    BY <1>2, <1>4, <2>1 DEF FeedTyped, Chronology
  <2>4. \A i \in 1 .. Len(transfers') : transfers'[i].block <= txBlock'
    BY <1>1, <1>2, <1>5, <2>2
  <2>5. \A i, j \in 1 .. Len(transfers') : i < j => transfers'[i].block < transfers'[j].block
    <3>1. ASSUME NEW i \in 1 .. n + 1, NEW j \in 1 .. n + 1, i < j
          PROVE  transfers'[i].block < transfers'[j].block
      <4>1. i \in 1 .. n
        BY <3>1
      <4>2. CASE j = n + 1
        BY <1>2, <1>5, <2>2, <4>1, <4>2
      <4>3. CASE j # n + 1
        <5>1. j \in 1 .. n
          BY <4>3
        <5>. QED BY <1>3, <1>5, <2>1, <3>1, <4>1, <5>1 DEF Chronology
      <4>. QED BY <4>2, <4>3
    <3>. QED BY <1>5, <3>1
  <2>6. \A i \in 1 .. Len(delegated') : delegated'[i] <= txBlock'
    BY <1>1, <1>2, <1>6, <2>3
  <2>7. \A i, j \in 1 .. Len(delegated') : i < j => delegated'[i] < delegated'[j]
    <3>1. ASSUME NEW i \in 1 .. m + 1, NEW j \in 1 .. m + 1, i < j
          PROVE  delegated'[i] < delegated'[j]
      <4>1. i \in 1 .. m
        BY <3>1
      <4>2. CASE j = m + 1
        BY <1>2, <1>6, <2>3, <4>1, <4>2
      <4>3. CASE j # m + 1
        <5>1. j \in 1 .. m
          BY <4>3
        <5>. QED BY <1>4, <1>6, <2>1, <3>1, <4>1, <5>1 DEF Chronology
      <4>. QED BY <4>2, <4>3
    <3>. QED BY <1>6, <3>1
  <2>8. /\ Len(transfers') >= 1 /\ transfers'[1].block = 1
        /\ Len(delegated') >= 1 /\ delegated'[1] = 1
    BY <1>3, <1>4, <1>5, <1>6, <2>1 DEF Chronology
  <2>9. ASSUME NEW i \in 1 .. Len(proposed)
        PROVE  proposed[i].created <= txBlock' /\ proposed[i].created # nextStart'
    <3>1. proposed[i].created \in Nat /\ proposed[i].created <= txBlock
          /\ proposed[i].created # nextStart
      <4>1. proposed[i] \in ProposedType
        BY <1>2 DEF FeedTyped
      <4>. QED BY <2>1, <4>1 DEF ProposedType, Chronology
    <3>. QED BY <1>1, <1>2, <3>1
  <2>. QED BY <1>1, <2>1, <2>4, <2>5, <2>6, <2>7, <2>8, <2>9 DEF Chronology
<1>9. FirstOwner'
  <2>1. Owner' = to /\ to # "house"
    BY <1>5, FeedConstants DEF Owner
  <2>2. Auctioned(noun)' = Auctioned(noun)
    BY <1>1 DEF Auctioned, GivenToNounders, GivenToCouncil
  <2>3. CASE SettleNoun(to)
    <3>1. /\ Auctioned(noun) /\ nextStart' = txBlock + 1 /\ n = 1 /\ m = 1
      BY <1>1, <1>3, <1>4, <2>3 DEF FeedInv, FirstOwner, SettleNoun
    <3>2. ~ auctionsSeen
      <4>1. nextStart = 0 /\ laterStart = 0
        BY <2>3 DEF FeedInv, FirstOwner, SettleNoun
      <4>. QED BY <4>1, SoughtIs DEF FeedInv, FirstOwner
    <3>. QED BY <1>1, <1>2, <1>5, <1>6, <2>1, <2>2, <3>1, <3>2 DEF FirstOwner
  <2>4. CASE TransferNoun(to)
    <3>1. nextStart' = nextStart /\ auctionsSeen' = auctionsSeen /\ Owner # "house"
      BY <1>1, <2>4 DEF TransferNoun
    <3>2. Auctioned(noun) => nextStart # 0
      BY <3>1 DEF FeedInv, FirstOwner
    <3>3. SoughtStart' = SoughtStart
      BY <1>1, <3>1, SoughtIs
    <3>. QED BY <1>1, <1>3, <1>4, <1>5, <1>6, <2>1, <2>2, <3>1, <3>2, <3>3 DEF FeedInv, FirstOwner
  <2>. QED BY <2>3, <2>4
<1>. QED BY <1>7, <1>8, <1>9 DEF FeedInv

\* It is delegated.
LEMMA DelegateKeeps == ASSUME FeedInv, DelegateNoun PROVE FeedInv'
<1>1. /\ txBlock' = txBlock + 1 /\ delegated' = Append(delegated, txBlock')
      /\ Owner # "house"
      /\ UNCHANGED <<noun, transfers, proposed, nextStart, laterStart, auctionsSeen, listed>>
  BY DEF DelegateNoun, Transact, feedQueries
<1>2. FeedTyped /\ Chronology /\ FirstOwner /\ txBlock \in Nat \ {0}
  BY DEF FeedInv, FeedTyped
<1>3. PICK m \in Nat : m = Len(delegated)
  BY <1>2 DEF FeedTyped
<1>4. /\ Len(delegated') = m + 1 /\ delegated'[m + 1] = txBlock + 1
      /\ \A i \in 1 .. m : delegated'[i] = delegated[i]
  BY <1>1, <1>2, <1>3 DEF FeedTyped
<1>5. FeedTyped'
  <2>1. delegated' \in Seq(Nat) /\ nextStart' \in 0 .. txBlock'
    BY <1>1, <1>2 DEF FeedTyped
  <2>. QED BY <1>1, <1>2, <2>1 DEF FeedTyped, TransferType, ProposedType
<1>6. Chronology'
  <2>1. \A i \in 1 .. m : delegated[i] \in Nat /\ delegated[i] <= txBlock
    BY <1>2, <1>3 DEF FeedTyped, Chronology
  <2>2. \A i \in 1 .. Len(delegated') : delegated'[i] <= txBlock'
    BY <1>1, <1>2, <1>4, <2>1
  <2>3. \A i, j \in 1 .. Len(delegated') : i < j => delegated'[i] < delegated'[j]
    <3>1. ASSUME NEW i \in 1 .. m + 1, NEW j \in 1 .. m + 1, i < j
          PROVE  delegated'[i] < delegated'[j]
      <4>1. i \in 1 .. m
        BY <3>1
      <4>2. CASE j = m + 1
        BY <1>2, <1>4, <2>1, <4>1, <4>2
      <4>3. CASE j # m + 1
        <5>1. j \in 1 .. m
          BY <4>3
        <5>. QED BY <1>2, <1>3, <1>4, <3>1, <4>1, <5>1 DEF Chronology
      <4>. QED BY <4>2, <4>3
    <3>. QED BY <1>4, <3>1
  <2>4. Len(delegated') >= 1 /\ delegated'[1] = 1
    BY <1>2, <1>3, <1>4 DEF Chronology
  <2>5. \A i \in 1 .. Len(transfers) : transfers[i].block <= txBlock'
    <3>1. ASSUME NEW i \in 1 .. Len(transfers) PROVE transfers[i].block <= txBlock'
      <4>1. transfers[i] \in TransferType /\ transfers[i].block <= txBlock
        BY <1>2 DEF FeedTyped, Chronology
      <4>. QED BY <1>1, <1>2, <4>1 DEF TransferType
    <3>. QED BY <3>1
  <2>6. \A i \in 1 .. Len(proposed) : proposed[i].created <= txBlock'
    <3>1. ASSUME NEW i \in 1 .. Len(proposed) PROVE proposed[i].created <= txBlock'
      <4>1. proposed[i] \in ProposedType /\ proposed[i].created <= txBlock
        BY <1>2 DEF FeedTyped, Chronology
      <4>. QED BY <1>1, <1>2, <4>1 DEF ProposedType
    <3>. QED BY <3>1
  <2>. QED BY <1>1, <1>2, <2>2, <2>3, <2>4, <2>5, <2>6 DEF Chronology
<1>7. FirstOwner'
  <2>1. Owner' = Owner /\ Auctioned(noun)' = Auctioned(noun)
    BY <1>1 DEF Owner, Auctioned, GivenToNounders, GivenToCouncil
  <2>2. SoughtStart' = SoughtStart
    BY <1>1, SoughtIs
  <2>. QED BY <1>1, <1>2, <1>3, <1>4, <2>1, <2>2 DEF FirstOwner
<1>. QED BY <1>5, <1>6, <1>7 DEF FeedInv

\* The auction after the next starts.
LEMMA SettleNextKeeps == ASSUME FeedInv, SettleNextNoun PROVE FeedInv'
<1>1. /\ txBlock' = txBlock + 1 /\ laterStart' = txBlock' /\ nextStart # 0
      /\ UNCHANGED <<noun, transfers, delegated, proposed, nextStart, auctionsSeen, listed>>
  BY DEF SettleNextNoun, Transact, feedQueries
<1>2. FeedTyped /\ Chronology /\ FirstOwner /\ txBlock \in Nat \ {0}
  BY DEF FeedInv, FeedTyped
<1>3. FeedTyped'
  <2>1. nextStart' \in 0 .. txBlock'
    BY <1>1, <1>2 DEF FeedTyped
  <2>. QED BY <1>1, <1>2, <2>1 DEF FeedTyped, TransferType, ProposedType
<1>4. Chronology'
  <2>1. ASSUME NEW i \in 1 .. Len(transfers) PROVE transfers[i].block <= txBlock'
    <3>1. transfers[i] \in TransferType /\ transfers[i].block <= txBlock
      BY <1>2 DEF FeedTyped, Chronology
    <3>. QED BY <1>1, <1>2, <3>1 DEF TransferType
  <2>2. ASSUME NEW i \in 1 .. Len(delegated) PROVE delegated[i] <= txBlock'
    <3>1. delegated[i] \in Nat /\ delegated[i] <= txBlock
      BY <1>2 DEF FeedTyped, Chronology
    <3>. QED BY <1>1, <1>2, <3>1
  <2>3. ASSUME NEW i \in 1 .. Len(proposed) PROVE proposed[i].created <= txBlock'
    <3>1. proposed[i] \in ProposedType /\ proposed[i].created <= txBlock
      BY <1>2 DEF FeedTyped, Chronology
    <3>. QED BY <1>1, <1>2, <3>1 DEF ProposedType
  <2>. QED BY <1>1, <1>2, <2>1, <2>2, <2>3 DEF Chronology
<1>5. FirstOwner'
  <2>1. Owner' = Owner /\ Auctioned(noun)' = Auctioned(noun)
    BY <1>1 DEF Owner, Auctioned, GivenToNounders, GivenToCouncil
  <2>2. laterStart' # 0
    BY <1>1, <1>2
  <2>3. SoughtStart # 0 => SoughtStart' # 0
    BY <1>1, <2>2 DEF SoughtStart, NextForSale, Auctioned, GivenToNounders, GivenToCouncil,
                      IsNounders
  <2>. QED BY <1>1, <1>2, <2>1, <2>2, <2>3 DEF FirstOwner
<1>. QED BY <1>3, <1>4, <1>5 DEF FeedInv

\* The list of proposals changes.
LEMMA ProposedKeeps ==
  ASSUME FeedInv, UNCHANGED <<noun, transfers, delegated, nextStart, laterStart, auctionsSeen, listed>>,
         txBlock' = txBlock + 1, proposed' \in Seq(ProposedType), Len(proposed') >= Len(proposed),
         \A i \in 1 .. Len(proposed') :
           /\ proposed'[i].created <= txBlock' /\ proposed'[i].created # nextStart
           /\ proposed'[i].created <= proposed'[i].end
           /\ proposed'[i].vote # 0 => proposed'[i].created <= proposed'[i].vote
  PROVE  FeedInv'
<1>1. FeedTyped /\ Chronology /\ FirstOwner /\ txBlock \in Nat \ {0}
  BY DEF FeedInv, FeedTyped
<1>2. FeedTyped'
  <2>1. Len(proposed') \in Nat /\ Len(proposed) \in Nat
    BY <1>1 DEF FeedTyped
  <2>2. nextStart' \in 0 .. txBlock' /\ listed' \in -1 .. Len(proposed')
    BY <1>1, <2>1 DEF FeedTyped
  <2>. QED BY <1>1, <2>2 DEF FeedTyped, TransferType, ProposedType
<1>3. Chronology'
  <2>1. \A i \in 1 .. Len(transfers) : transfers[i].block <= txBlock'
    <3>1. ASSUME NEW i \in 1 .. Len(transfers) PROVE transfers[i].block <= txBlock'
      <4>1. transfers[i] \in TransferType /\ transfers[i].block <= txBlock
        BY <1>1 DEF FeedTyped, Chronology
      <4>. QED BY <1>1, <4>1 DEF TransferType
    <3>. QED BY <3>1
  <2>2. \A i \in 1 .. Len(delegated) : delegated[i] <= txBlock'
    <3>1. ASSUME NEW i \in 1 .. Len(delegated) PROVE delegated[i] <= txBlock'
      <4>1. delegated[i] \in Nat /\ delegated[i] <= txBlock
        BY <1>1 DEF FeedTyped, Chronology
      <4>. QED BY <1>1, <4>1
    <3>. QED BY <3>1
  <2>. QED BY <1>1, <2>1, <2>2 DEF Chronology
<1>4. FirstOwner'
  <2>1. Owner' = Owner /\ Auctioned(noun)' = Auctioned(noun)
    BY DEF Owner, Auctioned, GivenToNounders, GivenToCouncil
  <2>2. SoughtStart' = SoughtStart
    BY SoughtIs
  <2>. QED BY <1>1, <2>1, <2>2 DEF FirstOwner
<1>. QED BY <1>2, <1>3, <1>4 DEF FeedInv

\* Another proposal is made.
LEMMA ProposeKeeps == ASSUME FeedInv, ProposeBesides PROVE FeedInv'
<1>. DEFINE new == [created |-> txBlock + 1, end |-> (txBlock + 1) + VotingBlocks,
                    vote |-> 0, canceled |-> FALSE]
<1>1. /\ txBlock' = txBlock + 1 /\ proposed' = Append(proposed, new)
      /\ UNCHANGED <<noun, transfers, delegated, nextStart, laterStart, auctionsSeen, listed>>
  BY DEF ProposeBesides, Transact, feedQueries
<1>2. FeedTyped /\ Chronology /\ txBlock \in Nat \ {0} /\ nextStart \in 0 .. txBlock
  BY DEF FeedInv, FeedTyped
<1>3. new \in ProposedType
  BY <1>2, FeedConstants DEF ProposedType
<1>4. /\ new.created = txBlock + 1 /\ new.end = (txBlock + 1) + VotingBlocks /\ new.vote = 0
  OBVIOUS
<1>. HIDE DEF new
<1>5. PICK n \in Nat : n = Len(proposed)
  BY <1>2 DEF FeedTyped
<1>6. /\ proposed' \in Seq(ProposedType) /\ Len(proposed') = n + 1 /\ proposed'[n + 1] = new
      /\ \A i \in 1 .. n : proposed'[i] = proposed[i]
  BY <1>1, <1>2, <1>3, <1>5 DEF FeedTyped
<1>7. ASSUME NEW i \in 1 .. Len(proposed')
      PROVE  /\ proposed'[i].created <= txBlock' /\ proposed'[i].created # nextStart
             /\ proposed'[i].created <= proposed'[i].end
             /\ proposed'[i].vote # 0 => proposed'[i].created <= proposed'[i].vote
  <2>1. CASE i = n + 1
    BY <1>1, <1>2, <1>4, <1>6, <2>1, FeedConstants
  <2>2. CASE i # n + 1
    <3>1. i \in 1 .. n
      BY <1>6, <2>2
    <3>2. proposed[i] \in ProposedType
      BY <1>2, <1>5, <3>1 DEF FeedTyped
    <3>3. proposed[i].created \in Nat /\ proposed[i].created <= txBlock
      BY <1>2, <1>5, <3>1, <3>2 DEF Chronology, ProposedType
    <3>. QED BY <1>1, <1>2, <1>5, <1>6, <3>1, <3>3 DEF Chronology
  <2>. QED BY <2>1, <2>2
<1>. QED BY <1>1, <1>5, <1>6, <1>7, ProposedKeeps

\* The noun's owner votes on one, or one is canceled.
LEMMA BallotKeeps ==
  ASSUME FeedInv, NEW i \in DOMAIN proposed, VoteWithNoun(i) \/ CancelProposed(i)
  PROVE  FeedInv'
<1>1. /\ txBlock' = txBlock + 1
      /\ \/ proposed' = [proposed EXCEPT ![i].vote = txBlock']
         \/ proposed' = [proposed EXCEPT ![i].canceled = TRUE]
      /\ UNCHANGED <<noun, transfers, delegated, nextStart, laterStart, auctionsSeen, listed>>
  BY DEF VoteWithNoun, CancelProposed, Transact, feedQueries
<1>2. FeedTyped /\ Chronology /\ txBlock \in Nat \ {0}
  BY DEF FeedInv, FeedTyped
<1>3. PICK n \in Nat : n = Len(proposed)
  BY <1>2 DEF FeedTyped
<1>4. proposed \in [1 .. n -> ProposedType] /\ i \in 1 .. n
  BY <1>2, <1>3 DEF FeedTyped
<1>5. proposed' \in [1 .. n -> ProposedType]
  <2>1. [proposed[i] EXCEPT !.vote = txBlock'] \in ProposedType
        /\ [proposed[i] EXCEPT !.canceled = TRUE] \in ProposedType
    <3>1. proposed[i] \in ProposedType /\ txBlock' \in Nat
      BY <1>1, <1>2, <1>4
    <3>2. \A p \in ProposedType : [p EXCEPT !.vote = txBlock'] \in ProposedType
      BY <3>1 DEF ProposedType
    <3>3. \A p \in ProposedType : [p EXCEPT !.canceled = TRUE] \in ProposedType
      BY DEF ProposedType
    <3>. QED BY <3>1, <3>2, <3>3
  <2>2. \/ proposed' = [proposed EXCEPT ![i] = [proposed[i] EXCEPT !.vote = txBlock']]
        \/ proposed' = [proposed EXCEPT ![i] = [proposed[i] EXCEPT !.canceled = TRUE]]
    BY <1>1
  <2>. QED BY <1>4, <2>1, <2>2
<1>6. proposed' \in Seq(ProposedType) /\ Len(proposed') = n
  BY <1>5, SeqDef, LenProperties, ElementOfSeq
<1>7. ASSUME NEW j \in 1 .. n
      PROVE  /\ proposed'[j].created = proposed[j].created /\ proposed'[j].end = proposed[j].end
             /\ proposed'[j].vote \in {proposed[j].vote, txBlock + 1}
  <2>1. proposed[j] \in ProposedType
    BY <1>4
  <2>. QED BY <1>1, <1>4, <2>1 DEF ProposedType
<1>8. ASSUME NEW j \in 1 .. n
      PROVE  /\ proposed'[j].created <= txBlock' /\ proposed'[j].created # nextStart
             /\ proposed'[j].created <= proposed'[j].end
             /\ proposed'[j].vote # 0 => proposed'[j].created <= proposed'[j].vote
  <2>1. proposed[j] \in ProposedType
    BY <1>4
  <2>2. /\ proposed[j].created \in Nat /\ proposed[j].created <= txBlock
        /\ proposed[j].created # nextStart /\ proposed[j].created <= proposed[j].end
        /\ proposed[j].vote # 0 => proposed[j].created <= proposed[j].vote
    BY <1>2, <1>3, <2>1 DEF Chronology, ProposedType
  <2>. QED BY <1>1, <1>2, <1>7, <2>2
<1>. QED BY <1>1, <1>3, <1>6, <1>8, ProposedKeeps

\* Nothing happens to it, only the page asks.
LEMMA AskingKeeps ==
  ASSUME FeedInv, UNCHANGED feedChain,
         auctionsSeen' \in BOOLEAN, auctionsSeen' => SoughtStart # 0,
         listed' \in {listed, Len(proposed)}
  PROVE  FeedInv'
<1>1. FeedTyped /\ Chronology /\ FirstOwner
      /\ UNCHANGED <<noun, txBlock, transfers, delegated, proposed, nextStart, laterStart>>
  BY DEF FeedInv, feedChain
<1>2. FeedTyped'
  <2>1. Len(proposed) \in Nat
    BY <1>1 DEF FeedTyped
  <2>2. listed' \in -1 .. Len(proposed')
    BY <1>1, <2>1 DEF FeedTyped
  <2>. QED BY <1>1, <2>2 DEF FeedTyped, TransferType, ProposedType
<1>3. Chronology'
  BY <1>1 DEF Chronology
<1>4. FirstOwner'
  <2>1. Owner' = Owner /\ Auctioned(noun)' = Auctioned(noun)
    BY <1>1 DEF Owner, Auctioned, GivenToNounders, GivenToCouncil
  <2>2. SoughtStart' = SoughtStart
    BY <1>1, SoughtIs
  <2>. QED BY <1>1, <2>1, <2>2 DEF FirstOwner
<1>. QED BY <1>2, <1>3, <1>4 DEF FeedInv

\* Whatever happens, the history is one.
LEMMA FeedNextInv == FeedInv /\ [FeedNext]_feedVars => FeedInv'
<1>. SUFFICES ASSUME FeedInv, [FeedNext]_feedVars PROVE FeedInv'
  OBVIOUS
<1>1. ASSUME NEW to \in Holders, SettleNoun(to) \/ TransferNoun(to) PROVE FeedInv'
  BY <1>1, MovesKeep
<1>2. ASSUME DelegateNoun PROVE FeedInv'
  BY <1>2, DelegateKeeps
<1>3. ASSUME ProposeBesides PROVE FeedInv'
  BY <1>3, ProposeKeeps
<1>4. ASSUME NEW i \in DOMAIN proposed, VoteWithNoun(i) \/ CancelProposed(i) PROVE FeedInv'
  BY <1>4, BallotKeeps
<1>5. auctionsSeen \in BOOLEAN /\ (auctionsSeen => SoughtStart # 0)
  BY DEF FeedInv, FeedTyped, FirstOwner
<1>6. ASSUME LoadAuctions PROVE FeedInv'
  <2>1. UNCHANGED feedChain /\ listed' = listed /\ auctionsSeen' = (SoughtStart # 0)
    BY <1>6 DEF LoadAuctions
  <2>2. auctionsSeen' \in BOOLEAN /\ (auctionsSeen' => SoughtStart # 0)
    BY <2>1
  <2>. QED BY <2>1, <2>2, AskingKeeps
<1>7. ASSUME ListProposals PROVE FeedInv'
  BY <1>5, <1>7, AskingKeeps DEF ListProposals
<1>8. ASSUME ListTimestamps PROVE FeedInv'
  BY <1>5, <1>8, AskingKeeps DEF ListTimestamps
<1>9. ASSUME UNCHANGED feedVars PROVE FeedInv'
  BY <1>5, <1>9, AskingKeeps DEF feedVars, feedQueries
<1>10. ASSUME SettleNextNoun PROVE FeedInv'
  BY <1>10, SettleNextKeeps
<1>. QED BY <1>1, <1>2, <1>3, <1>4, <1>6, <1>7, <1>8, <1>9, <1>10 DEF FeedNext

-------------------------------------------------------------------------------
(* What the page makes of it.                                              *)

EventKinds == {"vote", "transfer", "delegation", "win"}
HistoryEvent == [kind : EventKinds, block : Nat, about : Nat \cup Holders \cup {"house", "founders"}]

\* which of two events of a list is shown first
Later(list) ==
  {p \in (DOMAIN list) \X (DOMAIN list) :
     \/ list[p[1]].block > list[p[2]].block
     \/ list[p[1]].block = list[p[2]].block /\ p[1] > p[2]}

\* Sorted, the events up to a block are the last ones.
LEMMA SortedEvents ==
  ASSUME NEW n \in Nat, NEW list \in [1 .. n -> HistoryEvent], NEW start \in Nat
  PROVE  LET old    == Cardinality({k \in 1 .. n : list[k].block <= start})
             latest == [i \in DOMAIN list |-> list[Lined(DOMAIN list, Later(list))[i]]]
         IN  /\ old \in 0 .. n /\ latest \in [1 .. n -> HistoryEvent]
             /\ \A i \in 1 .. n : latest[i].block > start <=> i <= n - old
             /\ \A i, j \in 1 .. n : i < j => latest[i].block >= latest[j].block
             /\ {latest[i] : i \in 1 .. n - old}
                  = {list[k] : k \in {j \in 1 .. n : list[j].block > start}}
<1>. DEFINE S == 1 .. n
            C == {k \in S : list[k].block <= start}
            old == Cardinality(C)
            line == Lined(S, Later(list))
            latest == [i \in S |-> list[line[i]]]
<1>1. DOMAIN list = S /\ \A k \in S : list[k] \in HistoryEvent /\ list[k].block \in Nat
  <2>1. \A k \in S : list[k] \in HistoryEvent
    OBVIOUS
  <2>. QED BY <2>1 DEF HistoryEvent
<1>2. \A i, j \in S : <<i, j>> \in Later(list) <=>
        (list[i].block > list[j].block \/ (list[i].block = list[j].block /\ i > j))
  BY <1>1 DEF Later
<1>3. Orders(Later(list), S)
  <2>1. \A i \in S : <<i, i>> \notin Later(list)
    BY <1>1, <1>2
  <2>2. \A i, j \in S : i # j => <<i, j>> \in Later(list) \/ <<j, i>> \in Later(list)
    BY <1>1, <1>2
  <2>3. \A i, j, k \in S :
          <<i, j>> \in Later(list) /\ <<j, k>> \in Later(list) => <<i, k>> \in Later(list)
    BY <1>1, <1>2
  <2>. HIDE DEF S
  <2>. QED BY <2>1, <2>2, <2>3 DEF Orders
<1>4. IsFiniteSet(S) /\ Cardinality(S) = n
  BY FS_Interval
<1>5. /\ line \in [1 .. n -> S] /\ \A i \in S : \E k \in 1 .. n : line[k] = i
      /\ \A k, l \in 1 .. n : k < l => <<line[k], line[l]>> \in Later(list)
      /\ \A k, l \in 1 .. n : line[k] = line[l] => k = l
  <2>. HIDE DEF S
  <2>1. /\ line \in [1 .. Cardinality(S) -> S]
        /\ \A i \in S : \E k \in 1 .. Cardinality(S) : line[k] = i
        /\ \A k, l \in 1 .. Cardinality(S) : k < l => <<line[k], line[l]>> \in Later(list)
        /\ \A k, l \in 1 .. Cardinality(S) : line[k] = line[l] => k = l
    BY <1>3, <1>4, LinedIsLine
  <2>. HIDE DEF line
  <2>. QED BY <1>4, <2>1
<1>6. line \in [1 .. n -> 1 .. n]
  BY <1>5
<1>. HIDE DEF line
<1>7. ASSUME NEW k \in 1 .. n, NEW l \in 1 .. n, k < l
      PROVE  list[line[k]].block >= list[line[l]].block
  <2>1. line[k] \in S /\ line[l] \in S /\ <<line[k], line[l]>> \in Later(list)
    BY <1>5, <1>7
  <2>2. PICK x \in S : x = line[k]
    BY <2>1
  <2>3. PICK y \in S : y = line[l]
    BY <2>1
  <2>4. list[x].block \in Nat /\ list[y].block \in Nat /\ <<x, y>> \in Later(list)
    BY <1>1, <2>1, <2>2, <2>3
  <2>5. list[x].block >= list[y].block
    BY <1>2, <2>4
  <2>. QED BY <2>2, <2>3, <2>5
<1>8. ASSUME NEW k \in 1 .. n, NEW l \in 1 .. n, k < l, line[k] \in C PROVE line[l] \in C
  <2>1. line[k] \in S /\ line[l] \in S
    BY <1>6
  <2>. QED BY <1>1, <1>7, <1>8, <2>1
<1>9. old \in 0 .. n /\ \A k \in 1 .. n : line[k] \in C <=> k > n - old
  <2>1. C \in SUBSET (1 .. n)
    OBVIOUS
  <2>. HIDE DEF C
  <2>. QED BY <1>5, <1>6, <1>8, <2>1, LastOnes
<1>10. latest \in [1 .. n -> HistoryEvent]
  BY <1>1, <1>6
<1>11. ASSUME NEW i \in 1 .. n PROVE latest[i].block > start <=> i <= n - old
  <2>1. line[i] \in S /\ latest[i] = list[line[i]]
    BY <1>6
  <2>2. line[i] \in C <=> i > n - old
    BY <1>9
  <2>. HIDE DEF old, latest
  <2>3. line[i] \in C <=> ~ (list[line[i]].block > start)
    BY <1>1, <2>1
  <2>. QED BY <1>9, <2>1, <2>2, <2>3
<1>12. \A i, j \in 1 .. n : i < j => latest[i].block >= latest[j].block
  BY <1>7
<1>13. {latest[i] : i \in 1 .. n - old} = {list[k] : k \in {j \in 1 .. n : list[j].block > start}}
  <2>. HIDE DEF old
  <2>1. ASSUME NEW i \in 1 .. n - old
        PROVE  \E k \in {j \in 1 .. n : list[j].block > start} : latest[i] = list[k]
    <3>1. i \in 1 .. n /\ line[i] \in 1 .. n /\ latest[i] = list[line[i]]
      BY <1>6, <1>9
    <3>2. list[line[i]].block > start
      BY <1>9, <1>11, <3>1
    <3>. QED BY <3>1, <3>2
  <2>2. ASSUME NEW k \in 1 .. n, list[k].block > start
        PROVE  \E i \in 1 .. n - old : latest[i] = list[k]
    <3>1. PICK i \in 1 .. n : line[i] = k
      BY <1>5
    <3>2. latest[i] = list[k]
      BY <3>1
    <3>3. i <= n - old
      BY <1>11, <2>2, <3>2
    <3>. QED BY <1>9, <3>2, <3>3
  <2>. HIDE DEF latest
  <2>3. {latest[i] : i \in 1 .. n - old} \subseteq {list[k] : k \in {j \in 1 .. n : list[j].block > start}}
    BY <2>1
  <2>4. {list[k] : k \in {j \in 1 .. n : list[j].block > start}} \subseteq {latest[i] : i \in 1 .. n - old}
    BY <2>2
  <2>. QED BY <2>3, <2>4
<1>14. /\ old = Cardinality({k \in 1 .. n : list[k].block <= start})
       /\ latest = [i \in DOMAIN list |-> list[Lined(DOMAIN list, Later(list))[i]]]
  BY <1>1 DEF line
<1>. HIDE DEF old, latest
<1>. QED BY <1>9, <1>10, <1>11, <1>12, <1>13, <1>14

\* Two lists in a row.
LEMMA TwoLists ==
  ASSUME NEW E, NEW A \in Seq(E), NEW B \in Seq(E)
  PROVE  /\ A \o B \in Seq(E) /\ Len(A \o B) = Len(A) + Len(B)
         /\ \A k \in 1 .. Len(A) : (A \o B)[k] = A[k]
         /\ \A k \in 1 .. Len(B) : (A \o B)[Len(A) + k] = B[k]
<1>1. /\ A \o B \in Seq(E) /\ Len(A \o B) = Len(A) + Len(B)
      /\ \A i \in 1 .. Len(A) + Len(B) :
           (A \o B)[i] = IF i <= Len(A) THEN A[i] ELSE B[i - Len(A)]
  BY ConcatProperties
<1>2. Len(A) \in Nat /\ Len(B) \in Nat
  BY LenProperties
<1>3. ASSUME NEW k \in 1 .. Len(A) PROVE (A \o B)[k] = A[k]
  <2>1. k \in 1 .. Len(A) + Len(B) /\ k <= Len(A)
    BY <1>2
  <2>. QED BY <1>1, <2>1
<1>4. ASSUME NEW k \in 1 .. Len(B) PROVE (A \o B)[Len(A) + k] = B[k]
  <2>1. /\ Len(A) + k \in 1 .. Len(A) + Len(B) /\ ~ (Len(A) + k <= Len(A))
        /\ (Len(A) + k) - Len(A) = k
    BY <1>2
  <2>. QED BY <1>1, <2>1
<1>. QED BY <1>1, <1>3, <1>4

\* Three lists in a row.
LEMMA ThreeLists ==
  ASSUME NEW E, NEW A \in Seq(E), NEW B \in Seq(E), NEW D \in Seq(E)
  PROVE  LET a == Len(A)
             b == Len(B)
             all == A \o B \o D
         IN  /\ all \in Seq(E) /\ Len(all) = (a + b) + Len(D)
             /\ \A k \in 1 .. a : all[k] = A[k]
             /\ \A k \in 1 .. b : all[a + k] = B[k]
             /\ \A k \in 1 .. Len(D) : all[(a + b) + k] = D[k]
<1>. DEFINE a == Len(A)
            b == Len(B)
            AB == A \o B
            all == AB \o D
<1>1. a \in Nat /\ b \in Nat /\ Len(D) \in Nat
  BY LenProperties
<1>2. /\ AB \in Seq(E) /\ Len(AB) = a + b
      /\ \A k \in 1 .. a : AB[k] = A[k]
      /\ \A k \in 1 .. b : AB[a + k] = B[k]
  BY TwoLists
<1>. HIDE DEF AB, a, b
<1>3. /\ all \in Seq(E) /\ Len(all) = Len(AB) + Len(D)
      /\ \A k \in 1 .. Len(AB) : all[k] = AB[k]
      /\ \A k \in 1 .. Len(D) : all[Len(AB) + k] = D[k]
  <2>1. AB \in Seq(E)
    BY <1>2
  <2>. QED BY ONLY E = E, <2>1, D \in Seq(E), TwoLists
<1>. HIDE DEF all
<1>4. \A k \in 1 .. a : all[k] = A[k]
  BY <1>1, <1>2, <1>3
<1>5. \A k \in 1 .. b : all[a + k] = B[k]
  <2>1. ASSUME NEW k \in 1 .. b PROVE all[a + k] = B[k]
    <3>1. a + k \in 1 .. Len(AB)
      BY <1>1, <1>2
    <3>. QED BY <1>2, <1>3, <3>1
  <2>. QED BY <2>1
<1>6. \A k \in 1 .. Len(D) : all[(a + b) + k] = D[k]
  BY <1>2, <1>3
<1>7. all \in Seq(E) /\ Len(all) = (a + b) + Len(D)
  BY <1>2, <1>3
<1>. QED BY <1>4, <1>5, <1>6, <1>7 DEF all, AB, a, b

\* The proposals it could vote on.
LEMMA VotesShown ==
  ASSUME FeedInv, ~FeedLoading, auctionsSeen, RuleHolds
  PROVE  /\ VoteEvents \in Seq(HistoryEvent) /\ Len(VoteEvents) \in Nat
         /\ DOMAIN VoteEvents = 1 .. Len(VoteEvents)
         /\ \A k \in 1 .. Len(VoteEvents) :
              /\ VoteEvents[k].kind = "vote"
              /\ VoteEvents[k].block > nextStart /\ VoteEvents[k].about >= nextStart
<1>. DEFINE places == {i \in 1 .. listed : /\ proposed[i].created >= NounCanVoteTimestamp
                                           /\ ~Canceled(proposed[i])}
            kept == Picked(proposed, places)
<1>1. FeedTyped /\ Chronology /\ nextStart \in Nat /\ NounCanVoteTimestamp = nextStart
  BY SoughtIsNext DEF FeedInv, FeedTyped
<1>2. listed \in Nat /\ listed <= Len(proposed) /\ Len(proposed) \in Nat
  BY <1>1 DEF FeedTyped, FeedLoading
<1>3. places \in SUBSET (1 .. listed)
  OBVIOUS
<1>4. ASSUME NEW i \in places
      PROVE  /\ proposed[i] \in ProposedType
             /\ proposed[i].created > nextStart /\ proposed[i].end > nextStart
             /\ proposed[i].vote # 0 => proposed[i].vote > nextStart
  <2>1. i \in 1 .. Len(proposed) /\ proposed[i].created >= nextStart
    BY <1>1, <1>2
  <2>2. proposed[i] \in ProposedType
    BY <1>1, <2>1 DEF FeedTyped
  <2>3. /\ proposed[i].created # nextStart /\ proposed[i].created <= proposed[i].end
        /\ proposed[i].vote # 0 => proposed[i].created <= proposed[i].vote
    BY <1>1, <2>1 DEF Chronology
  <2>. QED BY <1>1, <2>1, <2>2, <2>3 DEF ProposedType
<1>5. PICK n \in Nat : n = Cardinality(places)
  <2>. HIDE DEF places
  <2>. QED BY <1>2, <1>3, PickedIs
<1>6. /\ DOMAIN kept = 1 .. n
      /\ \A k \in 1 .. n : \E i \in places : kept[k] = proposed[i]
  <2>. HIDE DEF places
  <2>1. /\ DOMAIN kept = 1 .. Cardinality(places)
        /\ \A k \in 1 .. Cardinality(places) : \E i \in places : kept[k] = proposed[i]
    BY <1>2, <1>3, PickedIs
  <2>. HIDE DEF kept
  <2>. QED BY <1>5, <2>1
<1>7. VoteEvents =
        [i \in DOMAIN kept |->
           [kind |-> "vote", block |-> IF kept[i].vote # 0 THEN kept[i].vote ELSE kept[i].end,
            about |-> kept[i].created]]
  BY DEF VoteEvents
<1>. HIDE DEF kept
<1>8. ASSUME NEW k \in 1 .. n
      PROVE  /\ VoteEvents[k] \in HistoryEvent /\ VoteEvents[k].kind = "vote"
             /\ VoteEvents[k].block > nextStart /\ VoteEvents[k].about >= nextStart
  <2>1. PICK i \in places : kept[k] = proposed[i]
    BY <1>6
  <2>2. PICK p \in ProposedType : p = kept[k]
    BY <1>4, <2>1
  <2>3. /\ p.created > nextStart /\ p.end > nextStart /\ (p.vote # 0 => p.vote > nextStart)
        /\ p.created \in Nat /\ p.end \in Nat /\ p.vote \in Nat
    <3>1. p = proposed[i]
      BY <2>1, <2>2
    <3>. QED BY <1>4, <3>1 DEF ProposedType
  <2>4. VoteEvents[k] = [kind |-> "vote", block |-> IF p.vote # 0 THEN p.vote ELSE p.end,
                         about |-> p.created]
    BY <1>6, <1>7, <2>2
  <2>5. "vote" \in EventKinds /\ (IF p.vote # 0 THEN p.vote ELSE p.end) \in Nat
        /\ (IF p.vote # 0 THEN p.vote ELSE p.end) > nextStart
    BY <2>3 DEF EventKinds
  <2>6. VoteEvents[k] \in HistoryEvent
    BY <2>3, <2>4, <2>5 DEF HistoryEvent
  <2>. QED BY <1>1, <2>3, <2>4, <2>5, <2>6
<1>9. VoteEvents \in [1 .. n -> HistoryEvent]
  BY <1>6, <1>7, <1>8
<1>10. VoteEvents \in Seq(HistoryEvent) /\ Len(VoteEvents) = n /\ DOMAIN VoteEvents = 1 .. n
  BY <1>9, SeqDef, LenProperties
<1>. QED BY <1>8, <1>10

\* Its transfers and its delegations.
LEMMA RecordsShown ==
  ASSUME FeedInv
  PROVE  /\ TransferEvents \in Seq(HistoryEvent) /\ Len(TransferEvents) = Len(transfers)
         /\ DOMAIN TransferEvents = 1 .. Len(transfers)
         /\ \A k \in 1 .. Len(transfers) :
              TransferEvents[k].kind = "transfer" /\ TransferEvents[k].block = transfers[k].block
         /\ DelegationEvents \in Seq(HistoryEvent) /\ Len(DelegationEvents) = Len(delegated)
         /\ DOMAIN DelegationEvents = 1 .. Len(delegated)
         /\ \A k \in 1 .. Len(delegated) :
              DelegationEvents[k].kind = "delegation" /\ DelegationEvents[k].block = delegated[k]
<1>1. /\ \A k \in 1 .. Len(transfers) : transfers[k] \in TransferType
      /\ DOMAIN transfers = 1 .. Len(transfers) /\ Len(transfers) \in Nat
      /\ \A k \in 1 .. Len(delegated) : delegated[k] \in Nat
      /\ DOMAIN delegated = 1 .. Len(delegated) /\ Len(delegated) \in Nat
  BY DEF FeedInv, FeedTyped
<1>2. TransferEvents \in [1 .. Len(transfers) -> HistoryEvent]
  <2>1. ASSUME NEW k \in 1 .. Len(transfers)
        PROVE  [kind |-> "transfer", block |-> transfers[k].block, about |-> transfers[k].to] \in HistoryEvent
    <3>1. transfers[k] \in TransferType
      BY <1>1
    <3>. QED BY <3>1 DEF HistoryEvent, EventKinds, TransferType
  <2>. QED BY <1>1, <2>1 DEF TransferEvents
<1>3. DelegationEvents \in [1 .. Len(delegated) -> HistoryEvent]
  <2>1. ASSUME NEW k \in 1 .. Len(delegated)
        PROVE  [kind |-> "delegation", block |-> delegated[k], about |-> 0] \in HistoryEvent
    <3>1. delegated[k] \in Nat
      BY <1>1
    <3>. QED BY <3>1 DEF HistoryEvent, EventKinds
  <2>. QED BY <1>1, <2>1 DEF DelegationEvents
<1>4. \A k \in 1 .. Len(transfers) :
        TransferEvents[k].kind = "transfer" /\ TransferEvents[k].block = transfers[k].block
  BY <1>1 DEF TransferEvents
<1>5. \A k \in 1 .. Len(delegated) :
        DelegationEvents[k].kind = "delegation" /\ DelegationEvents[k].block = delegated[k]
  BY <1>1 DEF DelegationEvents
<1>6. TransferEvents \in Seq(HistoryEvent) /\ Len(TransferEvents) = Len(transfers)
      /\ DOMAIN TransferEvents = 1 .. Len(transfers)
  BY <1>1, <1>2, SeqDef, LenProperties
<1>7. DelegationEvents \in Seq(HistoryEvent) /\ Len(DelegationEvents) = Len(delegated)
      /\ DOMAIN DelegationEvents = 1 .. Len(delegated)
  BY <1>1, <1>3, SeqDef, LenProperties
<1>. QED BY <1>4, <1>5, <1>6, <1>7

\* Up to the first owner there are as many transfers as delegations.
LEMMA BirthRecords ==
  ASSUME FeedInv, nextStart # 0, RuleHolds,
         NEW w, w = IF IsNounders(noun) THEN 1 ELSE 2
  PROVE  /\ w \in {1, 2} /\ w <= Len(transfers) /\ w <= Len(delegated)
         /\ transfers[w].block = nextStart
         /\ \A k \in 1 .. Len(transfers) : transfers[k].block <= nextStart <=> k <= w
         /\ \A k \in 1 .. Len(delegated) : delegated[k] <= nextStart <=> k <= w
<1>1. FeedTyped /\ Chronology /\ FirstOwner /\ nextStart \in Nat \ {0} /\ w \in {1, 2}
  BY DEF FeedInv, FeedTyped
<1>2. PICK t \in Nat : t = Len(transfers)
  BY <1>1 DEF FeedTyped
<1>3. PICK d \in Nat : d = Len(delegated)
  BY <1>1 DEF FeedTyped
<1>4. /\ w <= t /\ w <= d /\ transfers[w].block = nextStart /\ delegated[w] = nextStart
      /\ transfers[1].block = 1 /\ delegated[1] = 1
  <2>1. CASE IsNounders(noun)
    <3>1. nextStart = 1 /\ w = 1
      BY <1>1, <2>1 DEF FirstOwner, Auctioned, RuleHolds
    <3>. QED BY <1>1, <1>2, <1>3, <3>1 DEF Chronology
  <2>2. CASE ~ IsNounders(noun)
    <3>1. Auctioned(noun) /\ w = 2
      BY <1>1, <2>2 DEF Auctioned, RuleHolds, GivenToNounders, IsNounders
    <3>2. /\ Len(transfers) >= 2 /\ transfers[2].block = nextStart
          /\ Len(delegated) >= 2 /\ delegated[2] = nextStart
      BY <1>1, <3>1 DEF FirstOwner
    <3>3. transfers[1].block = 1 /\ delegated[1] = 1
      BY <1>1 DEF Chronology
    <3>. QED BY <1>2, <1>3, <3>1, <3>2, <3>3
  <2>. QED BY <2>1, <2>2
<1>5. ASSUME NEW k \in 1 .. t PROVE transfers[k].block <= nextStart <=> k <= w
  <2>1. w \in 1 .. t /\ transfers[k].block \in Nat /\ transfers[w].block \in Nat
    <3>1. w \in 1 .. t
      BY <1>1, <1>4
    <3>2. transfers[k] \in TransferType
      BY <1>1, <1>2 DEF FeedTyped
    <3>. QED BY <1>1, <1>4, <3>1, <3>2 DEF TransferType
  <2>2. k < w => transfers[k].block < transfers[w].block
    BY <1>1, <1>2, <2>1 DEF Chronology
  <2>3. w < k => transfers[w].block < transfers[k].block
    BY <1>1, <1>2, <2>1 DEF Chronology
  <2>. QED BY <1>1, <1>4, <2>1, <2>2, <2>3
<1>6. ASSUME NEW k \in 1 .. d PROVE delegated[k] <= nextStart <=> k <= w
  <2>1. w \in 1 .. d /\ delegated[k] \in Nat /\ delegated[w] \in Nat
    BY <1>1, <1>3, <1>4 DEF FeedTyped
  <2>2. k < w => delegated[k] < delegated[w]
    BY <1>1, <1>3, <2>1 DEF Chronology
  <2>3. w < k => delegated[w] < delegated[k]
    BY <1>1, <1>3, <2>1 DEF Chronology
  <2>. QED BY <1>1, <1>4, <2>1, <2>2, <2>3
<1>. QED BY <1>1, <1>2, <1>3, <1>4, <1>5, <1>6

\* The events that are cut off are those of its birth and of its auction.
LEMMA OldEvents ==
  ASSUME FeedInv, ~FeedLoading, auctionsSeen, RuleHolds
  PROVE  LET all == VoteEvents \o TransferEvents \o DelegationEvents
         IN  Cardinality({k \in 1 .. Len(all) : all[k].block <= nextStart}) = CutOff(noun)
<1>. DEFINE all == VoteEvents \o TransferEvents \o DelegationEvents
<1>1. PICK w : w = IF IsNounders(noun) THEN 1 ELSE 2
  OBVIOUS
<1>2. nextStart # 0 /\ nextStart \in Nat
  BY SoughtIsNext DEF FeedInv, FeedTyped
<1>3. PICK a \in Nat : a = Len(VoteEvents)
  BY VotesShown
<1>4. PICK b \in Nat : b = Len(TransferEvents)
  BY RecordsShown, LenProperties
<1>5. PICK c \in Nat : c = Len(DelegationEvents)
  BY RecordsShown, LenProperties
<1>6. /\ all \in Seq(HistoryEvent) /\ Len(all) = (a + b) + c
      /\ \A k \in 1 .. a : all[k] = VoteEvents[k]
      /\ \A k \in 1 .. b : all[a + k] = TransferEvents[k]
      /\ \A k \in 1 .. c : all[(a + b) + k] = DelegationEvents[k]
  <2>1. VoteEvents \in Seq(HistoryEvent) /\ TransferEvents \in Seq(HistoryEvent)
        /\ DelegationEvents \in Seq(HistoryEvent)
    BY VotesShown, RecordsShown
  <2>. QED BY <1>3, <1>4, <1>5, <2>1, ThreeLists
<1>. HIDE DEF all
<1>7. /\ w \in {1, 2} /\ w <= b /\ w <= c
      /\ \A k \in 1 .. b : TransferEvents[k].block <= nextStart <=> k <= w
      /\ \A k \in 1 .. c : DelegationEvents[k].block <= nextStart <=> k <= w
  BY <1>1, <1>2, <1>4, <1>5, BirthRecords, RecordsShown
<1>8. \A k \in 1 .. a : ~ (VoteEvents[k].block <= nextStart)
  <2>1. ASSUME NEW k \in 1 .. a PROVE ~ (VoteEvents[k].block <= nextStart)
    <3>1. VoteEvents[k] \in HistoryEvent /\ VoteEvents[k].block > nextStart
      BY <1>3, VotesShown
    <3>. QED BY <1>2, <3>1 DEF HistoryEvent
  <2>. QED BY <2>1
<1>. DEFINE C == {k \in 1 .. Len(all) : all[k].block <= nextStart}
            C1 == a + 1 .. a + w
            C2 == (a + b) + 1 .. (a + b) + w
<1>9. ASSUME NEW k \in 1 .. (a + b) + c PROVE all[k].block <= nextStart <=> k \in C1 \cup C2
  <2>1. CASE k <= a
    <3>1. k \in 1 .. a /\ k \notin C1 \cup C2
      BY <2>1
    <3>. QED BY <1>6, <1>8, <3>1
  <2>2. CASE a < k /\ k <= a + b
    <3>1. PICK j \in 1 .. b : k = a + j
      <4>1. k - a \in 1 .. b /\ k = a + (k - a)
        BY <2>2
      <4>. QED BY <4>1
    <3>2. k \in C1 \cup C2 <=> j <= w
      BY <1>7, <3>1
    <3>. QED BY <1>6, <1>7, <3>1, <3>2
  <2>3. CASE a + b < k
    <3>1. PICK j \in 1 .. c : k = (a + b) + j
      <4>1. k - (a + b) \in 1 .. c /\ k = (a + b) + (k - (a + b))
        BY <2>3
      <4>. QED BY <4>1
    <3>2. k \in C1 \cup C2 <=> j <= w
      BY <1>7, <3>1
    <3>. QED BY <1>6, <1>7, <3>1, <3>2
  <2>. QED BY <2>1, <2>2, <2>3
<1>10. C = C1 \cup C2
  <2>1. C1 \cup C2 \subseteq 1 .. (a + b) + c
    BY <1>7
  <2>. HIDE DEF C1, C2
  <2>. QED BY <1>6, <1>9, <2>1
<1>11. IsFiniteSet(C1) /\ Cardinality(C1) = w
  BY <1>7, FS_Interval
<1>12. IsFiniteSet(C2) /\ Cardinality(C2) = w
  <2>1. (a + b) + 1 \in Int /\ (a + b) + w \in Int
    BY <1>7
  <2>2. IsFiniteSet(C2) /\ Cardinality(C2) =
          IF (a + b) + 1 > (a + b) + w THEN 0 ELSE ((a + b) + w) - ((a + b) + 1) + 1
    BY <2>1, FS_Interval
  <2>. QED BY <1>7, <2>2
<1>13. C1 \cap C2 = {}
  BY <1>7
<1>14. Cardinality(C1 \cup C2) = w + w
  <2>. HIDE DEF C1, C2
  <2>1. Cardinality(C1 \cup C2)
          = Cardinality(C1) + Cardinality(C2) - Cardinality(C1 \cap C2)
    BY <1>11, <1>12, FS_Union
  <2>2. Cardinality(C1 \cap C2) = 0
    BY <1>13, FS_EmptySet
  <2>. QED BY <1>7, <1>11, <1>12, <2>1, <2>2
<1>15. w + w = CutOff(noun)
  BY <1>1 DEF CutOff
<1>. QED BY <1>10, <1>14, <1>15 DEF all

\* The events of the noun, newest first, without the old ones.
LEMMA HistoryShown ==
  ASSUME FeedInv, ~FeedLoading, auctionsSeen, RuleHolds
  PROVE  \E m \in Nat, latest \in Seq(HistoryEvent), win \in HistoryEvent :
           /\ Len(latest) = m /\ NounActivity = latest \o <<win>>
           /\ win.kind = "win" /\ win.block = nextStart
           /\ {latest[i] : i \in 1 .. m}
                = {VoteEvents[i] : i \in DOMAIN VoteEvents}
                    \union Since(TransferEvents, nextStart) \union Since(DelegationEvents, nextStart)
           /\ \A i \in 1 .. m : latest[i].block > nextStart
           /\ \A i, j \in 1 .. m : i < j => latest[i].block >= latest[j].block
<1>. DEFINE all == VoteEvents \o TransferEvents \o DelegationEvents
            old == Cardinality({k \in 1 .. Len(all) : all[k].block <= nextStart})
            sorted == [i \in DOMAIN all |-> all[Lined(DOMAIN all, Later(all))[i]]]
<1>1. nextStart # 0 /\ nextStart \in Nat
  BY SoughtIsNext DEF FeedInv, FeedTyped
<1>2. PICK a \in Nat : a = Len(VoteEvents)
  BY VotesShown
<1>3. PICK b \in Nat : b = Len(TransferEvents)
  BY RecordsShown, LenProperties
<1>4. PICK c \in Nat : c = Len(DelegationEvents)
  BY RecordsShown, LenProperties
<1>5. /\ VoteEvents \in Seq(HistoryEvent) /\ TransferEvents \in Seq(HistoryEvent)
      /\ DelegationEvents \in Seq(HistoryEvent)
  BY VotesShown, RecordsShown
<1>6. /\ all \in Seq(HistoryEvent) /\ Len(all) = (a + b) + c
      /\ \A k \in 1 .. a : all[k] = VoteEvents[k]
      /\ \A k \in 1 .. b : all[a + k] = TransferEvents[k]
      /\ \A k \in 1 .. c : all[(a + b) + k] = DelegationEvents[k]
  BY <1>2, <1>3, <1>4, <1>5, ThreeLists
<1>7. old = CutOff(noun)
  BY OldEvents
<1>8. NounActivity = Slice(sorted, Len(all) - CutOff(noun)) \o WinningTransfer
  BY DEF NounActivity, Later
<1>. HIDE DEF all
<1>9. PICK n \in Nat : n = Len(all) /\ n = (a + b) + c
  BY <1>6
<1>10. all \in [1 .. n -> HistoryEvent] /\ DOMAIN all = 1 .. n
  BY <1>6, <1>9, LenProperties
<1>11. /\ old \in 0 .. n /\ sorted \in [1 .. n -> HistoryEvent]
       /\ \A i \in 1 .. n : sorted[i].block > nextStart <=> i <= n - old
       /\ \A i, j \in 1 .. n : i < j => sorted[i].block >= sorted[j].block
       /\ {sorted[i] : i \in 1 .. n - old}
            = {all[k] : k \in {j \in 1 .. n : all[j].block > nextStart}}
  <2>. DEFINE count == Cardinality({k \in 1 .. n : all[k].block <= nextStart})
  <2>1. /\ count \in 0 .. n /\ sorted \in [1 .. n -> HistoryEvent]
        /\ \A i \in 1 .. n : sorted[i].block > nextStart <=> i <= n - count
        /\ \A i, j \in 1 .. n : i < j => sorted[i].block >= sorted[j].block
        /\ {sorted[i] : i \in 1 .. n - count}
             = {all[k] : k \in {j \in 1 .. n : all[j].block > nextStart}}
    BY <1>1, <1>10, SortedEvents
  <2>2. old = count
    BY <1>9
  <2>. HIDE DEF old, count, sorted
  <2>. QED BY <2>1, <2>2
<1>. HIDE DEF old, sorted
<1>. DEFINE m == n - old
            latest == SubSeq(sorted, 1, m)
<1>12. m \in 0 .. n
  BY <1>11
<1>13. sorted \in Seq(HistoryEvent) /\ Len(sorted) = n
  BY <1>11, SeqDef, LenProperties
<1>14. latest \in Seq(HistoryEvent) /\ Len(latest) = m /\ \A i \in 1 .. m : latest[i] = sorted[i]
  BY <1>12, <1>13, SubSeqProperties
<1>15. Slice(sorted, Len(all) - CutOff(noun)) = latest
  BY <1>7, <1>9, <1>12 DEF Slice
<1>16. PICK win \in HistoryEvent :
         WinningTransfer = <<win>> /\ win.kind = "win" /\ win.block = nextStart
  <2>1. PICK w : w = IF IsNounders(noun) THEN 1 ELSE 2
    OBVIOUS
  <2>2. w \in {1, 2} /\ w <= Len(transfers) /\ transfers[w].block = nextStart
    BY <1>1, <2>1, BirthRecords
  <2>3. w \in DOMAIN transfers /\ transfers[w] \in TransferType
    BY <2>2 DEF FeedInv, FeedTyped
  <2>4. WinningTransfer = <<[kind |-> "win", block |-> transfers[w].block, about |-> transfers[w].to]>>
    BY <2>1, <2>3 DEF WinningTransfer
  <2>5. [kind |-> "win", block |-> transfers[w].block, about |-> transfers[w].to] \in HistoryEvent
    BY <2>3 DEF HistoryEvent, EventKinds, TransferType
  <2>. QED BY <2>2, <2>4, <2>5
<1>17. {latest[i] : i \in 1 .. m} = {all[k] : k \in {j \in 1 .. n : all[j].block > nextStart}}
  <2>. HIDE DEF latest
  <2>1. {latest[i] : i \in 1 .. m} = {sorted[i] : i \in 1 .. m}
    BY <1>14
  <2>. QED BY <1>11, <2>1
<1>. HIDE DEF m, latest
<1>18. {all[k] : k \in {j \in 1 .. n : all[j].block > nextStart}}
         = {VoteEvents[i] : i \in DOMAIN VoteEvents}
             \union Since(TransferEvents, nextStart) \union Since(DelegationEvents, nextStart)
  <2>. DEFINE New == {j \in 1 .. n : all[j].block > nextStart}
              Told == {VoteEvents[i] : i \in DOMAIN VoteEvents}
                        \union Since(TransferEvents, nextStart) \union Since(DelegationEvents, nextStart)
  <2>1. /\ DOMAIN VoteEvents = 1 .. a /\ DOMAIN TransferEvents = 1 .. b
        /\ DOMAIN DelegationEvents = 1 .. c
        /\ \A k \in 1 .. a : VoteEvents[k].block > nextStart
    BY <1>2, <1>3, <1>4, VotesShown, RecordsShown
  <2>2. ASSUME NEW k \in New PROVE all[k] \in Told
    <3>1. CASE k <= a
      <4>1. k \in 1 .. a
        BY <3>1
      <4>. QED BY <1>6, <2>1, <4>1
    <3>2. CASE a < k /\ k <= a + b
      <4>1. k - a \in 1 .. b /\ k = a + (k - a)
        BY <3>2
      <4>2. all[k] = TransferEvents[k - a]
        BY <1>6, <4>1
      <4>. QED BY <2>1, <4>1, <4>2 DEF Since
    <3>3. CASE a + b < k
      <4>1. k - (a + b) \in 1 .. c /\ k = (a + b) + (k - (a + b))
        BY <1>9, <3>3
      <4>2. all[k] = DelegationEvents[k - (a + b)]
        BY <1>6, <4>1
      <4>. QED BY <2>1, <4>1, <4>2 DEF Since
    <3>. QED BY <3>1, <3>2, <3>3
  <2>3. ASSUME NEW e \in Told PROVE \E k \in New : e = all[k]
    <3>1. CASE e \in {VoteEvents[i] : i \in DOMAIN VoteEvents}
      <4>1. PICK i \in 1 .. a : e = VoteEvents[i]
        BY <2>1, <3>1
      <4>2. i \in 1 .. n /\ all[i] = e /\ e.block > nextStart
        BY <1>6, <1>9, <2>1, <4>1
      <4>. QED BY <4>2
    <3>2. CASE e \in Since(TransferEvents, nextStart)
      <4>1. PICK i \in 1 .. b : e = TransferEvents[i] /\ e.block > nextStart
        BY <2>1, <3>2 DEF Since
      <4>2. a + i \in 1 .. n /\ all[a + i] = e
        BY <1>6, <1>9, <4>1
      <4>. QED BY <4>1, <4>2
    <3>3. CASE e \in Since(DelegationEvents, nextStart)
      <4>1. PICK i \in 1 .. c : e = DelegationEvents[i] /\ e.block > nextStart
        BY <2>1, <3>3 DEF Since
      <4>2. (a + b) + i \in 1 .. n /\ all[(a + b) + i] = e
        BY <1>6, <1>9, <4>1
      <4>. QED BY <4>1, <4>2
    <3>. QED BY <3>1, <3>2, <3>3
  <2>. HIDE DEF New, Told
  <2>4. {all[k] : k \in New} = Told
    BY <2>2, <2>3
  <2>. QED BY <2>4 DEF New, Told
<1>19. ASSUME NEW i \in 1 .. m PROVE latest[i].block > nextStart
  <2>1. i \in 1 .. n /\ i <= n - old
    BY <1>12 DEF m
  <2>. QED BY <1>11, <1>14, <2>1
<1>20. ASSUME NEW i \in 1 .. m, NEW j \in 1 .. m, i < j
       PROVE  latest[i].block >= latest[j].block
  <2>1. i \in 1 .. n /\ j \in 1 .. n
    BY <1>12
  <2>. QED BY <1>11, <1>14, <1>20, <2>1
<1>21. m \in Nat /\ NounActivity = latest \o <<win>>
  BY <1>8, <1>12, <1>15, <1>16
<1>. QED BY <1>14, <1>16, <1>17, <1>18, <1>19, <1>20, <1>21

\* The page shows all of them.
LEMMA PageTells == FeedInv => FeedTellsHistory
<1>. SUFFICES ASSUME FeedInv, ~FeedLoading, ~FeedBreaks, auctionsSeen, RuleHolds
              PROVE  FeedTellsHistory
  BY DEF FeedTellsHistory
<1>1. PICK m \in Nat, latest \in Seq(HistoryEvent), win \in HistoryEvent :
        /\ Len(latest) = m /\ NounActivity = latest \o <<win>>
        /\ win.kind = "win" /\ win.block = nextStart
        /\ {latest[i] : i \in 1 .. m}
             = {VoteEvents[i] : i \in DOMAIN VoteEvents}
                 \union Since(TransferEvents, nextStart) \union Since(DelegationEvents, nextStart)
        /\ \A i \in 1 .. m : latest[i].block > nextStart
        /\ \A i, j \in 1 .. m : i < j => latest[i].block >= latest[j].block
  BY HistoryShown
<1>. DEFINE shown == latest \o <<win>>
<1>2. <<win>> \in Seq(HistoryEvent) /\ Len(<<win>>) = 1 /\ <<win>>[1] = win
  OBVIOUS
<1>3. /\ shown \in Seq(HistoryEvent) /\ Len(shown) = m + 1
      /\ \A i \in 1 .. m : shown[i] = latest[i]
      /\ shown[m + 1] = win
  <2>1. /\ shown \in Seq(HistoryEvent) /\ Len(shown) = Len(latest) + Len(<<win>>)
        /\ \A k \in 1 .. Len(latest) : shown[k] = latest[k]
        /\ \A k \in 1 .. Len(<<win>>) : shown[Len(latest) + k] = <<win>>[k]
    BY <1>2, TwoLists
  <2>. HIDE DEF shown
  <2>2. 1 \in 1 .. Len(<<win>>)
    BY <1>2
  <2>. QED BY <1>1, <1>2, <2>1, <2>2
<1>4. FeedShown = shown
  BY <1>1 DEF FeedShown
<1>. HIDE DEF shown
<1>5. shown \in [1 .. m + 1 -> HistoryEvent] /\ DOMAIN shown = 1 .. m + 1
  BY <1>3, LenProperties
<1>6. MobileRows = shown
  <2>1. {i \in DOMAIN shown : shown[i].kind \in {"vote", "delegation", "transfer", "win"}} = 1 .. m + 1
    <3>1. ASSUME NEW i \in 1 .. m + 1 PROVE shown[i].kind \in {"vote", "delegation", "transfer", "win"}
      <4>1. shown[i] \in HistoryEvent
        BY <1>5
      <4>. QED BY <4>1 DEF HistoryEvent, EventKinds
    <3>. QED BY <1>5, <3>1
  <2>2. MobileRows = Picked(shown, 1 .. m + 1)
    BY <1>4, <2>1 DEF MobileRows, DesktopRows
  <2>3. m + 1 \in Nat
    OBVIOUS
  <2>. QED BY <1>5, <2>2, <2>3, PickedAll
<1>7. {e \in {VoteEvents[i] : i \in DOMAIN VoteEvents} : e.about >= nextStart}
        = {VoteEvents[i] : i \in DOMAIN VoteEvents}
  BY VotesShown
<1>8. Len(shown) > 0 /\ shown[Len(shown)].kind = "win" /\ shown[Len(shown)].block = nextStart
  BY <1>1, <1>3
<1>9. Len(shown) - 1 = m
  BY <1>3
<1>10. {shown[i] : i \in 1 .. m} = {latest[i] : i \in 1 .. m}
  BY <1>3
<1>11. ASSUME NEW i \in 1 .. m PROVE shown[i].block >= shown[i + 1].block
  <2>1. CASE i = m
    <3>1. /\ shown[i] = latest[i] /\ shown[i + 1] = win /\ shown[i] \in HistoryEvent
          /\ latest[i].block > nextStart /\ nextStart \in Nat
      BY <1>1, <1>3, <1>5, <2>1 DEF FeedInv, FeedTyped
    <3>. QED BY <1>1, <3>1 DEF HistoryEvent
  <2>2. CASE i # m
    <3>1. i + 1 \in 1 .. m /\ i < i + 1
      BY <2>2
    <3>. QED BY <1>1, <1>3, <3>1
  <2>. QED BY <2>1, <2>2
<1>. QED BY <1>1, <1>6, <1>7, <1>8, <1>9, <1>10, <1>11 DEF FeedTellsHistory

\* Always, for any noun of which the page's rule holds (it was auctioned or given
\* to the nounders, and neither it nor the next one is a multiple of ten that the
\* token sells), the page shows every transfer, delegation and proposal since its
\* first owner had it, newest first, and last how he got it, once the app has the
\* auction it seeks and as long as the queries agree on the proposals.
THEOREM PageTellsHistory == FeedSpec => []FeedTellsHistory
<1>1. FeedSpec => []FeedInv
  BY FeedInitInv, FeedNextInv, PTL DEF FeedSpec
<1>. QED BY <1>1, PageTells, PTL
===============================================================================
