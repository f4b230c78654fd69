------------------------------- MODULE LogsCache -------------------------------
(***************************************************************************)
(* The web app's cache of event logs: components subscribe to a filter,    *)
(* an updater fetches the logs of every filter listened to whenever a new  *)
(* block is seen, and the answers, which arrive in any order or not at     *)
(* all, are shown to all who listen.                                       *)
(***************************************************************************)
EXTENDS Integers, FiniteSets

CONSTANTS
  Filters,            \* what components ask for
  MAX_BLOCKS_PER_CALL,
  MaxBlock,           \* bound: blocks of the chain
  MaxListeners        \* bound: components that listen to one filter at a time

ASSUME LogsConstants ==
  MAX_BLOCKS_PER_CALL \in Nat \ {0} /\ MaxBlock \in Nat /\ MaxListeners \in Nat

VARIABLES
  logged,        \* logged[f]: the blocks with a log that f selects; a log is named by its block
  headBlock,     \* the chain's last block
  blockNumber,   \* useBlockNumber: the last one the app has seen, or Never
  logsState,     \* logsState[f]: listeners, fetchingBlockNumber and results of a filter
  logCalls       \* the fetches that have not been answered: filter and block

logsVars == <<logged, headBlock, blockNumber, logsState, logCalls>>

Never == -1

\* no results yet; of others "error" tells whether they are one
NoResults == [blockNumber |-> Never, logs |-> {}, error |-> FALSE]

LogsInit ==
  /\ logged = [f \in Filters |-> {}]
  /\ headBlock = 1 /\ blockNumber = Never
  /\ logsState = [f \in {} |-> 0]
  /\ logCalls = {}

addListener(f) ==
  /\ logsState' =
       IF f \in DOMAIN logsState THEN [logsState EXCEPT ![f].listeners = @ + 1]
       ELSE [g \in DOMAIN logsState \union {f} |->
               IF g = f THEN [listeners |-> 1, fetching |-> Never, results |-> NoResults]
               ELSE logsState[g]]
  /\ logsState'[f].listeners <= MaxListeners
  /\ UNCHANGED <<logged, headBlock, blockNumber, logCalls>>

\* a component that listens is unmounted, or changes its filter
removeListener(f) ==
  /\ f \in DOMAIN logsState /\ logsState[f].listeners > 0
  /\ logsState' = [logsState EXCEPT ![f].listeners = @ - 1]
  /\ UNCHANGED <<logged, headBlock, blockNumber, logCalls>>

filtersNeedFetch ==
  {f \in DOMAIN logsState :
     /\ logsState[f].listeners # 0
     /\ logsState[f].fetching < blockNumber
     /\ logsState[f].results.blockNumber < blockNumber}

\* the updater's effect; fetchingLogs
FetchLogs ==
  /\ filtersNeedFetch # {}
  /\ logsState' = [f \in DOMAIN logsState |->
                     IF f \in filtersNeedFetch
                     THEN [logsState[f] EXCEPT !.fetching = blockNumber] ELSE logsState[f]]
  /\ logCalls' = logCalls \union
                   {[filter |-> f, blockNumber |-> blockNumber] : f \in filtersNeedFetch}
  /\ UNCHANGED <<logged, headBlock, blockNumber>>

\* seeded error: a range is taken to end before the next one starts
RangesApart(to) ==
  {[fromBlock |-> from, toBlock |-> from + MAX_BLOCKS_PER_CALL] :
     from \in {b \in 0 .. to : b % (MAX_BLOCKS_PER_CALL + 1) = 0 /\ b + MAX_BLOCKS_PER_CALL <= to}}

\* the calls one fetch is split into: the last block of one is the first of the next
Ranges(to) ==
  {[fromBlock |-> from,
    toBlock   |-> IF from + MAX_BLOCKS_PER_CALL < to THEN from + MAX_BLOCKS_PER_CALL ELSE to] :
     from \in {b \in 0 .. to : b % MAX_BLOCKS_PER_CALL = 0}}

\* what the calls return together; logs at the seams are returned twice
LogsUpTo(f, to) == UNION {{b \in logged[f] : r.fromBlock <= b /\ b <= r.toBlock} : r \in Ranges(to)}

\* seeded error: the last answer is taken for the latest
TakesLast(f, b) == f \in DOMAIN logsState

\* an answer that is older than the results there are is dropped
Takes(f, b) == f \in DOMAIN logsState /\ logsState[f].results.blockNumber <= b

Resulting(call, logs, error) ==
  /\ logCalls' = logCalls \ {call}
  /\ logsState' = IF Takes(call.filter, call.blockNumber)
                  THEN [logsState EXCEPT ![call.filter].results =
                          [blockNumber |-> call.blockNumber, logs |-> logs, error |-> error]]
                  ELSE logsState
  /\ UNCHANGED <<logged, headBlock, blockNumber>>

\* all ranges have been answered
fetchedLogs(call) == Resulting(call, LogsUpTo(call.filter, call.blockNumber), FALSE)

\* one of them has failed; it is not tried again before the next block
fetchedLogsError(call) == Resulting(call, {}, TRUE)

\* what useLogs tells a component that listens
LogsShown(f) ==
  IF blockNumber = Never THEN "INVALID"
  ELSE IF f \notin DOMAIN logsState \/ logsState[f].results = NoResults THEN "LOADING"
  ELSE IF logsState[f].results.error THEN "ERROR"
  ELSE IF logsState[f].results.blockNumber >= blockNumber THEN "SYNCED" ELSE "SYNCING"

SeeBlock ==
  /\ blockNumber < headBlock
  /\ blockNumber' = headBlock
  /\ UNCHANGED <<logged, headBlock, logsState, logCalls>>

\* a block is mined, with a log for some of the filters
MineBlock(selecting) ==
  /\ headBlock < MaxBlock
  /\ headBlock' = headBlock + 1
  /\ logged' = [f \in Filters |->
                 logged[f] \union (IF f \in selecting THEN {headBlock'} ELSE {})]
  /\ UNCHANGED <<blockNumber, logsState, logCalls>>

LogsNext ==
  \/ \E f \in Filters : addListener(f) \/ removeListener(f)
  \/ FetchLogs
  \/ \E call \in logCalls : fetchedLogs(call) \/ fetchedLogsError(call)
  \/ SeeBlock
  \/ \E selecting \in SUBSET Filters : MineBlock(selecting)

LogsSpec == LogsInit /\ [][LogsNext]_logsVars

-------------------------------------------------------------------------------
(***************************************************************************)
(* What the app shows is complete: logs said to be those up to a block are *)
(* exactly the chain's, and when no fetch is left to be made or answered,  *)
(* whoever listens sees the last block seen, or that its fetch has failed. *)
(* An answer overtaken by a later one must not leave the component with    *)
(* old logs until the next block, although fetchingBlockNumber forbids to  *)
(* ask again.                                                              *)
(***************************************************************************)
LogsComplete ==
  \A f \in DOMAIN logsState :
    /\ LogsShown(f) \in {"SYNCED", "SYNCING"} =>
         logsState[f].results.logs = {b \in logged[f] : b <= logsState[f].results.blockNumber}
    /\ (/\ blockNumber # Never
        /\ logsState[f].listeners > 0 /\ f \notin filtersNeedFetch
        /\ \A call \in logCalls : call.filter # f)
       => LogsShown(f) \in {"SYNCED", "ERROR"}
===============================================================================
