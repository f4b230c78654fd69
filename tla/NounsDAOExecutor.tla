---------------------------- MODULE NounsDAOExecutor ----------------------------
(***************************************************************************)
(* NounsDAOExecutor.sol, the timelock that owns the treasury: its admin,   *)
(* the governor, queues transactions, which can be executed after a delay  *)
(* and until a grace period has passed.  A transaction stands for target,  *)
(* value, signature and calldata, so equal transactions with an equal eta  *)
(* are the same entry.  The governor hands over the transactions of a      *)
(* whole proposal in a loop; the operators take the loop as one step.      *)
(*                                                                         *)
(* A transaction is [call, arg].  The calls that configure the executor    *)
(* itself are its setters, which only the executor may call, that is, only *)
(* a transaction it executes.                                              *)
(***************************************************************************)
EXTENDS Naturals

CONSTANTS
  MINIMUM_DELAY, MAXIMUM_DELAY, GRACE_PERIOD,
  Nobody  \* address(0)

ASSUME DelaysAreOrdered ==
  /\ MINIMUM_DELAY \in Nat \ {0} /\ MAXIMUM_DELAY \in Nat /\ GRACE_PERIOD \in Nat
  /\ MINIMUM_DELAY <= MAXIMUM_DELAY

VARIABLES
  now,                 \* block.number, and block.timestamp with it
  timelock,            \* admin, pendingAdmin and delay
  queuedTransactions   \* the entries [tx, eta] whose hash is mapped to true

Entries(txs, eta) == {[tx |-> tx, eta |-> eta] : tx \in txs}

queueTransactions(sender, txs, eta) ==
  /\ sender = timelock.admin
  /\ eta >= now + timelock.delay
  /\ queuedTransactions' = queuedTransactions \cup Entries(txs, eta)

\* an entry need not be there to be canceled
cancelTransactions(sender, txs, eta) ==
  /\ sender = timelock.admin
  /\ queuedTransactions' = queuedTransactions \ Entries(txs, eta)

\* seeded error: an executed entry stays queued
executeTransactionsAgain(sender, txs, eta) ==
  /\ sender = timelock.admin
  /\ Entries(txs, eta) \subseteq queuedTransactions
  /\ now \in eta .. eta + GRACE_PERIOD
  /\ UNCHANGED queuedTransactions

executeTransactions(sender, txs, eta) ==
  /\ sender = timelock.admin
  /\ Entries(txs, eta) \subseteq queuedTransactions
  /\ now \in eta .. eta + GRACE_PERIOD
  /\ queuedTransactions' = queuedTransactions \ Entries(txs, eta)

\* the executor's own setters: whether the call is accepted, and its effect
SetterAccepts(tx) ==
  tx.call = "setDelay" => tx.arg \in MINIMUM_DELAY .. MAXIMUM_DELAY

AfterSetter(tl, tx) ==
  CASE tx.call = "setDelay"        -> [tl EXCEPT !.delay = tx.arg]
    [] tx.call = "setPendingAdmin" -> [tl EXCEPT !.pendingAdmin = tx.arg]
    [] OTHER                       -> tl

acceptAdmin(sender) ==
  /\ sender = timelock.pendingAdmin
  /\ sender # Nobody
  /\ timelock' = [timelock EXCEPT !.admin = sender, !.pendingAdmin = Nobody]
===============================================================================
