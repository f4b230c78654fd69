----------------------------- MODULE ProposalDraft -----------------------------
(***************************************************************************)
(* The page that drafts a proposal and the dialog that adds an action to   *)
(* it.  Payments in USDC are made by the payer contract; the page asks the *)
(* TokenBuyer how much ether it needs to buy what the payments of the      *)
(* draft take, and adds an action that tops it up, or corrects the one     *)
(* there is.  The answer arrives when it arrives and changes from block to *)
(* block, while the user adds, removes and sends.                          *)
(***************************************************************************)
EXTENDS Integers, Sequences, SequencesExt

CONSTANTS
  Recipients,   \* what is typed as an address, besides nothing
  Amounts,      \* what is typed as an amount, 0 being nothing
  MaxActions,   \* bound: actions the user adds to as many; a top-up may be one more
  MaxDrift      \* bound: how far the TokenBuyer's need rises by itself

ASSUME DraftConstants == Amounts \subseteq Nat /\ MaxActions \in Nat /\ MaxDrift \in Nat

VARIABLES
  drafted,      \* proposalTransactions
  totalUSDC,    \* totalUSDCPayment
  answer,       \* ethNeeded for that total; -1 until the contract has answered
  topUp,        \* tokenBuyerTopUpEth
  drift,        \* what the TokenBuyer needs besides
  dropped,      \* the user removed the top-up after it was last set
  dialogStep,   \* where the dialog is
  carried,      \* what its steps have handed on
  stepTyped,    \* what is typed into the current step
  ready,        \* its button is enabled
  proposePending \* isProposePending: a proposal is being sent

formState == <<drafted, totalUSDC, answer, topUp, dropped>>
dialog == <<dialogStep, carried, stepTyped, ready>>

draftVars == <<formState, drift, dialog, proposePending>>

TokenBuyer == "token buyer"
Payer      == "payer"
NotAnAddress == "not an address"

-------------------------------------------------------------------------------
(* The draft *)

\* what the contract answers (BUFFER_BPS and prices are left out)
Need(payments) == payments + drift

IsTopUp(action) == action.to = TokenBuyer

TopUps(list) == {i \in DOMAIN list : IsTopUp(list[i])}

FirstTopUp(list) == CHOOSE i \in TopUps(list) : \A j \in TopUps(list) : i <= j

Ether(to, value) == [to |-> to, value |-> value, usdc |-> 0]

\* seeded error: the action is corrected only if the need has risen
ToppedUpMore(list, need, before) ==
  IF need = 0 THEN list
  ELSE IF TopUps(list) = {} THEN Append(list, Ether(TokenBuyer, need))
  ELSE IF need > before THEN [list EXCEPT ![FirstTopUp(list)].value = need]
  ELSE list

\* an action there is for the TokenBuyer is taken for the top-up, whose-ever it is
ToppedUp(list, need, before) ==
  IF need = 0 THEN list
  ELSE IF TopUps(list) = {} THEN Append(list, Ether(TokenBuyer, need))
  ELSE [list EXCEPT ![FirstTopUp(list)].value = need]

DialogClosed ==
  /\ dialogStep' = "closed" /\ carried' = [type |-> "transfer"]
  /\ stepTyped' = <<>> /\ ready' = FALSE

\* handleAddProposalAction closes the dialog, also when the page adds the top-up
TopsUp(need) == need > 0 /\ TopUps(drafted) = {}

DraftInit ==
  /\ drafted = <<>>
  /\ totalUSDC = 0
  /\ answer = -1
  /\ topUp = 0
  /\ drift = 0
  /\ dropped = FALSE
  /\ dialogStep = "closed"
  /\ carried = [type |-> "transfer"]
  /\ stepTyped = <<>>
  /\ ready = FALSE
  /\ proposePending = FALSE

\* the contract answers for the total there is: the page's effect
AnswerNeed ==
  /\ answer # Need(totalUSDC)
  /\ answer' = Need(totalUSDC)
  /\ IF answer' # topUp
     THEN /\ drafted' = ToppedUp(drafted, answer', topUp)
          /\ topUp' = answer'
          /\ dropped' = (dropped /\ answer' = 0)
          /\ IF TopsUp(answer') THEN DialogClosed ELSE UNCHANGED dialog
     ELSE UNCHANGED <<drafted, topUp, dropped, dialog>>
  /\ UNCHANGED <<totalUSDC, drift, proposePending>>

\* the price, the TokenBuyer's balance or its debt change
NeedChanges(d) ==
  /\ d # drift
  /\ drift' = d
  /\ UNCHANGED <<formState, dialog, proposePending>>

\* handleAddProposalAction, called by a review step, which then closes the dialog;
\* another total has not been asked for yet
ActionAdded(action) ==
  /\ drafted' = Append(drafted, action)
  /\ totalUSDC' = totalUSDC + action.usdc
  /\ answer' = IF action.usdc = 0 THEN answer ELSE -1
  /\ DialogClosed
  /\ UNCHANGED <<topUp, dropped, drift, proposePending>>

handleRemoveProposalAction(i) ==
  /\ drafted' = RemoveAt(drafted, i)
  /\ totalUSDC' = totalUSDC - drafted[i].usdc
  /\ answer' = IF drafted[i].usdc = 0 THEN answer ELSE -1
  /\ dropped' = (dropped \/ IsTopUp(drafted[i]))
  /\ UNCHANGED <<topUp, drift, dialog, proposePending>>

\* the button stays enabled while a proposal is mined
handleCreateProposal ==
  /\ drafted # <<>>
  /\ proposePending' = TRUE
  /\ UNCHANGED <<formState, drift, dialog>>

\* mined, reverted or refused: an alert is all there is to it
ProposalSent ==
  /\ proposePending
  /\ proposePending' = FALSE
  /\ UNCHANGED <<formState, drift, dialog>>

-------------------------------------------------------------------------------
(* The dialog *)

InDialog == UNCHANGED <<formState, drift, proposePending>>

\* what the steps have handed on, with more of it or other values
With(changes, record) ==
  [field \in DOMAIN changes \cup DOMAIN record |->
     IF field \in DOMAIN changes THEN changes[field] ELSE record[field]]

HandedOn(field, default) == IF field \in DOMAIN carried THEN carried[field] ELSE default

\* a step is mounted with what an earlier step handed on
StepMounted(next) ==
  /\ dialogStep' = next
  /\ stepTyped' =
       CASE next = "transfer"  -> [address  |-> HandedOn("address", NotAnAddress),
                                   amount   |-> HandedOn("amount", 0),
                                   currency |-> HandedOn("currency", "ETH")]
         [] next = "function"  -> [address |-> HandedOn("address", NotAnAddress),
                                   amount  |-> HandedOn("amount", 0),
                                   abi     |-> HandedOn("abi", FALSE)]
         [] next = "arguments" -> [encodable |-> FALSE]
         [] OTHER              -> <<>>

OpenDialog ==
  /\ dialogStep = "closed"
  /\ StepMounted("type") /\ carried' = [type |-> "transfer"] /\ ready' = TRUE
  /\ InDialog

CloseDialog ==
  /\ dialogStep # "closed"
  /\ DialogClosed
  /\ InDialog

\* the type of the action, and the step it leads to
SelectType(type) ==
  /\ dialogStep = "type"
  /\ carried' = With([type |-> type], carried)
  /\ UNCHANGED <<dialogStep, stepTyped, ready>>
  /\ InDialog

ValidStep(t) ==
  CASE dialogStep = "transfer"  -> t.address # NotAnAddress /\ t.amount > 0
    [] dialogStep = "function"  -> t.address # NotAnAddress /\ t.abi
    [] dialogStep = "arguments" -> t.encodable

\* the button, once enabled, stays enabled whatever is typed later
StepTyped(t) ==
  /\ stepTyped' = t
  /\ ready' = (ready \/ ValidStep(t))
  /\ UNCHANGED <<dialogStep, carried>>
  /\ InDialog

TypeAddress(address) ==
  /\ dialogStep \in {"transfer", "function"} /\ address # stepTyped.address
  /\ StepTyped([stepTyped EXCEPT !.address = address])

TypeAmount(amount) ==
  /\ dialogStep \in {"transfer", "function"} /\ amount # stepTyped.amount
  /\ StepTyped([stepTyped EXCEPT !.amount = amount])

SelectCurrency(currency) ==
  /\ dialogStep = "transfer" /\ currency # stepTyped.currency
  /\ StepTyped([stepTyped EXCEPT !.currency = currency])

\* uploaded, or fetched for an address typed before, which may not be the last
ABIArrives ==
  /\ dialogStep = "function" /\ ~stepTyped.abi
  /\ StepTyped([stepTyped EXCEPT !.abi = TRUE])

\* arguments that can be encoded or not; a function may need none
TypeArguments(encodable) ==
  /\ dialogStep = "arguments" /\ encodable # stepTyped.encodable
  /\ StepTyped([stepTyped EXCEPT !.encodable = encodable])

StepAfter ==
  CASE dialogStep = "type"      -> carried.type
    [] dialogStep = "transfer"  -> "review transfer"
    [] dialogStep = "function"  -> "arguments"
    [] dialogStep = "arguments" -> "review function"

StepBefore ==
  CASE dialogStep \in {"transfer", "function"} -> "type"
    [] dialogStep = "arguments"       -> "function"
    [] dialogStep = "review transfer" -> "transfer"
    [] dialogStep = "review function" -> "arguments"

\* a step that is mounted with what it needs is ready at once
ReadyAfter(next) ==
  CASE next = "transfer" -> stepTyped'.address # NotAnAddress /\ stepTyped'.amount > 0
    [] next = "function" -> stepTyped'.address # NotAnAddress /\ stepTyped'.abi
    [] next = "arguments" -> FALSE
    [] OTHER -> TRUE

Onward ==
  /\ dialogStep \in {"type", "transfer", "function", "arguments"} /\ ready
  /\ carried' = IF dialogStep = "type" THEN carried ELSE With(stepTyped, carried)
  /\ StepMounted(StepAfter)
  /\ ready' = ReadyAfter(StepAfter)
  /\ InDialog

\* the arguments are entered anew
Back ==
  /\ dialogStep \notin {"closed", "type"}
  /\ StepMounted(StepBefore)
  /\ ready' = ReadyAfter(StepBefore)
  /\ carried' = [field \in DOMAIN carried \ {"encodable"} |-> carried[field]]
  /\ InDialog

\* the payment's arguments are encoded, which fails for what is not an address
\* or not a number; ether is sent to whatever was typed
AddTransfer ==
  /\ dialogStep = "review transfer"
  /\ Len(drafted) < MaxActions
  /\ IF carried.currency = "ETH" THEN ActionAdded(Ether(carried.address, carried.amount))
     ELSE IF carried.address # NotAnAddress /\ carried.amount > 0
     THEN ActionAdded([to |-> Payer, value |-> 0, usdc |-> carried.amount])
     ELSE UNCHANGED draftVars

AddFunctionCall ==
  /\ dialogStep = "review function"
  /\ Len(drafted) < MaxActions
  /\ IF carried.encodable THEN ActionAdded(Ether(carried.address, carried.amount))
     ELSE UNCHANGED draftVars

DraftNext ==
  \/ AnswerNeed
  \/ \E d \in 0 .. MaxDrift : NeedChanges(d)
  \/ \E i \in DOMAIN drafted : handleRemoveProposalAction(i)
  \/ handleCreateProposal
  \/ ProposalSent
  \/ OpenDialog \/ CloseDialog \/ Onward \/ Back
  \/ \E type \in {"transfer", "function"} : SelectType(type)
  \/ \E address \in Recipients : TypeAddress(address)
  \/ \E amount \in Amounts : TypeAmount(amount)
  \/ \E currency \in {"ETH", "USDC"} : SelectCurrency(currency)
  \/ ABIArrives
  \/ \E encodable \in BOOLEAN : TypeArguments(encodable)
  \/ AddTransfer \/ AddFunctionCall

DraftSpec == DraftInit /\ [][DraftNext]_draftVars

-------------------------------------------------------------------------------

Paid(list) == [i \in DOMAIN list |-> list[i].usdc]

Payments(list) == MapThenSumSet(LAMBDA i : Paid(list)[i], DOMAIN list)

(***************************************************************************)
(* The payments of a draft are covered: the total asked for is that of the *)
(* payments listed, and when the TokenBuyer has answered for it that it    *)
(* needs ether, the first action for the TokenBuyer carries exactly that,  *)
(* unless the user removed it since; through every order of additions,     *)
(* removals, answers and changes of the need.                              *)
(***************************************************************************)
PaymentsAreCovered ==
  /\ totalUSDC = Payments(drafted)
  /\ (answer > 0 /\ ~dropped) =>
       TopUps(drafted) # {} /\ drafted[FirstTopUp(drafted)].value = answer
===============================================================================
