---------------------------- MODULE DelegationPanel ----------------------------
(***************************************************************************)
(* The dialog in which a holder changes the delegate.  What is entered is  *)
(* an address or an ENS name; a name is resolved over the network, and its *)
(* address replaces the one the dialog holds when the answer comes.  The   *)
(* dialog follows the transactions it has sent by one hook, which reports  *)
(* the last change of any of them.                                         *)
(***************************************************************************)
EXTENDS Integers, Sequences

CONSTANTS
  Addresses,   \* that a delegation can be made to
  ENS,         \* ENS[n]: the address of the name n
  DeepLinks,   \* what a link to the dialog may name: "none", an address or a name
  MaxSends     \* bound: delegations sent

ASSUME PanelConstants ==
  /\ "" \notin Addresses \union DOMAIN ENS
  /\ Addresses \intersect DOMAIN ENS = {}
  /\ \A n \in DOMAIN ENS : ENS[n] \in Addresses
  /\ MaxSends \in Nat

VARIABLES
  modalShows,          \* "nothing", "current" delegate or "change" of it
  delegateTo,          \* the deep link's, or "none"
  changeDelegateState, \* ENTER_DELEGATE_ADDRESS, CHANGING, CHANGE_SUCCESS, CHANGE_FAILURE
  delegateAddress,
  delegateInputText,
  resolving,           \* the names whose resolution has not been answered
  availableVotes,      \* nouns of the holder
  delegations,         \* what has been sent: to whom, what was entered then, status, from this dialog
  chainDelegate        \* the holder's delegate on chain

delegationInput == <<delegateAddress, delegateInputText, resolving>>
delegationChain == <<delegations, chainDelegate>>

delegationVars ==
  <<modalShows, delegateTo, changeDelegateState, delegationInput, availableVotes, delegationChain>>

isAddress(text) == text \in Addresses

\* a name is asked for, an address is its own answer and anything else has none
Asked(text) == IF text \in DOMAIN ENS THEN {text} ELSE {}

DelegationInit ==
  /\ modalShows = "nothing" /\ delegateTo = "none"
  /\ changeDelegateState = "ENTER_DELEGATE_ADDRESS"
  /\ delegateAddress = "" /\ delegateInputText = "" /\ resolving = {}
  /\ availableVotes \in {0, 1}
  /\ delegations = <<>>
  /\ chainDelegate \in Addresses

\* the panel is mounted with what the link names, or empty
MountPanel(link) ==
  LET text == IF link = "none" THEN "" ELSE link IN
  /\ modalShows' = "change"
  /\ changeDelegateState' = "ENTER_DELEGATE_ADDRESS"
  /\ delegateAddress' = text /\ delegateInputText' = text
  /\ resolving' = Asked(text)

OpenDelegation(link) ==
  /\ modalShows = "nothing"
  /\ delegateTo' = link
  /\ IF link = "none"
     THEN modalShows' = "current" /\ UNCHANGED <<changeDelegateState, delegationInput>>
     ELSE MountPanel(link)
  /\ UNCHANGED <<availableVotes, delegationChain>>

UpdateDelegate ==
  /\ modalShows = "current"
  /\ MountPanel(delegateTo)
  /\ UNCHANGED <<delegateTo, availableVotes, delegationChain>>

\* what is under way goes on, but nobody follows it any more
CloseDelegation ==
  /\ modalShows # "nothing"
  /\ modalShows' = "nothing" /\ delegateTo' = "none"
  /\ changeDelegateState' = "ENTER_DELEGATE_ADDRESS"
  /\ delegateAddress' = "" /\ delegateInputText' = "" /\ resolving' = {}
  /\ delegations' = [i \in DOMAIN delegations |-> [delegations[i] EXCEPT !.followed = FALSE]]
  /\ UNCHANGED <<availableVotes, chainDelegate>>

\* the input is there in every state but failure, unless a link has named the delegate
EnterDelegate(text) ==
  /\ modalShows = "change" /\ delegateTo = "none"
  /\ changeDelegateState # "CHANGE_FAILURE"
  /\ text # delegateInputText
  /\ delegateAddress' = text /\ delegateInputText' = text
  /\ resolving' = resolving \union Asked(text)
  /\ UNCHANGED <<modalShows, delegateTo, changeDelegateState, availableVotes, delegationChain>>

\* checkIsValidENS: the answer is taken whatever has been entered since
ResolveENS(name) ==
  /\ name \in resolving
  /\ resolving' = resolving \ {name}
  /\ delegateAddress' = ENS[name]
  /\ UNCHANGED <<modalShows, delegateTo, changeDelegateState, delegateInputText, availableVotes,
                 delegationChain>>

\* the primary button; it stays enabled while the wallet asks for the signature
DelegateVotes ==
  /\ modalShows = "change" /\ changeDelegateState = "ENTER_DELEGATE_ADDRESS"
  /\ isAddress(delegateAddress) /\ availableVotes > 0
  /\ Len(delegations) < MaxSends
  /\ delegations' = Append(delegations,
       [to |-> delegateAddress, entered |-> delegateInputText,
        status |-> "PendingSignature", followed |-> TRUE])
  /\ UNCHANGED <<modalShows, delegateTo, changeDelegateState, delegationInput, availableVotes,
                 chainDelegate>>

\* seeded error: a transaction is taken for confirmed when it is sent
StateShownEarly(status, before) ==
  CASE status = "Mining" -> "CHANGE_SUCCESS"
    [] status \in {"Exception", "Fail"} -> "CHANGE_FAILURE"
    [] OTHER -> before

\* the effect on the hook's state
StateShown(status, before) ==
  CASE status = "Success" -> "CHANGE_SUCCESS"
    [] status \in {"Exception", "Fail"} -> "CHANGE_FAILURE"
    [] status = "Mining" -> "CHANGING"
    [] OTHER -> before

\* a transaction of this dialog changes its status, which the hook reports
Reports(i, status) ==
  /\ delegations' = [delegations EXCEPT ![i].status = status]
  /\ changeDelegateState' = IF delegations[i].followed
                            THEN StateShown(status, changeDelegateState) ELSE changeDelegateState
  /\ UNCHANGED <<modalShows, delegateTo, delegationInput, availableVotes>>

\* signed and sent, or refused in the wallet
SignDelegation(i, status) ==
  /\ delegations[i].status = "PendingSignature"
  /\ Reports(i, status)
  /\ UNCHANGED chainDelegate

\* mined; the receipt is still on its way
MineDelegation(i, succeeds) ==
  /\ delegations[i].status = "Mining"
  /\ delegations' = [delegations EXCEPT ![i].status = IF succeeds THEN "Mined" ELSE "Reverted"]
  /\ chainDelegate' = IF succeeds THEN delegations[i].to ELSE chainDelegate
  /\ UNCHANGED <<modalShows, delegateTo, changeDelegateState, delegationInput, availableVotes>>

DelegationReceipt(i) ==
  /\ delegations[i].status \in {"Mined", "Reverted"}
  /\ Reports(i, IF delegations[i].status = "Mined" THEN "Success" ELSE "Fail")
  /\ UNCHANGED chainDelegate

\* the button that is "Close" in the other states
ChangeAgain ==
  /\ modalShows = "change" /\ changeDelegateState = "CHANGE_SUCCESS"
  /\ delegateAddress' = "" /\ delegateInputText' = ""
  /\ changeDelegateState' = "ENTER_DELEGATE_ADDRESS"
  /\ UNCHANGED <<modalShows, delegateTo, resolving, availableVotes, delegationChain>>

BalanceChanges ==
  /\ availableVotes' = 1 - availableVotes
  /\ UNCHANGED <<modalShows, delegateTo, changeDelegateState, delegationInput, delegationChain>>

DelegationNext ==
  \/ \E link \in DeepLinks : OpenDelegation(link)
  \/ UpdateDelegate \/ CloseDelegation
  \/ \E text \in Addresses \union DOMAIN ENS : EnterDelegate(text)
  \/ \E name \in resolving : ResolveENS(name)
  \/ DelegateVotes
  \/ \E i \in DOMAIN delegations :
       \/ \E status \in {"Mining", "Exception"} : SignDelegation(i, status)
       \/ \E succeeds \in BOOLEAN : MineDelegation(i, succeeds)
       \/ DelegationReceipt(i)
  \/ ChangeAgain
  \/ BalanceChanges

DelegationSpec == DelegationInit /\ [][DelegationNext]_delegationVars

-------------------------------------------------------------------------------

Followed(statuses) ==
  {i \in DOMAIN delegations : delegations[i].followed /\ delegations[i].status \in statuses}

(***************************************************************************)
(* What the dialog says of the delegation is true, although one hook       *)
(* follows several transactions and the dialog may be closed and opened    *)
(* while they are under way: "Updating..." only while one of its own is,   *)
(* "Delegate Updated!" only after one of its own has been mined, and a     *)
(* failure only when one has failed or been refused.                       *)
(***************************************************************************)
PanelTellsTheChain ==
  /\ changeDelegateState = "CHANGING" => Followed({"Mining", "Mined", "Reverted"}) # {}
  /\ changeDelegateState = "CHANGE_SUCCESS" => Followed({"Success"}) # {}
  /\ changeDelegateState = "CHANGE_FAILURE" => Followed({"Fail", "Exception"}) # {}

Entered(text) == IF text \in DOMAIN ENS THEN ENS[text] ELSE text

(***************************************************************************)
(* Votes are delegated to the account that is entered.  They are not: a    *)
(* name's address that arrives after another address was entered replaces  *)
(* it, while the input keeps showing the address that was entered.         *)
(***************************************************************************)
DelegatesToEntered ==
  \A i \in DOMAIN delegations : delegations[i].to = Entered(delegations[i].entered)
===============================================================================
