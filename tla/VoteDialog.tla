------------------------------ MODULE VoteDialog -------------------------------
(***************************************************************************)
(* The dialog that casts a vote on a proposal.  Asking what the account is *)
(* and estimating the gas of a refundable vote take a while; closing the   *)
(* dialog does not call a vote back.  A reason only chooses the function   *)
(* that is called, and its hook; the dialog follows all hooks alike.       *)
(***************************************************************************)
EXTENDS Naturals, FiniteSets

CONSTANTS
  Support,   \* what a ballot can say
  MaxVotes   \* bound: votes submitted

ASSUME VoteConstants == "none" \notin Support /\ MaxVotes \in Nat

VARIABLES
  signerIsContract, \* whether the account is a contract, which gets no refund
  show,             \* whether the dialog shows
  vote,             \* what is entered: a support or "none"
  isLoading, isVoteSuccessful, isVoteFailed,
  closing,          \* whether a timer is running that will close the dialog
  requests,         \* the votes under way: [id, support, at]
  submitted,        \* how many there have been
  unanswered,       \* whether one has died without a word since the dialog was dismissed
  ballot,           \* on chain: what the account voted, or "none"
  active,           \* on chain: whether the proposal can be voted on
  hasVoted          \* what the page knows of it

dialogFlags == <<isLoading, isVoteSuccessful, isVoteFailed>>
voteChain == <<ballot, active>>

voteVars == <<signerIsContract, show, vote, dialogFlags, closing, requests, submitted,
              unanswered, voteChain, hasVoted>>

VoteInit ==
  /\ signerIsContract \in BOOLEAN
  /\ show = FALSE /\ vote = "none"
  /\ isLoading = FALSE /\ isVoteSuccessful = FALSE /\ isVoteFailed = FALSE
  /\ closing = FALSE
  /\ requests = {} /\ submitted = 0 /\ unanswered = FALSE
  /\ ballot = "none" /\ active = TRUE /\ hasVoted = FALSE

\* onHide is another function on every rendering of the page, and the effect that closes
\* a successful dialog starts another timer
PageRenders == closing' = (closing \/ isVoteSuccessful)

\* the header's button is shown while the proposal is active, as the page has it
OpenVoteDialog ==
  /\ ~show /\ ~hasVoted
  /\ show' = TRUE
  /\ PageRenders
  /\ UNCHANGED <<signerIsContract, vote, dialogFlags, requests, submitted, unanswered,
                 voteChain, hasVoted>>

\* resetNonSuccessStateAndHideModal
DismissVoteDialog ==
  /\ show
  /\ show' = FALSE /\ isLoading' = FALSE /\ isVoteFailed' = FALSE
  /\ unanswered' = FALSE
  /\ PageRenders
  /\ UNCHANGED <<signerIsContract, vote, isVoteSuccessful, requests, submitted, voteChain,
                 hasVoted>>

\* hidden by the timer, the dialog resets its failure only
CloseAfterSuccess ==
  /\ closing
  /\ show' = FALSE /\ isVoteFailed' = (isVoteFailed /\ ~show)
  /\ closing' \in {show, TRUE}
  /\ UNCHANGED <<signerIsContract, vote, isLoading, isVoteSuccessful, requests, submitted,
                 unanswered, voteChain, hasVoted>>

FormShows == show /\ ~isVoteFailed /\ ~isVoteSuccessful

EnterVote(support) ==
  /\ FormShows /\ support # vote
  /\ vote' = support
  /\ UNCHANGED <<signerIsContract, show, dialogFlags, closing, requests, submitted, unanswered,
                 voteChain, hasVoted>>

SubmitVote ==
  /\ FormShows /\ vote # "none" /\ ~isLoading
  /\ submitted < MaxVotes
  /\ isLoading' = TRUE
  /\ submitted' = submitted + 1
  /\ requests' = requests \union
       {[id |-> submitted, support |-> vote, at |-> "asking"]}
  /\ UNCHANGED <<signerIsContract, show, vote, isVoteSuccessful, isVoteFailed, closing,
                 unanswered, voteChain, hasVoted>>

MovesOn(r, at) == requests' = (requests \ {r}) \union {[r EXCEPT !.at = at]}

\* getCode has answered; a contract's vote goes to the wallet, another's is estimated
SignerKnown(r) ==
  /\ r.at = "asking"
  /\ MovesOn(r, IF signerIsContract THEN "signing" ELSE "estimating")
  /\ UNCHANGED <<signerIsContract, show, vote, dialogFlags, closing, submitted, unanswered,
                 voteChain, hasVoted>>

\* getCode fails, or the estimate of a vote the governor would refuse: nobody catches it
RequestDies(r) ==
  /\ r.at \in {"asking", "estimating"}
  /\ requests' = requests \ {r}
  /\ unanswered' = TRUE
  /\ UNCHANGED <<signerIsContract, show, vote, dialogFlags, closing, submitted, voteChain,
                 hasVoted>>

Estimated(r) ==
  /\ r.at = "estimating" /\ active /\ ballot = "none"
  /\ MovesOn(r, "signing")
  /\ UNCHANGED <<signerIsContract, show, vote, dialogFlags, closing, submitted, unanswered,
                 voteChain, hasVoted>>

\* seeded error: an exception leaves the dialog loading
handleVoteStateChangeLoading(status) ==
  /\ isLoading' = (IF status \in {"Success", "Fail"} THEN FALSE
                   ELSE isLoading \/ status = "Mining")
  /\ isVoteSuccessful' = (isVoteSuccessful \/ status = "Success")
  /\ isVoteFailed' = (isVoteFailed \/ status \in {"Fail", "Exception"})
  /\ closing' = (closing \/ status = "Success")

\* the effect on the state of every hook, whatever vote it reports and whether it shows
handleVoteStateChange(status) ==
  /\ isLoading' = (status = "Mining")
  /\ isVoteSuccessful' = (isVoteSuccessful \/ status = "Success")
  /\ isVoteFailed' = (isVoteFailed \/ status \in {"Fail", "Exception"})
  /\ closing' = (closing \/ status = "Success")

\* refused in the wallet, or by the estimate that comes before it
RefuseVote(r) ==
  /\ r.at = "signing"
  /\ requests' = requests \ {r}
  /\ handleVoteStateChange("Exception")
  /\ UNCHANGED <<signerIsContract, show, vote, submitted, unanswered, voteChain, hasVoted>>

SignVote(r) ==
  /\ r.at = "signing"
  /\ MovesOn(r, "mining")
  /\ handleVoteStateChange("Mining")
  /\ UNCHANGED <<signerIsContract, show, vote, submitted, unanswered, voteChain, hasVoted>>

\* castVoteInternal takes one ballot while the proposal is active
MineVote(r) ==
  /\ r.at = "mining"
  /\ IF active /\ ballot = "none"
     THEN ballot' = r.support /\ MovesOn(r, "Success")
     ELSE ballot' = ballot /\ MovesOn(r, "Fail")
  /\ UNCHANGED <<signerIsContract, show, vote, dialogFlags, closing, submitted, unanswered,
                 active, hasVoted>>

VoteReceipt(r) ==
  /\ r.at \in {"Success", "Fail"}
  /\ requests' = requests \ {r}
  /\ handleVoteStateChange(r.at)
  /\ UNCHANGED <<signerIsContract, show, vote, submitted, unanswered, voteChain, hasVoted>>

VotingEnds ==
  /\ active /\ active' = FALSE
  /\ UNCHANGED <<signerIsContract, show, vote, dialogFlags, closing, requests, submitted,
                 unanswered, ballot, hasVoted>>

\* a new block: the page asks for the receipt again and renders
SeeReceipt ==
  /\ hasVoted' = (ballot # "none")
  /\ PageRenders
  /\ UNCHANGED <<signerIsContract, show, vote, dialogFlags, requests, submitted, unanswered,
                 voteChain>>

VoteNext ==
  \/ OpenVoteDialog \/ DismissVoteDialog \/ CloseAfterSuccess \/ SubmitVote
  \/ \E s \in Support : EnterVote(s)
  \/ \E r \in requests :
       \/ SignerKnown(r) \/ RequestDies(r) \/ Estimated(r)
       \/ RefuseVote(r) \/ SignVote(r) \/ MineVote(r) \/ VoteReceipt(r)
  \/ VotingEnds \/ SeeReceipt

VoteSpec == VoteInit /\ [][VoteNext]_voteVars

(***************************************************************************)
(* The dialog thanks for a vote only if the account's ballot is on chain,  *)
(* and does once nothing is under way; and it keeps loading only for a     *)
(* vote under way or one whose failure nobody caught: whatever is          *)
(* dismissed, reopened or sent twice (handleVoteStateChange and the        *)
(* refundable votes of wrappers/nounsDao.ts).                              *)
(***************************************************************************)
DialogFollowsBallot ==
  /\ isVoteSuccessful => ballot # "none"
  /\ ballot # "none" /\ requests = {} => isVoteSuccessful
  /\ isLoading /\ ~unanswered => requests # {}
===============================================================================
