----------------------------- MODULE GovernanceBot -----------------------------
(***************************************************************************)
(* The governance half of the bots.  Every 60 seconds a tick asks the      *)
(* subgraph for all proposals and compares each with the copy of it in     *)
(* Redis; what is new is announced on Discord (Twitter has no handlers for *)
(* governance), then the copy is replaced.  The work on different          *)
(* proposals shares nothing, so the module follows one proposal.  The      *)
(* interval does not await that work, and a vote's announcement is not     *)
(* even awaited by it.                                                     *)
(***************************************************************************)
EXTENDS DAOIndex, FiniteSets

CONSTANTS
  Voters,        \* those who vote on the proposal
  Votes,         \* the votes each of them may have, none perhaps
  Jobs,          \* bound: the ticks whose work can be under way at once
  MaxMishaps     \* bound: failures, restarts and collisions of two ticks

ASSUME GovernanceBotConstants ==
  /\ Votes \subseteq Nat /\ Jobs \subseteq Nat
  /\ MaxMishaps \in Nat

VARIABLES
  proposals,     \* the subgraph
  expiry,        \* how far off the end of the grace period is
  copy,          \* Redis: NOUNS_PROPOSAL_<id>
  warned,        \* Redis: NOUNS_PROPOSAL_EXPIRY_WARNING_SENT_<id>
  job,           \* what each tick works on, and where it is
  seeding,       \* setupGovernance, with the proposal it has read
  statusPosts, votePosts, warningPosts,  \* the announcements made
  underWay,      \* the announcements of votes nobody waits for
  unposted,      \* history: votes first seen with the proposal, or lost
  seeded,        \* history: the statuses setupGovernance stored
  failures, collisions                     \* history

governanceBotVars ==
  <<proposals, expiry, copy, warned, job, seeding, statusPosts, votePosts,
    warningPosts, underWay, unposted, seeded, failures, collisions>>

governorSide == <<proposals, expiry>>
announced    == <<statusPosts, votePosts, warningPosts>>
history      == <<unposted, seeded, failures, collisions>>

NoProposal == [status |-> "NONE", votes |-> {}]
NoJob      == [at |-> "idle", old |-> NoProposal, new |-> NoProposal]

Statuses == {"PENDING", "ACTIVE", "CANCELLED", "QUEUED", "EXECUTED", "VETOED"}

\* 2 stands for more than once
More(n) == IF n < 2 THEN n + 1 ELSE n

GovernanceBotInit ==
  /\ proposals = EmptyDAOIndex
  /\ expiry = "far"
  /\ copy = NoProposal
  /\ warned = FALSE
  /\ job = [j \in Jobs |-> NoJob]
  /\ seeding = [at |-> "start", new |-> NoProposal]
  /\ statusPosts = [s \in Statuses |-> 0]
  /\ votePosts = [v \in Voters |-> 0]
  /\ warningPosts = 0
  /\ underWay = {}
  /\ unposted = {}
  /\ seeded = {"NONE"}
  /\ failures = 0
  /\ collisions = 0

-------------------------------------------------------------------------------
(* The governor, through its events *)

botSide == <<copy, warned, job, seeding, announced, underWay, history>>

Proposed == proposals.proposals # <<>>
Status   == IF Proposed THEN proposals.proposals[1].status ELSE "NONE"

Create ==
  /\ ~Proposed
  /\ proposals' = handleProposalCreatedWithRequirements(proposals, 1,
       [proposer |-> "proposer", startBlock |-> 2, endBlock |-> 3, minQuorumVotes |-> 1], 1)
  /\ UNCHANGED <<expiry, botSide>>

Ballot(v, votes) ==
  /\ Proposed /\ Status \in {"PENDING", "ACTIVE"}
  /\ \A vote \in proposals.proposals[1].votes : vote.voter # v
  /\ proposals' = handleVoteCast(proposals, 1, v, 1, votes)
  /\ UNCHANGED <<expiry, botSide>>

\* queueing, and what can follow a vote that succeeded
Decide ==
  /\ Proposed
  /\ \/ Status = "ACTIVE" /\ proposals' = handleProposalQueued(proposals, 1, 4)
     \/ Status = "QUEUED" /\ proposals' = handleProposalExecuted(proposals, 1)
  /\ expiry' = "far"
  /\ UNCHANGED botSide

\* a proposal that was canceled can be vetoed all the same
Stop ==
  /\ Proposed /\ Status \notin {"EXECUTED", "VETOED"}
  /\ \/ Status # "CANCELLED" /\ proposals' = handleProposalCanceled(proposals, 1)
     \/ proposals' = handleProposalVetoed(proposals, 1)
  /\ UNCHANGED <<expiry, botSide>>

\* the last two days begin, and end
Wait ==
  /\ Proposed /\ Status = "QUEUED"
  /\ expiry # "past"
  /\ expiry' = IF expiry = "far" THEN "near" ELSE "past"
  /\ UNCHANGED <<proposals, botSide>>

-------------------------------------------------------------------------------
(* The work of one tick on the proposal *)

Counting(p) == {vote \in p.votes : vote.votes > 0}

Is(j, where) == job[j].at = where
MovesTo(j, where) == job' = [job EXCEPT ![j].at = where]
Drops(j) == job' = [job EXCEPT ![j] = NoJob]

Spare == failures + collisions < MaxMishaps
Failure == Spare /\ failures' = failures + 1

redis == <<copy, warned>>

\* getAllProposals, with parseProposalSubgraphResponse
Fetch(j) ==
  /\ Is(j, "idle") /\ \A k \in Jobs : k < j => ~Is(k, "idle")
  /\ Proposed
  /\ job' = [job EXCEPT ![j] =
       [NoJob EXCEPT !.at = "fetched",
          !.new = [status |-> Status, votes |-> proposals.proposals[1].votes]]]
  /\ IF seeding.at = "done" /\ \A k \in Jobs : Is(k, "idle")
     THEN UNCHANGED collisions
     ELSE Spare /\ collisions' = collisions + 1
  /\ UNCHANGED <<governorSide, redis, seeding, announced, underWay, unposted, seeded, failures>>

extractNewVotes(before, after) ==
  {vote \in after.votes :
     vote.votes > 0 /\ \A old \in before.votes : old.voter # vote.voter}

isAtRiskOfExpiry(p) == p.status = "QUEUED" /\ expiry = "near"

\* the announcements of the votes are started, and go on by themselves; unless
\* the proposal may expire the copy is replaced next
StartVotes(j, old) ==
  LET new == job[j].new
  IN  /\ underWay' = underWay \cup {[vote |-> v, by |-> j] : v \in extractNewVotes(old, new)}
      /\ job' = [job EXCEPT ![j].at = IF isAtRiskOfExpiry(new) THEN "at risk" ELSE "done",
                            ![j].old = NoProposal]

\* getProposalCache
Compare(j) ==
  CASE copy = NoProposal -> MovesTo(j, "new") /\ UNCHANGED underWay
    [] copy # NoProposal /\ copy.status # job[j].new.status ->
         /\ job' = [job EXCEPT ![j].old = copy, ![j].at = "changed"]
         /\ UNCHANGED underWay
    [] OTHER -> StartVotes(j, copy)

\* seeded error: the copy is replaced when the job begins
ReadCopyReplacing(j) ==
  /\ Is(j, "fetched")
  /\ Compare(j)
  /\ copy' = job[j].new
  /\ UNCHANGED <<governorSide, warned, seeding, announced, history>>

ReadCopy(j) ==
  /\ Is(j, "fetched")
  /\ Compare(j)
  /\ UNCHANGED <<governorSide, redis, seeding, announced, history>>

\* handleNewProposal and handleUpdatedProposalStatus; Discord is two webhooks, so
\* a failed announcement may have been made all the same
AnnounceStatus(j) ==
  LET posted == [statusPosts EXCEPT ![job[j].new.status] = More(@)]
  IN  /\ \/ /\ Is(j, "new") /\ MovesTo(j, "done")
            /\ unposted' = unposted \cup Counting(job[j].new)
            /\ statusPosts' = posted
            /\ UNCHANGED <<underWay, failures>>
         \/ /\ Is(j, "changed") /\ StartVotes(j, job[j].old)
            /\ statusPosts' = posted
            /\ UNCHANGED <<unposted, failures>>
         \/ /\ Is(j, "new") \/ Is(j, "changed")
            /\ Failure /\ Drops(j)
            /\ statusPosts' \in {statusPosts, posted}
            /\ UNCHANGED <<underWay, unposted>>
      /\ UNCHANGED <<governorSide, redis, seeding, votePosts, warningPosts, seeded, collisions>>

AnnounceVote(post) ==
  /\ underWay' = underWay \ {post}
  /\ \/ votePosts' = [votePosts EXCEPT ![post.vote.voter] = More(@)]
        /\ UNCHANGED <<unposted, failures>>
     \/ Failure /\ unposted' = unposted \cup {post.vote} /\ UNCHANGED votePosts
  /\ UNCHANGED <<governorSide, redis, job, seeding, statusPosts, warningPosts, seeded, collisions>>

\* hasWarnedOfExpiry, handleProposalAtRiskOfExpiry
Warn(j) ==
  /\ Is(j, "at risk")
  /\ \/ warned /\ MovesTo(j, "done") /\ UNCHANGED <<warningPosts, failures>>
     \/ /\ ~warned
        /\ \/ MovesTo(j, "warned") /\ UNCHANGED failures
           \/ Failure /\ Drops(j)
        /\ warningPosts' = More(warningPosts)
  /\ UNCHANGED <<governorSide, redis, seeding, statusPosts, votePosts, underWay,
                 unposted, seeded, collisions>>

\* seeded error: the warning is not noted
NoteWarningNowhere(j) ==
  /\ Is(j, "warned")
  /\ MovesTo(j, "done")
  /\ UNCHANGED <<governorSide, redis, seeding, announced, underWay, history>>

\* setProposalExpiryWarningSent
NoteWarning(j) ==
  /\ Is(j, "warned")
  /\ warned' = TRUE
  /\ MovesTo(j, "done")
  /\ UNCHANGED <<governorSide, copy, seeding, announced, underWay, history>>

\* updateProposalCache
StoreCopy(j) ==
  /\ Is(j, "done")
  /\ copy' = job[j].new
  /\ Drops(j)
  /\ UNCHANGED <<governorSide, warned, seeding, announced, underWay, history>>

JobStep(j) ==
  \/ Fetch(j) \/ ReadCopy(j) \/ AnnounceStatus(j)
  \/ Warn(j) \/ NoteWarning(j) \/ StoreCopy(j)

-------------------------------------------------------------------------------
(* The process *)

\* setupGovernance reads the proposals, and stores them without a word
SeedFetch ==
  /\ seeding.at = "start"
  /\ seeding' = IF Proposed
                THEN [at |-> "fetched", new |-> [status |-> Status,
                                                 votes |-> proposals.proposals[1].votes]]
                ELSE [at |-> "done", new |-> NoProposal]
  /\ UNCHANGED <<governorSide, redis, job, announced, underWay, history>>

SeedStore ==
  /\ seeding.at = "fetched"
  /\ copy' = seeding.new
  /\ seeded' = seeded \cup {seeding.new.status}
  /\ unposted' = unposted \cup Counting(seeding.new)
  /\ seeding' = [at |-> "done", new |-> NoProposal]
  /\ UNCHANGED <<governorSide, warned, job, announced, underWay, failures, collisions>>

\* what was under way is lost
RestartGovernanceBot ==
  /\ Failure
  /\ job' = [j \in Jobs |-> NoJob]
  /\ unposted' = unposted \cup {post.vote : post \in underWay}
  /\ underWay' = {}
  /\ seeding' = [at |-> "start", new |-> NoProposal]
  /\ UNCHANGED <<governorSide, redis, announced, seeded, collisions>>

SeedStep == SeedFetch \/ SeedStore

GovernanceBotNext ==
  \/ Create
  \/ \E v \in Voters, votes \in Votes : Ballot(v, votes)
  \/ Decide \/ Stop \/ Wait
  \/ \E j \in Jobs : JobStep(j)
  \/ \E post \in underWay : AnnounceVote(post)
  \/ SeedStep
  \/ RestartGovernanceBot

\* the interval keeps firing, and every request is answered in the end
GovernanceBotFairness ==
  /\ WF_governanceBotVars(SeedStep)
  /\ \A j \in Jobs : WF_governanceBotVars(JobStep(j))
  /\ WF_governanceBotVars(\E post \in underWay : AnnounceVote(post))

-------------------------------------------------------------------------------

(***************************************************************************)
(* Redis never claims that something has been dealt with that was never    *)
(* announced, however ticks overlap, requests fail and the bots restart:   *)
(* the status of the copy was announced, or stored by the setup; of its    *)
(* votes every one that counts was announced or is being announced, except *)
(* those found together with the proposal itself, which nobody announces,  *)
(* and those whose own announcement failed, which nobody repeats.          *)
(***************************************************************************)
CopyWasAnnounced ==
  /\ copy.status \in seeded \/ statusPosts[copy.status] > 0
  /\ \A vote \in Counting(copy) :
       \/ votePosts[vote.voter] > 0
       \/ \E post \in underWay : post.vote = vote
       \/ vote \in unposted

(***************************************************************************)
(* As long as nothing fails, nobody restarts the bots and no two ticks     *)
(* work on a proposal at once, every status, vote and warning is announced *)
(* at most once, though the announcements of the votes outlive their tick. *)
(***************************************************************************)
NothingRepeated ==
  failures + collisions > 0 \/
    /\ \A v \in Voters : votePosts[v] <= 1
    /\ \A s \in Statuses : statusPosts[s] <= 1
    /\ warningPosts <= 1
===============================================================================
