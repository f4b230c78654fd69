-------------------------------- MODULE MCBots --------------------------------
(***************************************************************************)
(* The bots for TLC.  The two intervals share no key of Redis and nothing  *)
(* of the subgraph: a behaviour follows one of them, chosen at the start,  *)
(* and the other half stays as it was.                                     *)
(***************************************************************************)
EXTENDS AuctionBot, GovernanceBot

VARIABLE focus

botsVars == <<auctionBotVars, governanceBotVars, focus>>

BotsInit ==
  /\ focus \in {"auction", "governance"}
  /\ AuctionBotInit
  /\ GovernanceBotInit

Auction(A)    == focus = "auction" /\ A /\ UNCHANGED <<governanceBotVars, focus>>
Governance(A) == focus = "governance" /\ A /\ UNCHANGED <<auctionBotVars, focus>>

BotsNext == Auction(AuctionBotNext) \/ Governance(GovernanceBotNext)

\* both intervals keep firing, and every request is answered in the end
BotsSpec ==
  /\ BotsInit /\ [][BotsNext]_botsVars
  /\ WF_botsVars(Auction(SetupStep))
  /\ \A t \in Ticks : WF_botsVars(Auction(TickStep(t)))
  /\ WF_botsVars(Governance(SeedStep))
  /\ \A j \in Jobs : WF_botsVars(Governance(JobStep(j)))
  /\ WF_botsVars(Governance(\E post \in underWay : AnnounceVote(post)))
===============================================================================
