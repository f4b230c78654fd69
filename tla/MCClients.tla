------------------------------- MODULE MCClients -------------------------------
(***************************************************************************)
(* Parts that share no state with one another, for TLC: the contracts'     *)
(* checkpoint search, the upgrade of the governor, the deployment tasks,   *)
(* the SDK's images, and of the web app the auction page, the draft of a   *)
(* proposal, the cache of logs, the dialogs that delegate, vote and        *)
(* explain the quorum, the history of a noun, the playground and the page  *)
(* of all nouns.  A behaviour follows one of them, chosen at the start;    *)
(* the others stay as they were.                                           *)
(***************************************************************************)
EXTENDS CheckpointSearch, NounsDAOLogicV1, Deployment, NounImages, AuctionPage,
        ProposalDraft, LogsCache, DelegationPanel, VoteDialog, QuorumCurve, ActivityFeed, Playground, Explore

VARIABLE focus

clientsVars ==
  <<searchVars, upgradeVars, deploymentVars, imageVars, pageVars, draftVars, logsVars,
    delegationVars, voteVars, curveVars, feedVars, playgroundVars, exploreVars, focus>>

ImageSizes == {<<2, 2>>}
LotsForSale == <<1, 3>>
ENSNames == [n \in {"a.eth"} |-> "0xa"]
TwoCouncillors == [alice |-> 7, bob |-> 1]
ForAndAgainst == {<<"alice", "for">>, <<"bob", "against">>}
AliceSells == {<<"alice", "bob", 6>>}
SteepQuorum == {[min |-> 2000, max |-> 6000, coefficient |-> 2000]}
TwoKinds == [heads |-> <<"h">>, glasses |-> <<"g", "n">>]

\* parts with several initial states take one of them when they are not looked at
ClientsInit ==
  /\ focus \in {"search", "upgrade", "deployment", "images", "auction", "draft", "logs",
                "delegation", "vote", "quorum", "feed", "playground", "explore"}
  /\ SearchInit /\ UpgradeInit /\ ImagesInit /\ DraftInit /\ LogsInit /\ PlaygroundInit
  /\ DeploymentInit
  /\ focus # "deployment" =>
       run = [task |-> "deploy-ci", chain |-> "hardhat", autoDeploy |-> FALSE,
              startAuction |-> FALSE, updateConfigs |-> FALSE]
  /\ PageInit
  /\ focus # "auction" => user = "bids" /\ page.route = -1
  /\ DelegationInit
  /\ focus # "delegation" => availableVotes = 0 /\ chainDelegate = ENSNames["a.eth"]
  /\ VoteInit
  /\ focus # "vote" => ~signerIsContract
  /\ CurveInit
  /\ focus # "quorum" => /\ \A n \in Supplies : supply <= n
                         /\ \A p \in CurveParams : proposedWith.max <= p.max
                         /\ \A c \in Coefficients : proposedWith.coefficient <= c
  /\ FeedInit
  /\ focus # "feed" => \A n \in FeedNouns : noun <= n
  /\ ExploreInit
  /\ focus # "explore" => isMobile /\ \A n \in Counts : minted <= n

ClientsNext ==
  /\ \/ focus = "search" /\ SearchNext
     \/ focus = "upgrade" /\ UpgradeNext
     \/ focus = "deployment" /\ DeploymentNext
     \/ focus = "images" /\ ImagesNext
     \/ focus = "auction" /\ PageNext
     \/ focus = "draft" /\ DraftNext
     \/ focus = "logs" /\ LogsNext
     \/ focus = "delegation" /\ DelegationNext
     \/ focus = "vote" /\ VoteNext
     \/ focus = "quorum" /\ CurveNext
     \/ focus = "feed" /\ FeedNext
     \/ focus = "playground" /\ PlaygroundNext
     \/ focus = "explore" /\ ExploreNext
  /\ focus # "search"     => UNCHANGED searchVars
  /\ focus # "upgrade"    => UNCHANGED upgradeVars
  /\ focus # "deployment" => UNCHANGED deploymentVars
  /\ focus # "images"     => UNCHANGED imageVars
  /\ focus # "auction"    => UNCHANGED pageVars
  /\ focus # "draft"      => UNCHANGED draftVars
  /\ focus # "logs"       => UNCHANGED logsVars
  /\ focus # "delegation" => UNCHANGED delegationVars
  /\ focus # "vote"       => UNCHANGED voteVars
  /\ focus # "quorum"     => UNCHANGED curveVars
  /\ focus # "feed"       => UNCHANGED feedVars
  /\ focus # "playground" => UNCHANGED playgroundVars
  /\ focus # "explore"    => UNCHANGED exploreVars
  /\ UNCHANGED focus

ClientsSpec == ClientsInit /\ [][ClientsNext]_clientsVars
===============================================================================
