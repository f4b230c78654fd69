------------------------------ MODULE Deployment ------------------------------
(***************************************************************************)
(* The hardhat tasks that deploy and configure the contracts.  A task      *)
(* predicts the addresses of contracts that others need in their           *)
(* constructors from the account's nonce, deploys a list of contracts one  *)
(* after the other, and then sends the transactions that populate the      *)
(* descriptor, hand the contracts to the executor and start the auction.   *)
(*                                                                         *)
(* An address is the nonce of the transaction that creates it.  The        *)
(* account's transactions are executed in the order of their nonces, so    *)
(* their effects are those of the order they were sent in; the account may *)
(* send transactions of its own in between, and every request may fail,    *)
(* which ends the task where it is.                                        *)
(***************************************************************************)
EXTENDS Naturals, Sequences

CONSTANTS
  Tasks,        \* the tasks that are run
  Chains,       \* where
  MaxForeign    \* bound: the account's other transactions

ASSUME TasksAssumption ==
  /\ Tasks \subseteq {"deploy-and-configure", "deploy-and-configure-short-times",
                      "deploy-and-configure-short-times-daov1", "run-local", "deploy-ci",
                      "deploy-descriptor-v2", "deploy-v2-logic"}
  /\ MaxForeign \in Nat

VARIABLES
  run,          \* the task, its flags and the chain
  at,           \* what the task does
  step,         \* the next of the list it works on
  nonce,        \* of the account's next transaction
  base,         \* the nonce the task predicted addresses from
  deployment,   \* the contracts deployed: their address, code and arguments
  owner,        \* who owns the contracts that have an owner
  populated,    \* how many calls the descriptor has been populated by
  paused,       \* the auction house
  configs,      \* the addresses written to the SDK's and subgraph's configs
  foreign       \* how many transactions the account sent besides

deploymentVars ==
  <<run, at, step, nonce, base, deployment, owner, populated, paused, configs,
    foreign>>

chainState == <<owner, populated, paused>>

-------------------------------------------------------------------------------
(* The lists.  An argument is a contract's expected address, the address   *)
(* of a contract deployed before it, or given to the task.                 *)

Expected(name) == [from |-> "expected", name |-> name]
Deployed(name) == [from |-> "deployed", name |-> name]
Given(name)    == [from |-> "given", name |-> name]

descriptorContracts ==
  <<"NFTDescriptorV2", "SVGRenderer", "NounsDescriptorV2", "Inflator", "NounsArt">>

descriptorArguments ==
  [NounsDescriptorV2 |-> [art      |-> Expected("NounsArt"),
                          renderer |-> Deployed("SVGRenderer"),
                          library  |-> Deployed("NFTDescriptorV2")],
   NounsArt          |-> [descriptor |-> Deployed("NounsDescriptorV2"),
                          inflator   |-> Deployed("Inflator")]]

systemContracts(logic, proxy) ==
  descriptorContracts \o
  <<"NounsSeeder", "NounsToken", "NounsAuctionHouse", "NounsAuctionHouseProxyAdmin",
    "NounsAuctionHouseProxy", "NounsDAOExecutor", logic, proxy>>

\* these arguments and more
Together(args, more) ==
  [a \in DOMAIN args \cup DOMAIN more |-> IF a \in DOMAIN args THEN args[a] ELSE more[a]]

\* the tasks differ in what they pass to the token and the auction house
systemArguments(logic, proxy, founders, initialize) ==
  [c \in DOMAIN descriptorArguments \cup
         {"NounsToken", "NounsAuctionHouseProxy", "NounsDAOExecutor", proxy} |->
     CASE c = "NounsToken" ->
            Together([minter     |-> Expected("NounsAuctionHouseProxy"),
                      descriptor |-> Deployed("NounsDescriptorV2"),
                      seeder     |-> Deployed("NounsSeeder")], founders)
       [] c = "NounsAuctionHouseProxy" ->
            Together([logic |-> Deployed("NounsAuctionHouse"),
                      admin |-> Deployed("NounsAuctionHouseProxyAdmin"),
                      nouns |-> Deployed("NounsToken")], initialize)
       [] c = "NounsDAOExecutor" -> [admin |-> Expected("governor")]
       [] c = proxy ->
            [timelock |-> Deployed("NounsDAOExecutor"),
             nouns    |-> Deployed("NounsToken"),
             admin    |-> Deployed("NounsDAOExecutor"),
             logic    |-> Deployed(logic)]
       [] OTHER -> descriptorArguments[c]]

unounders == [unounders |-> Given("unoundersdao"), unouncil |-> Given("unouncildao")]
nounders  == [unounders |-> Given("noundersdao")]

parties == [weth |-> Given("weth"), treasury |-> Given("nounsdaoTreasury"),
            halloffame |-> Given("halloffame"), shareEnd |-> Given("proceedsShareEndTime")]

deploy ==
  [contracts |-> systemContracts("NounsDAOLogicV1", "NounsDAOProxy"),
   arguments |-> systemArguments("NounsDAOLogicV1", "NounsDAOProxy", unounders, parties),
   offsets   |-> [NounsArt |-> 4, NounsAuctionHouseProxy |-> 9, governor |-> 12],
   validated |-> {"NounsAuctionHouseProxy", "NounsDAOProxy"}]

deployShortTimes ==
  [contracts |-> systemContracts("NounsDAOLogicV2", "NounsDAOProxyV2"),
   arguments |-> systemArguments("NounsDAOLogicV2", "NounsDAOProxyV2", nounders,
                                 [weth |-> Given("weth")]),
   offsets   |-> deploy.offsets,
   validated |-> {"NounsAuctionHouseProxy", "NounsDAOProxyV2"}]

deployShortTimesDaov1 ==
  [contracts |-> deploy.contracts,
   arguments |-> systemArguments("NounsDAOLogicV1", "NounsDAOProxy", nounders,
                                 [weth |-> Given("weth")]),
   offsets   |-> deploy.offsets,
   validated |-> deploy.validated]

deployLocal ==
  [contracts |-> <<"WETH">> \o systemContracts("NounsDAOLogicV2", "NounsDAOProxyV2")
                 \o <<"Multicall2">>,
   arguments |-> systemArguments("NounsDAOLogicV2", "NounsDAOProxyV2", nounders,
                                 [weth |-> Deployed("WETH")]),
   offsets   |-> [NounsArt |-> 5, NounsAuctionHouseProxy |-> 10, governor |-> 13],
   validated |-> {}]

deployDescriptorV2 ==
  [contracts |-> descriptorContracts,
   arguments |-> descriptorArguments,
   offsets   |-> [NounsArt |-> 4],
   validated |-> {}]

deployV2Logic ==
  [contracts |-> <<"NounsDAOLogicV2">>, arguments |-> <<>>, offsets |-> <<>>, validated |-> {}]

\* the parameters of the constructors, and of the auction house's initialize
Constructors ==
  [NounsToken |-> {"unounders", "unouncil", "minter", "descriptor", "seeder"},
   NounsAuctionHouseProxy |-> {"logic", "admin", "nouns", "weth", "treasury",
                               "halloffame", "shareEnd"}]

-------------------------------------------------------------------------------
(* The tasks *)

List ==
  CASE run.task \in {"deploy-and-configure", "deploy-ci"}       -> deploy
    [] run.task = "deploy-and-configure-short-times"            -> deployShortTimes
    [] run.task = "deploy-and-configure-short-times-daov1"      -> deployShortTimesDaov1
    [] run.task = "run-local"                                   -> deployLocal
    [] run.task = "deploy-descriptor-v2"                        -> deployDescriptorV2
    [] run.task = "deploy-v2-logic"                             -> deployV2Logic

\* the transactions that populate the descriptor
populate == <<"addManyBackgrounds", "setPalette", "addBodies", "addHeads",
              "addGlasses", "addAccessories">>

Populates(s) == \E i \in 1 .. Len(populate) : populate[i] = s

When(flag, steps) == IF flag THEN steps ELSE <<>>

transferAll == <<"NounsDescriptorV2", "NounsToken", "NounsAuctionHouseProxyAdmin">>

deployAndConfigure(updateConfigs) ==
  populate \o transferAll
  \o When(run.startAuction, <<"unpause", "NounsAuctionHouseProxy">>)
  \o When(run.updateConfigs, <<updateConfigs>>)

deployAndConfigureShortTimes == deployAndConfigure("update-configs-daov2")

deployAndConfigureShortTimesDaov1 == deployAndConfigure("update-configs")

runLocal == populate \o <<"unpause">> \o transferAll \o <<"NounsAuctionHouseProxy">>

Steps ==
  CASE run.task = "deploy-and-configure" -> deployAndConfigure("update-configs")
    [] run.task = "deploy-and-configure-short-times"       -> deployAndConfigureShortTimes
    [] run.task = "deploy-and-configure-short-times-daov1" -> deployAndConfigureShortTimesDaov1
    [] run.task = "run-local"            -> runLocal
    [] run.task = "deploy-ci"            -> <<"write-log">>
    [] run.task = "deploy-descriptor-v2" -> populate \o <<"NounsDescriptorV2">>
    [] run.task = "deploy-v2-logic"      -> <<>>

\* the chains whose WETH, treasury and multisigs the task knows, or accepts
KnownChains ==
  CASE run.task \in {"deploy-and-configure", "deploy-ci"} -> {"Mainnet", "Goerli"}
    [] run.task \in {"deploy-and-configure-short-times",
                     "deploy-and-configure-short-times-daov1"}
         -> {"Mainnet", "Ropsten", "Rinkeby", "Kovan", "Goerli"}
    [] run.task = "run-local" -> {"hardhat"}
    [] OTHER -> Chains

\* the tasks that take flags
Configuring == {"deploy-and-configure", "deploy-and-configure-short-times",
                "deploy-and-configure-short-times-daov1"}

Prompting == Configuring \cup {"deploy-ci"}

ownable == {"NounsDescriptorV2", "NounsToken", "NounsAuctionHouseProxyAdmin",
            "NounsAuctionHouseProxy"}

DeploymentInit ==
  /\ run \in [task : Tasks, chain : Chains, autoDeploy : BOOLEAN,
              startAuction : BOOLEAN, updateConfigs : BOOLEAN]
  /\ run.task \in Configuring \/ ~(run.autoDeploy \/ run.startAuction \/ run.updateConfigs)
  /\ at = "params"
  /\ step = 1
  /\ nonce = 0
  /\ base = 0
  /\ deployment = <<>>
  /\ owner = [c \in ownable |-> "nobody"]
  /\ populated = 0
  /\ paused = TRUE
  /\ configs = <<>>
  /\ foreign = 0

-------------------------------------------------------------------------------

Stops == at' = "stopped" /\ UNCHANGED <<step, deployment, configs, chainState>>

\* without a flag or a known address a task throws, deploy-local just returns
ResolveParams ==
  /\ at = "params"
  /\ IF run.chain \in KnownChains
     THEN at' = "predict" /\ UNCHANGED <<step, deployment, configs, chainState>>
     ELSE Stops
  /\ UNCHANGED <<run, nonce, base, foreign>>

\* getTransactionCount does not count what is pending
Predict ==
  /\ at = "predict"
  /\ \E pending \in 0 .. foreign : base' = nonce - pending
  /\ at' = "deploy"
  /\ UNCHANGED <<run, step, nonce, deployment, configs, chainState, foreign>>

Contract == List.contracts[step]

Wired == IF Contract \in DOMAIN List.arguments THEN List.arguments[Contract] ELSE <<>>

Resolve(a) ==
  CASE a.from = "expected" -> base + List.offsets[a.name]
    [] a.from = "deployed" -> deployment[a.name].address
    [] a.from = "given"    -> 0

\* ethers encodes a constructor call only with an argument for every parameter
Accepted == Contract \in DOMAIN Constructors => DOMAIN Wired = Constructors[Contract]

\* seeded error: the deployed address is not compared with the expected one
ValidatedNothing == TRUE

Validated ==
  Contract \in List.validated =>
    nonce = base + List.offsets[IF Contract = "NounsAuctionHouseProxy" THEN Contract
                                ELSE "governor"]

\* the answer is stored as "confirm", the code reads "operation": whatever the
\* answer is (DEPLOY, SKIP or EXIT), the contract is deployed
Confirm ==
  /\ at = "deploy"
  /\ run.task \in Prompting /\ ~run.autoDeploy
  /\ Accepted
  /\ at' = "send"
  /\ UNCHANGED <<run, step, nonce, base, deployment, configs, chainState, foreign>>

\* the prompt of deploy-v2-logic
ConfirmLogic(answer) ==
  /\ at = "deploy"
  /\ run.task = "deploy-v2-logic"
  /\ at' = IF answer = "DEPLOY" THEN "send" ELSE "stopped"
  /\ UNCHANGED <<run, step, nonce, base, deployment, configs, chainState, foreign>>

NoPrompt ==
  /\ at = "deploy"
  /\ run.autoDeploy \/ run.task \in {"run-local", "deploy-descriptor-v2"}
  /\ Accepted
  /\ at' = "send"
  /\ UNCHANGED <<run, step, nonce, base, deployment, configs, chainState, foreign>>

\* the transaction cannot be built: the task throws
Rejected ==
  /\ at = "deploy" /\ ~Accepted
  /\ Stops
  /\ UNCHANGED <<run, nonce, base, foreign>>

\* a validation that fails throws too, after the contract has been deployed
DeployAs(code) ==
  /\ at = "send"
  /\ deployment' =
       [c \in DOMAIN deployment \cup {Contract} |->
          IF c = Contract
          THEN [address |-> nonce, code |-> code,
                args |-> [a \in DOMAIN Wired |-> Resolve(Wired[a])]]
          ELSE deployment[c]]
  /\ owner' = IF Contract \in ownable THEN [owner EXCEPT ![Contract] = "deployer"] ELSE owner
  /\ nonce' = nonce + 1
  /\ IF ~Validated THEN at' = "stopped" /\ UNCHANGED step
     ELSE IF step < Len(List.contracts) THEN at' = "deploy" /\ step' = step + 1
     ELSE at' = "configure" /\ step' = 1
  /\ UNCHANGED <<run, base, populated, paused, configs, foreign>>

\* deploy, run-local and deploy-ci deploy what the list names
Deploy ==
  /\ run.task \notin {"deploy-and-configure-short-times",
                      "deploy-and-configure-short-times-daov1"}
  /\ DeployAs(Contract)

\* the short times need contracts that accept them
DeployShortTimes ==
  /\ run.task = "deploy-and-configure-short-times"
  /\ DeployAs(CASE Contract = "NounsDAOExecutor" -> "NounsDAOExecutorTest"
                [] Contract = "NounsDAOLogicV2"  -> "NounsDAOLogicV2Harness"
                [] OTHER                         -> Contract)

DeployShortTimesDaov1 ==
  /\ run.task = "deploy-and-configure-short-times-daov1"
  /\ DeployAs(CASE Contract = "NounsDAOExecutor" -> "NounsDAOExecutorTest"
                [] Contract = "NounsDAOLogicV1"  -> "NounsDAOLogicV1Harness"
                [] OTHER                         -> Contract)

-------------------------------------------------------------------------------

Address(name) == deployment[name].address

FoundAt(name, address) == name \in DOMAIN deployment /\ Address(name) = address

Step == Steps[step]

Doing(s) == at = "configure" /\ step <= Len(Steps) /\ Step = s

NextStep == step' = step + 1 /\ UNCHANGED at

Governor == IF "NounsDAOProxy" \in DOMAIN deployment THEN "NounsDAOProxy" ELSE "NounsDAOProxyV2"

\* the descriptor calls the art, which only listens to its descriptor; a call
\* that would fail is not sent
PopulateDescriptor(s) ==
  /\ Doing(s)
  /\ IF /\ owner["NounsDescriptorV2"] = "deployer"
        /\ FoundAt("NounsArt", deployment["NounsDescriptorV2"].args.art)
        /\ FoundAt("NounsDescriptorV2", deployment["NounsArt"].args.descriptor)
     THEN /\ populated' = populated + 1
          /\ nonce' = nonce + 1
          /\ NextStep
          /\ UNCHANGED <<owner, paused>>
     ELSE at' = "stopped" /\ UNCHANGED <<step, nonce, chainState>>
  /\ UNCHANGED <<run, base, deployment, configs, foreign>>

TransferOwnership(c) ==
  /\ Doing(c)
  /\ owner' = [owner EXCEPT ![c] = "executor"]
  /\ nonce' = nonce + 1
  /\ NextStep
  /\ UNCHANGED <<run, base, deployment, populated, paused, configs, foreign>>

\* sent with a gas limit, so that it is sent even if it fails, which nobody notices
Unpause ==
  /\ Doing("unpause")
  /\ paused' = ~( /\ owner["NounsAuctionHouseProxy"] = "deployer"
                  /\ FoundAt("NounsAuctionHouseProxy", deployment["NounsToken"].args.minter)
                  /\ populated = Len(populate) )
  /\ nonce' = nonce + 1
  /\ NextStep
  /\ UNCHANGED <<run, base, deployment, owner, populated, configs, foreign>>

\* update-configs is for NounsDAOProxy, update-configs-daov2 for its successor
UpdateConfigs ==
  /\ at = "configure" /\ step <= Len(Steps)
  /\ Step \in {"update-configs", "update-configs-daov2"}
  /\ configs' = [nounsToken   |-> Address("NounsToken"),
                 auctionHouse |-> Address("NounsAuctionHouseProxy"),
                 nounsDAO     |-> Address(IF Step = "update-configs"
                                          THEN "NounsDAOProxy" ELSE "NounsDAOProxyV2")]
  /\ NextStep
  /\ UNCHANGED <<run, nonce, base, deployment, chainState, foreign>>

\* deploy-ci logs the address of a contract that deploy does not deploy
WriteLog ==
  /\ Doing("write-log")
  /\ IF "NFTDescriptor" \in DOMAIN deployment THEN NextStep ELSE at' = "stopped" /\ UNCHANGED step
  /\ UNCHANGED <<run, nonce, base, deployment, configs, chainState, foreign>>

Complete ==
  /\ at = "configure" /\ step > Len(Steps)
  /\ at' = "done"
  /\ UNCHANGED <<run, step, nonce, base, deployment, configs, chainState, foreign>>

\* a request fails
Interrupted ==
  /\ at \in {"predict", "deploy", "send", "configure"}
  /\ Stops
  /\ UNCHANGED <<run, nonce, base, foreign>>

ForeignTransaction ==
  /\ at \notin {"done", "stopped"}
  /\ foreign < MaxForeign
  /\ foreign' = foreign + 1
  /\ nonce' = nonce + 1
  /\ UNCHANGED <<run, at, step, base, deployment, configs, chainState>>

DeploymentNext ==
  \/ ResolveParams \/ Predict
  \/ Confirm
  \/ \E answer \in {"DEPLOY", "SKIP", "EXIT"} : ConfirmLogic(answer)
  \/ NoPrompt \/ Rejected
  \/ Deploy \/ DeployShortTimes \/ DeployShortTimesDaov1
  \/ \E s \in {populate[i] : i \in 1 .. Len(populate)} : PopulateDescriptor(s)
  \/ \E c \in ownable : TransferOwnership(c)
  \/ Unpause
  \/ UpdateConfigs \/ WriteLog \/ Complete \/ Interrupted \/ ForeignTransaction

DeploymentSpec == DeploymentInit /\ [][DeploymentNext]_deploymentVars

-------------------------------------------------------------------------------

\* whatever the executor owns works
HandedOverWired ==
  (\E c \in ownable : owner[c] = "executor") =>
    /\ populated = Len(populate)
    /\ FoundAt("NounsArt", deployment["NounsDescriptorV2"].args.art)
    /\ "NounsToken" \in DOMAIN deployment =>
         /\ FoundAt("NounsAuctionHouseProxy", deployment["NounsToken"].args.minter)
         /\ FoundAt(Governor, deployment["NounsDAOExecutor"].args.admin)

\* what a task that deploys the system leaves
CompletedIsRunning ==
  (at = "done" /\ "NounsToken" \in DOMAIN deployment) =>
    /\ \A c \in DOMAIN deployment : deployment[c].code = c
    /\ \A c \in ownable \ {"NounsAuctionHouseProxy"} : owner[c] = "executor"
    /\ owner["NounsAuctionHouseProxy"] = IF paused THEN "deployer" ELSE "executor"
    /\ run.startAuction => ~paused
    /\ run.updateConfigs =>
         /\ FoundAt("NounsToken", configs.nounsToken)
         /\ FoundAt("NounsAuctionHouseProxy", configs.auctionHouse)
         /\ FoundAt(Governor, configs.nounsDAO)

(***************************************************************************)
(* Nothing is handed to the DAO before it works: whatever the executor     *)
(* owns is wired to the contracts that were really deployed (the art, the  *)
(* minter, the governor as the executor's admin, whose addresses were      *)
(* predicted), and the descriptor is complete; however often requests fail *)
(* and the account sends other transactions in between.  And a task that   *)
(* deploys the system and completes has deployed no test contract and left *)
(* it in one of two states: the first auction is running and the executor  *)
(* owns everything, or the deployer still owns the paused auction house    *)
(* and nothing else; the configs written name the contracts deployed       *)
(* (tasks/deploy.ts and deploy-and-configure.ts).                          *)
(***************************************************************************)
DeployedWorks == HandedOverWired /\ CompletedIsRunning
===============================================================================
