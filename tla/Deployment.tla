------------------------------ MODULE Deployment ------------------------------
(***************************************************************************)
(* The migrations of one production network: contracts at addresses that   *)
(* CREATE3 derives from their names, the file deployed.json that remembers *)
(* them, and the owner's setup of DolomiteMargin.  A run may crash at any  *)
(* time and is started again from the first migration; meanwhile a         *)
(* migration of another network writes back a copy of the file that it     *)
(* read earlier.                                                           *)
(***************************************************************************)
EXTENDS Naturals, Sequences, FiniteSets, SequencesExt

CONSTANTS
  Networks,   \* names of production networks
  NewNames,   \* sets of names that deployed.json may not have yet
  Budgets,    \* bounds: [crashes |-> .., copies |-> .., reruns |-> ..]
  NoCopy      \* in place of a copy of the file

VARIABLES
  network,
  json,     \* deployed.json: what it has for a name and this network
  code,     \* names whose CREATE3 address has code
  margin,   \* the settings of DolomiteMargin
  pool,     \* names whose deployment a crashed run has left in the pool
  at,       \* the step the run is at, 0 when there is none
  phase,    \* of a deployment: "start", "sent" or "mined"
  file,     \* deployed.json as the deployment has read it
  outcome,  \* of the last run
  finished, \* whether a run has reached the end
  copy,     \* deployed.json as the other process has read it
  left      \* what is left of the budget

vars == <<network, json, code, margin, pool, at, phase, file, outcome, finished,
          copy, left>>

-----------------------------------------------------------------------------
(* The migrations: what they do, in order.                                 *)

\* `needs` are the contracts whose addresses are linked or passed.
Deploy(name, needs) == [do |-> "deploy", name |-> name, needs |-> needs]
Get(names) == [do |-> "get", name |-> "", needs |-> names]
Set(what, name) == [do |-> what, name |-> name, needs |-> {}]

DeployAll(names, needs) == [i \in DOMAIN names |-> Deploy(names[i], needs)]
SetAll(what, names) == [i \in DOMAIN names |-> Set(what, names[i])]

ActionImpls ==
  <<"CallImpl", "DepositImpl", "LiquidateOrVaporizeImpl", "TradeImpl",
    "TransferImpl", "WithdrawalImpl">>
DeployActionLibraries == DeployAll(ActionImpls \o <<"AdminImpl", "GettersImpl">>, {})

DeployCoreLibraries ==
  <<Get(ToSet(ActionImpls)), Deploy("OperationImpl", ToSet(ActionImpls)),
    Deploy("AlwaysOnlineOracleSentinel", {})>>

Feed(n) ==
  CASE n \in {"arbitrum_one", "base"} -> "feed"
    [] n = "mainnet"                  -> "throw"
    [] OTHER                          -> "none"

DeployCore(n) ==
  LET needs == {"AdminImpl", "GettersImpl", "OperationImpl", "AlwaysOnlineOracleSentinel"}
  IN  <<Get(needs), Deploy("DolomiteMargin", needs)>>
        \o CASE Feed(n) = "feed"  ->
                  <<Deploy("ChainlinkOracleSentinel", {"DolomiteMargin"}),
                    Set("sentinel", "ChainlinkOracleSentinel")>>
             [] Feed(n) = "throw" -> <<Set("throw", "")>>
             [] OTHER             -> <<>>

DeployMultiCall(n) ==
  <<Get({"DolomiteMargin"}),
    Deploy(IF n = "arbitrum_one" THEN "ArbitrumMultiCall" ELSE "MultiCall", {}),
    Deploy("LiquidatorAssetRegistry", {"DolomiteMargin"})>>
    \o IF n = "arbitrum_one"
       THEN <<Deploy("AccountValuesReader", {"DolomiteMargin", "LiquidatorAssetRegistry"})>>
       ELSE <<>>

DeployInterestSetters ==
  DeployAll(<<"AAVECopyCatAltCoinInterestSetter", "AAVECopyCatStableCoinInterestSetter",
              "AlwaysZeroInterestSetter", "DoubleExponentInterestSetter">>, {})

DeployPriceOracles ==
  <<Get({"DolomiteMargin"}), Deploy("ChainlinkPriceOracleV1", {"DolomiteMargin"})>>

DeploySecondLayer ==
  <<Get({"DolomiteMargin"})>>
    \o DeployAll(<<"TransferProxy", "BorrowPositionProxyV1", "BorrowPositionProxyV2",
                   "DepositWithdrawalProxy", "EventEmitterRegistry", "Expiry">>,
                 {"DolomiteMargin"})
    \o <<Deploy("GenericTraderProxyV1Lib", {}),
         Deploy("GenericTraderProxyV1",
                {"GenericTraderProxyV1Lib", "EventEmitterRegistry", "Expiry", "DolomiteMargin"}),
         Deploy("SignedOperationProxy", {"DolomiteMargin"})>>
    \o SetAll("operator",
              <<"BorrowPositionProxyV1", "BorrowPositionProxyV2", "DepositWithdrawalProxy",
                "Expiry", "GenericTraderProxyV1", "TransferProxy">>)

Liquidators == <<"ExpiryProxy", "LiquidatorProxyV1", "LiquidatorProxyV4WithGenericTrader">>
DeployLiquidators ==
  LET needs == {"DolomiteMargin", "Expiry", "LiquidatorAssetRegistry"}
  IN  <<Get(needs)>> \o DeployAll(Liquidators, needs) \o SetAll("operator", Liquidators)

Tokens(n) ==
  CASE n = "arbitrum_one"              -> <<"WETH", "DAI", "USDC", "LINK", "WBTC", "USDT">>
    [] n \in {"base", "polygon_zkevm"} -> <<"WETH">>
    [] OTHER                           -> <<>>

SetupProtocol(n) ==
  <<Get({"Expiry", "DolomiteMargin"}), Set("trader", "Expiry")>>
    \o IF Tokens(n) = <<>> THEN <<>>
       ELSE <<Get({"ChainlinkPriceOracleV1", "AlwaysZeroInterestSetter"})>>
              \o SetAll("market", Tokens(n))
              \o <<Get({"DepositWithdrawalProxy"}), Set("payable", "WETH")>>

Ownership(n) ==
  IF n = "berachain_cartio" THEN <<>>
  ELSE <<Get({"DolomiteMargin"}), Set("owner", "DelayedMultiSig")>>

Layers(n) ==
  <<Deploy("Migrations", {})>> \o DeployActionLibraries \o DeployCoreLibraries
    \o DeployCore(n) \o DeployMultiCall(n) \o DeployInterestSetters
    \o DeployPriceOracles \o DeploySecondLayer \o DeployLiquidators

\* A fault: the setup after the transfer of ownership.
MigrationsOwnershipFirst(n) == Layers(n) \o Ownership(n) \o SetupProtocol(n)

Migrations(n) == Layers(n) \o SetupProtocol(n) \o Ownership(n)

StepsOf == [n \in Networks |-> Migrations(n)]
Steps == StepsOf[network]

NamesOf == [n \in Networks |->
  {StepsOf[n][i].name : i \in {j \in DOMAIN StepsOf[n] : StepsOf[n][j].do = "deploy"}}]
Names == UNION {NamesOf[n] : n \in Networks}

-----------------------------------------------------------------------------

Running == at # 0
Step == Steps[at]

\* The deployer owns DolomiteMargin once it is deployed.
Init ==
  /\ network \in Networks
  /\ json \in {[x \in Names |-> IF x \in new THEN "absent" ELSE "listed"] : new \in NewNames}
  /\ code = {} /\ pool = {}
  /\ margin = [operator |-> {}, trader |-> {}, sentinel |-> {}, market |-> {},
               payable |-> {}, owner |-> {}]
  /\ at = 0 /\ phase = "start" /\ file = NoCopy
  /\ outcome = "none" /\ finished = FALSE
  /\ copy = NoCopy
  /\ left \in Budgets

Run ==
  /\ ~Running
  /\ IF finished THEN left.reruns > 0 ELSE TRUE
  /\ left' = [left EXCEPT !.reruns = IF finished THEN @ - 1 ELSE @]
  /\ at' = 1 /\ phase' = "start" /\ outcome' = "none"
  /\ UNCHANGED <<network, json, code, margin, pool, file, finished, copy>>

\* What becomes of the run: it goes on, or ends, or has ended.
GoOn ==
  /\ at' = (IF at = Len(Steps) THEN 0 ELSE at + 1)
  /\ finished' = (finished \/ at = Len(Steps))
  /\ outcome' = (IF at = Len(Steps) THEN "finished" ELSE "none")
  /\ phase' = "start" /\ file' = NoCopy

Stop(why) ==
  /\ at' = 0 /\ outcome' = why
  /\ phase' = "start" /\ file' = NoCopy
  /\ UNCHANGED finished

-----------------------------------------------------------------------------
(* deployContractIfNecessary.                                              *)

Recorded(name) == json[name] = "recorded"

\* There is a record: nothing to do.  Otherwise the address may have code.
BeginDeploy ==
  /\ Running /\ Step.do = "deploy" /\ phase = "start"
  /\ IF Recorded(Step.name)
     THEN GoOn /\ UNCHANGED pool
     ELSE /\ file' = json
          /\ phase' = (IF Step.name \in code THEN "found" ELSE "sent")
          /\ UNCHANGED <<pool, at, finished, outcome>>
  /\ UNCHANGED <<network, json, code, margin, copy, left>>

\* A deployment that a crashed run has left is mined first, and this reverts.
Create3Deploy ==
  /\ Running /\ phase = "sent"
  /\ IF Step.name \in code
     THEN Stop("reverted") /\ UNCHANGED code
     ELSE /\ code' = code \cup {Step.name}
          /\ phase' = "mined"
          /\ UNCHANGED <<at, file, finished, outcome>>
  /\ UNCHANGED <<network, json, margin, pool, copy, left>>

\* A fault: a name that is not in the file gets no entry.
HasEntryIfListed(name) == file[name] # "absent"

\* The file gets an entry for the name where this run deploys, not where it
\* finds code.
HasEntry(name) == file[name] # "absent" \/ phase = "mined"

\* A fault: the deployment is not waited for.
MayRecordAtOnce == phase # "start"

MayRecord == phase \in {"mined", "found"}

Record ==
  /\ Running /\ Step.do = "deploy" /\ MayRecord
  /\ IF HasEntry(Step.name)
     THEN json' = [file EXCEPT ![Step.name] = "recorded"] /\ GoOn
     ELSE Stop("threw") /\ UNCHANGED json
  /\ UNCHANGED <<network, code, margin, pool, copy, left>>

MineLate(name) ==
  /\ pool' = pool \ {name}
  /\ code' = code \cup {name}
  /\ UNCHANGED <<network, json, margin, at, phase, file, outcome, finished, copy, left>>

GetContract ==
  /\ Running /\ Step.do = "get"
  /\ IF \A name \in Step.needs : Recorded(name) THEN GoOn ELSE Stop("threw")
  /\ UNCHANGED <<network, json, code, margin, pool, copy, left>>

-----------------------------------------------------------------------------
(* The setup of DolomiteMargin.                                            *)

IsSet(what) == Step.name \in margin[what]

\* transferOwnership is called whether it has been or not.
NeedsSetting(what) == what = "owner" \/ ~IsSet(what)

IsOwner == margin.owner = {}

\* Only the owner may set anything, but for the payable market.
Configure ==
  /\ Running /\ Step.do \in {"operator", "trader", "sentinel", "market", "owner"}
  /\ IF ~NeedsSetting(Step.do) THEN GoOn /\ UNCHANGED margin
     ELSE IF ~IsOwner THEN Stop("reverted") /\ UNCHANGED margin
     ELSE margin' = [margin EXCEPT ![Step.do] = @ \cup {Step.name}] /\ GoOn
  /\ UNCHANGED <<network, json, code, pool, copy, left>>

\* initializePayableMarket is not waited for: it may as well fail.
InitializePayableMarket ==
  /\ Running /\ Step.do = "payable"
  /\ margin' \in {margin, [margin EXCEPT !.payable = {Step.name}]}
  /\ GoOn
  /\ UNCHANGED <<network, json, code, pool, copy, left>>

Throw ==
  /\ Running /\ Step.do = "throw"
  /\ Stop("threw")
  /\ UNCHANGED <<network, json, code, margin, pool, copy, left>>

Crash ==
  /\ Running /\ left.crashes > 0
  /\ left' = [left EXCEPT !.crashes = @ - 1]
  /\ pool' = (IF phase = "sent" /\ Step.name \notin code THEN {Step.name} ELSE pool)
  /\ Stop("crashed")
  /\ UNCHANGED <<network, json, code, margin, copy>>

-----------------------------------------------------------------------------
(* The other process.                                                      *)

OtherReads ==
  /\ left.copies > 0 /\ copy = NoCopy
  /\ left' = [left EXCEPT !.copies = @ - 1]
  /\ copy' = json
  /\ UNCHANGED <<network, json, code, margin, pool, at, phase, file, outcome, finished>>

\* A migration of another network records a name of its own.
OtherRecords(name) ==
  /\ copy # NoCopy
  /\ json' = [copy EXCEPT ![name] = IF @ = "absent" THEN "listed" ELSE @]
  /\ copy' = NoCopy
  /\ UNCHANGED <<network, code, margin, pool, at, phase, file, outcome, finished, left>>

-----------------------------------------------------------------------------

RunStep ==
  \/ BeginDeploy \/ Create3Deploy \/ Record \/ GetContract
  \/ Configure \/ InitializePayableMarket \/ Throw

OtherStep ==
  \/ OtherReads
  \/ \E name \in Names : OtherRecords(name)

Next ==
  \/ Run \/ RunStep \/ Crash
  \/ \E name \in pool : MineLate(name)
  \/ OtherStep

\* A process that is not interrupted goes on, and a run that fails is repeated.
Fairness == WF_vars(RunStep) /\ WF_vars(Run) /\ WF_vars(\E name \in pool : MineLate(name))

Spec == Init /\ [][Next]_vars /\ Fairness

-----------------------------------------------------------------------------
(* Properties.                                                             *)

\* Whatever has crashed or was overwritten, when the multisig owns
\* DolomiteMargin there is nothing left that only the deployer could do.
OwnershipComesLast ==
  margin.owner # {} =>
    /\ NamesOf[network] \subseteq code
    /\ \A i \in DOMAIN Steps :
         Steps[i].do \in {"operator", "trader", "sentinel", "market"} =>
           Steps[i].name \in margin[Steps[i].do]

\* An address on file has code, and so have the addresses that the code of a
\* contract is linked to or was constructed with.
NothingRefersToNothing ==
  /\ \A name \in Names : json[name] = "recorded" => name \in code
  /\ \A i \in DOMAIN Steps :
       Steps[i].do = "deploy" /\ Steps[i].name \in code => Steps[i].needs \subseteq code

\* A contract that the file can not remember.
Forgotten == \E name \in code : json[name] = "absent"

\* Migrations that are run until they succeed do succeed, where the network has
\* all they ask for; or else a crash, or a copy of the file, has made the file
\* forget a name that was new, and it never remembers.
MigrationsFinish ==
  Feed(network) # "throw" =>
    \/ <>finished
    \/ <>[](Forgotten /\ left \notin Budgets)
=============================================================================
