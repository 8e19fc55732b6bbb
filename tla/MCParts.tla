------------------------------- MODULE MCParts -------------------------------
(***************************************************************************)
(* Small instances for TLC of six parts that share nothing: of the client, *)
(* logins, a session, the getters and the arithmetic; of the contracts,    *)
(* the owners' wallets and the sets of markets; one part per behaviour.    *)
(***************************************************************************)
EXTENDS WalletLogin, ClientSession, Getters, InterestRates, MultiSig, MarketSets

VARIABLE part \* the part that this behaviour is of

allVars ==
  <<loginVars, sessionVars, gettersVars, figure, multiSigVars, marketSetsVars, part>>

Parts == {"logins", "session", "getters", "rates", "wallets", "sets"}

\* The wallets are told apart only in their own part.
Init ==
  /\ part \in Parts
  /\ LoginInit /\ SessionInit /\ GettersInit /\ RatesInit /\ MarketSetsInit
  /\ MultiSigInit
  /\ part # "wallets" => kind = "MultiSig"

OthersStay(p) ==
  /\ UNCHANGED part
  /\ p # "logins" => UNCHANGED loginVars
  /\ p # "session" => UNCHANGED sessionVars
  /\ p # "getters" => UNCHANGED gettersVars
  /\ p # "rates" => UNCHANGED figure
  /\ p # "wallets" => UNCHANGED multiSigVars
  /\ p # "sets" => UNCHANGED marketSetsVars

Next ==
  \/ part = "logins" /\ LoginNext /\ OthersStay("logins")
  \/ part = "session" /\ SessionNext /\ OthersStay("session")
  \/ part = "getters" /\ GettersNext /\ OthersStay("getters")
  \/ part = "rates" /\ RatesNext /\ OthersStay("rates")
  \/ part = "wallets" /\ MultiSigNext /\ OthersStay("wallets")
  \/ part = "sets" /\ MarketSetsNext /\ OthersStay("sets")

Spec == Init /\ [][Next]_allVars

-----------------------------------------------------------------------------
(* A wallet that prefixes and one that does not; logins until 2 and until  *)
(* 3, which are of one second, and until 1.                                *)

CONSTANTS alice, bob

MCWallets ==
  (alice :> [prefix |-> "Decimal", vOfHash |-> "low", vOfTypedData |-> "high"])
  @@ (bob :> [prefix |-> "None", vOfHash |-> "high", vOfTypedData |-> "low"])

\* What PartsProofs assumes of the option `domain` holds here.
ASSUME InstanceAssumption == DomainIsDefault

(* Two networks, of which the second lacks three contracts; one object of  *)
(* options that names nobody and one that names bob.                       *)

MCDeployedOn ==
  [name \in ProvidedContracts |->
     IF name \in {"eventEmitterRegistry", "mantleGasInfo", "payableProxy"}
     THEN {1} ELSE {1, 2}]

MCOptionObjects == <<None, bob>>

(* Accounts on both sides of the margin, and within one unit of it.        *)

MCAccountStates ==
  [status : {0, 1}, supply : {0, 5, 11}, borrow : {0, 5, 10}, ratio : {1, 2}]

(* The models of interest-constants.json in short: coefficients with a 0   *)
(* between them, one alone, a last one that is 0.  No market of            *)
(* interest-constants.json has a polynomial, which Interest.ts refuses.    *)

MCModels ==
  {[interestRateModel |-> "DoubleExponent", maxAPR |-> apr, coefficients |-> cs] :
     apr \in {99, 200}, cs \in {<<0, 10, 0, 90>>, <<20, 80>>, <<100>>, <<60, 40, 0>>}}
  \cup
  {[interestRateModel |-> "Polynomial", maxAPR |-> 150, coefficients |-> cs] :
     cs \in {<<0, 10, 0, 90>>, <<20, 80>>, <<100>>, <<60, 40, 0>>}}
  \cup
  {[interestRateModel |-> "AAVECopyCat", isStableCoin |-> stable] :
     stable \in BOOLEAN}

MCInterestConstants ==
  1 :> [earningsRate |-> 85,
        markets |->
          (0 :> [interestRateModel |-> "AAVECopyCat", isStableCoin |-> FALSE])
          @@ (2 :> [interestRateModel |-> "AlwaysZero"])]

MCIndexes ==
  [borrow : {100, 130, 157}, supply : {100, 101, 149}, lastUpdate : {0}]

(* A wallet of two owners, whose transactions change its rules or call out. *)

CONSTANTS ann, bea, cat

MCFirstOwners == <<ann, bea>>
MCFirstInstantData == {<<ZeroAddress, "fallback">>}

OwnFunction(selector) == [destination |-> WalletAddress, selector |-> selector]
MCCalls ==
  {OwnFunction("addOwner") @@ [owner |-> cat],
   OwnFunction("removeOwner") @@ [owner |-> bea],
   OwnFunction("replaceOwner") @@ [owner |-> ann, newOwner |-> cat],
   OwnFunction("changeRequirement") @@ [required |-> 1],
   OwnFunction("changeTimeLock") @@ [seconds |-> 1],
   OwnFunction("setSelector")
     @@ [of |-> "elsewhere", named |-> "f", approved |-> TRUE],
   [destination |-> "elsewhere", selector |-> "f"],
   [destination |-> "elsewhere", selector |-> "fallback"]}

(* Five markets in words of four bits.                                     *)

MCHalves == <<2, 1>>
=============================================================================
