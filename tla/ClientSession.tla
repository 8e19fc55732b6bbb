---------------------------- MODULE ClientSession ----------------------------
(***************************************************************************)
(* A session of the client: DolomiteMargin.ts and Contracts.ts, whose      *)
(* provider, network and default account may be set again while contract   *)
(* wrappers, cached tokens (Token.ts) and option objects (the one that a   *)
(* caller hands to StandardActions.ts) live on.                            *)
(*                                                                         *)
(* The contract objects of web3 1.2.1 are external: setting an address to  *)
(* undefined leaves the one they have.                                     *)
(***************************************************************************)
EXTENDS Naturals, FiniteSets

CONSTANTS
  Networks,       \* network ids; each has a provider of the same name
  DeployedOn,     \* the artifacts: the networks each contract has an address on
  Accounts,
  Tokens,
  OptionObjects,  \* the option objects callers keep, with the `from` in each
  Amounts,
  None

ContractNames == DOMAIN DeployedOn

VARIABLES
  session,      \* the provider and networkId of Contracts, None before it opens
  defaultAccount,
  contracts,    \* per contract its provider, address and options.from
  tokens,       \* Token.tokens: the options.from that each clone was made with
  options,      \* per option object what it holds
  touched,      \* the option objects an action has filled in
  made,         \* the last contract made for an address on demand
  sent          \* the last transaction

sessionVars ==
  <<session, defaultAccount, contracts, tokens, options, touched, made, sent>>

SessionInit ==
  /\ session = None
  /\ defaultAccount = None
  /\ contracts = [name \in ContractNames |->
                    [provider |-> None, address |-> None, from |-> None]]
  /\ tokens = <<>>
  /\ options = [o \in DOMAIN OptionObjects |->
                  [from |-> OptionObjects[o], value |-> 0]]
  /\ touched = {}
  /\ made = None
  /\ sent = None

-----------------------------------------------------------------------------
(* Contracts.ts.                                                           *)

\* The list in setProvider.
ProvidedContracts ==
  {"aaveCopyCatAltCoinInterestSetter", "aaveCopyCatStableCoinInterestSetter",
   "accountValuesReader", "arbitrumGasInfo", "arbitrumMultiCall",
   "borrowPositionProxyV1", "borrowPositionProxyV2", "chainlinkPriceOracleV1",
   "depositProxy", "dolomiteMargin", "doubleExponentInterestSetter", "erc20",
   "eventEmitterRegistry", "expiry", "expiryProxy", "genericTraderProxyV1",
   "interestSetter", "liquidatorAssetRegistry", "liquidatorProxyV1",
   "liquidatorProxyV4WithGenericTrader", "mantleGasInfo", "multiCall",
   "payableProxy", "polynomialInterestSetter", "priceOracle",
   "signedOperationProxy", "transferProxy", "payableToken"}

ASSUME SessionAssumption ==
  /\ None \notin Accounts \cup Networks
  /\ ContractNames = ProvidedContracts

\* The assignments in setDefaultAccount.
AccountedContracts ==
  {"aaveCopyCatAltCoinInterestSetter", "aaveCopyCatStableCoinInterestSetter",
   "accountValuesReader", "arbitrumGasInfo", "arbitrumMultiCall",
   "borrowPositionProxyV1", "borrowPositionProxyV2", "chainlinkPriceOracleV1",
   "depositProxy", "dolomiteMargin", "doubleExponentInterestSetter", "erc20",
   "eventEmitterRegistry", "expiry", "expiryProxy", "genericTraderProxyV1",
   "interestSetter", "liquidatorAssetRegistry", "liquidatorProxyV1",
   "liquidatorProxyV4WithGenericTrader", "mantleGasInfo", "multiCall",
   "payableProxy", "polynomialInterestSetter", "priceOracle",
   "signedOperationProxy", "transferProxy", "payableToken"}

AddressOf(name, network) == <<name, network>>
IsDeployed(name, network) == network \in DeployedOn[name]

\* setContractProvider, for each contract of the list.
Provided(cs, network) ==
  [name \in ContractNames |->
     IF name \in ProvidedContracts
     THEN [cs[name] EXCEPT
             !.provider = network,
             !.address = IF IsDeployed(name, network)
                         THEN AddressOf(name, network) ELSE @]
     ELSE cs[name]]

Accounted(cs, account) ==
  [name \in ContractNames |->
     IF name \in AccountedContracts THEN [cs[name] EXCEPT !.from = account]
     ELSE cs[name]]

\* A contract for a trader, a sentinel or a risk override setter.
MakeContract(address) ==
  /\ session # None
  /\ made' = [address |-> address, provider |-> session,
              from |-> contracts["dolomiteMargin"].from,
              session |-> session, account |-> defaultAccount]
  /\ UNCHANGED <<session, defaultAccount, contracts, tokens, options, touched,
                 sent>>

-----------------------------------------------------------------------------
(* DolomiteMargin.ts.                                                      *)

Open(network, account) ==
  /\ session = None
  /\ session' = network
  /\ defaultAccount' = account
  /\ contracts' = Accounted(Provided(contracts, network), account)
  /\ UNCHANGED <<tokens, options, touched, made, sent>>

\* A fault: the contracts keep the addresses of the network before.
SetProviderOnly(network) ==
  /\ session # None
  /\ session' = network
  /\ contracts' = [name \in ContractNames |->
                     [contracts[name] EXCEPT !.provider = network]]
  /\ UNCHANGED <<defaultAccount, tokens, options, touched, made, sent>>

SetProvider(network) ==
  /\ session # None
  /\ session' = network
  /\ contracts' = Provided(contracts, network)
  /\ UNCHANGED <<defaultAccount, tokens, options, touched, made, sent>>

SetDefaultAccount(account) ==
  /\ session # None
  /\ defaultAccount' = account
  /\ contracts' = Accounted(contracts, account)
  /\ UNCHANGED <<session, tokens, options, touched, made, sent>>

-----------------------------------------------------------------------------
(* Token.ts.                                                               *)

\* getToken: a clone of erc20, once per token.
WithToken(token) ==
  tokens' = [t \in DOMAIN tokens \cup {token} |->
               IF t \in DOMAIN tokens THEN tokens[t] ELSE contracts["erc20"].from]

\* A clone has the provider of the session although it is on neither list: each
\* contract object that web3 1.2.1 makes follows the setProvider of its web3,
\* which DolomiteMargin.setProvider calls too.
\* { ...options, from }: whoever is named sends, not the options' from, not the
\* clone's.
SendToken(token, sender, o, contract, to) ==
  /\ session # None
  /\ WithToken(token)
  /\ sent' = [from |-> sender, value |-> options[o].value, due |-> sender,
              amount |-> options[o].value, reused |-> FALSE,
              contract |-> contract, to |-> to, network |-> session]
  /\ UNCHANGED <<session, defaultAccount, contracts, options, touched, made>>

SetAllowance(token, owner, spender, o) ==
  SendToken(token, owner, o, None, spender)

\* setDolomiteMarginllowance and the two that set it to the maximum or to 0.
SetDolomiteMarginAllowance(token, owner, o) ==
  SendToken(token, owner, o, "dolomiteMargin",
            contracts["dolomiteMargin"].address)

Transfer(token, from, to, o) == SendToken(token, from, o, None, to)
TransferFrom(token, to, sender, o) == SendToken(token, sender, o, None, to)

\* A balance, an allowance, a name: a call that changes nothing on chain.
ReadToken(token) ==
  /\ session # None
  /\ WithToken(token)
  /\ UNCHANGED <<session, defaultAccount, contracts, options, touched, made, sent>>

-----------------------------------------------------------------------------
(* StandardActions.ts.                                                     *)

\* commitOptions: the caller's own object, what it lacks filled in.
FilledIn(o, owner, isEth, amount) ==
  [from  |-> IF o.from = None THEN owner ELSE o.from,
   value |-> IF isEth /\ o.value = 0 THEN amount ELSE o.value]

\* An operation of one action, sent to DolomiteMargin or, when the market is ETH,
\* to the PayableProxy.
SendAction(owner, isEth, amount, o) ==
  LET contract == IF isEth THEN "payableProxy" ELSE "dolomiteMargin"
      filled == FilledIn(options[o], owner, isEth, amount)
  IN  /\ session # None
      /\ options' = [options EXCEPT ![o] = filled]
      /\ touched' = touched \cup {o}
      /\ sent' = [from |-> filled.from, value |-> filled.value,
                  due |-> IF OptionObjects[o] = None THEN owner
                          ELSE OptionObjects[o],
                  amount |-> IF isEth THEN amount ELSE 0,
                  reused |-> o \in touched, contract |-> contract,
                  to |-> contracts[contract].address, network |-> session]
      /\ UNCHANGED <<session, defaultAccount, contracts, tokens, made>>

Deposit(owner, isEth, amount, o) == SendAction(owner, isEth, amount, o)

\* withdraw and withdrawToZero give no value along.
Withdraw(owner, isEth, o) == SendAction(owner, isEth, 0, o)

SessionNext ==
  \/ \E network \in Networks, account \in Accounts : Open(network, account)
  \/ \E network \in Networks : SetProvider(network)
  \/ \E account \in Accounts : SetDefaultAccount(account)
  \/ \E token \in Tokens : MakeContract(token) \/ ReadToken(token)
  \/ \E o \in DOMAIN OptionObjects, owner \in Accounts :
       \/ \E token \in Tokens :
            \/ SetDolomiteMarginAllowance(token, owner, o)
            \/ \E other \in Accounts :
                 \/ SetAllowance(token, owner, other, o)
                 \/ Transfer(token, owner, other, o)
                 \/ TransferFrom(token, other, owner, o)
       \/ \E isEth \in BOOLEAN :
            \/ \E amount \in Amounts : Deposit(owner, isEth, amount, o)
            \/ Withdraw(owner, isEth, o)

SessionSpec == SessionInit /\ [][SessionNext]_sessionVars

-----------------------------------------------------------------------------
(* Properties.                                                             *)

\* After any changes of provider and account, every contract the client has, and
\* each it makes, speaks to the provider of the session for its default account,
\* at the address of the session's network if there is one.
ContractsFollowTheSession ==
  session # None =>
    /\ \A name \in ContractNames :
         /\ contracts[name].provider = session
         /\ contracts[name].from = defaultAccount
         /\ IsDeployed(name, session) =>
              contracts[name].address = AddressOf(name, session)
    /\ made # None => made.provider = made.session /\ made.from = made.account

\* A transaction is sent by the one whose tokens or account it is about, unless
\* the options name another, with the ETH of a deposit, and about the contracts of
\* the network it is sent on; except with an option object that an earlier action
\* has filled in.
OwnersSend ==
  sent # None =>
    /\ ~sent.reused => sent.from = sent.due /\ sent.value = sent.amount
    /\ sent.contract # None /\ IsDeployed(sent.contract, sent.network) =>
         sent.to = AddressOf(sent.contract, sent.network)

\* The client acts for the account and on the network it was last told to.
SessionIsConsistent == ContractsFollowTheSession /\ OwnersSend
=============================================================================
