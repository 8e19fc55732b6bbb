# Dolomite V2 in TLA+

A specification of the margin protocol in `src/contracts/protocol`, of the
contracts around it (expiries, signed operations, liquidator proxies, the owners'
wallets, interest setters), and of the TypeScript client and the migrations that
drive them.  TLC checks each part on small instances; TLAPS proves, for every
instance, all the safety that is claimed of the margin contract, of signed
operations, of expiries, of the owners' wallets, of the client's operations,
calls, logins and session, and of the migrations, and that the contracts' arrays,
bitmaps and searches are the sets of markets that the rest takes them for.

## The system

DolomiteMargin is one contract over one storage.  Accounts (an owner's address
and a number) hold a signed balance, in *Par*, in each market; a market's two
indexes turn Par into *Wei*, the amount of the token.  Everything that changes
an account goes through `operate`, which takes a list of accounts and a list of
actions, and either does all of it or nothing.  The client builds those lists
and sends them; some of them are signed by one person and sent by another.

| Component | State | Operations | Works with |
|---|---|---|---|
| Arithmetic and interest (`DolomiteMarginMath`, `Decimal`, `Interest`, `Types`) | none | three roundings, Par to Wei and back, the update of an index, casts to 128 and 112 bits | used by everything |
| Storage (`Storage`, `Account`) | accounts, markets, risk parameters, operators | `setPar`, `setParFromDeltaWei`, `updateIndex`, `setStatus`; margin checks, amounts, permissions, risk overrides | used by operation and admin |
| Operation (`OperationImpl` and one library for each action) | the cache of markets, for the length of a call | preprocessing, Deposit, Withdraw, Transfer, Buy, Sell, Trade, Call, Liquidate, Vaporize, the final checks | calls token contracts, exchange wrappers, auto-traders, callees, account owners, oracles, interest setters, the sentinel, risk setters |
| Admin (`Admin`, `AdminImpl`) | the parameters in storage | add a market, set parameters, withdraw excess or unsupported tokens, name global operators and special auto-traders | only while no operation runs |
| Permission | local operators | `setOperators` | at any time, also from code an operation calls |
| `Cache`, `Bits`, `EnumerableSet` | the cache's bitmap and array; the set's array and map | add, remove, fill, search | storage and operation |
| Expiry | expiries, approvals, ramp time | set an expiry, trade an expired account | an auto-trader and callee of the operation |
| SignedOperationProxy | operations executed or cancelled | operate, cancel, shut down | a global operator |
| Multi-signature wallets | owners, transactions, confirmations, confirmation times | submit, confirm, revoke, execute, change owners, requirement and time lock | own the contracts |
| Interest setters | rate curves | `getInterestRate` | answer DolomiteMargin |
| Price oracle, sequencer sentinel | aggregators, staleness threshold, grace period | `getPrice`, `isBorrowAllowed`, `isLiquidationAllowed` | answer DolomiteMargin |
| Liquidator proxies (V1, V4, `ExpiryProxy`) | a registry of which of them may touch which market | work out what to liquidate, and ask for it; the owner lists and unlists them | global operators; read DolomiteMargin and Expiry |
| Borrow, transfer, deposit, payable and generic-trader proxies | none | build requests of `operate` | global or local operators |
| Client: calls (`Contracts`) | provider, network, options | `callContractFunction`: estimate, send, turn events into promises | web3 and a node |
| Client: operations (`AccountOperation`, `SignedOperations`, `Signer`, `SignatureHelper`, `WalletLogin`) | the lists of an operation being built | add actions and signed operations, commit, sign, cancel, log in | DolomiteMargin, SignedOperationProxy |
| Client: reads and figures (`Getters`, `Interest`, `Helpers`, `DolomiteMarginMath`) | none | ask the contract, convert, compute rates again | DolomiteMargin, Expiry |
| Client: session (`DolomiteMargin`, `Token`, `StandardActions`) | provider, default account, cached tokens, caller's options | `setProvider`, `setDefaultAccount`, wrapped calls | Contracts |
| Migrations | `deployed.json`, the chain | deploy, link, set up, hand over | all contracts |

### What is hard in it

* **Long sequences.**  `setPar` maintains four derived quantities by increments
  (two totals, a counter of debts, a set of markets).  The margin check skips an
  account whose counter is 0 and reads only the markets of the set.
* **A cache.**  Preprocessing fixes indexes and prices for the whole operation;
  the final check sees the cached markets only.
* **Re-entry.**  Tokens, wrappers, auto-traders and callbacks run in the middle
  of an operation.  The reentrancy guard stops them everywhere but at
  `setOperators`, and nothing stops them from sending tokens.  The wallets have
  no guard: a transaction they execute may confirm, revoke and execute.
* **Trusted flags.**  `vaporize` and `liquidate` do not re-examine an account that
  is already flagged.
* **Rounding.**  Three roundings, in favour of different parties, in a
  liquidation, a conversion, an accrual and an expiry trade; and other roundings
  in the client for the same figures.
* **Parameters that move** between a borrow and the liquidation of it: prices,
  ratios, premiums, limits, the contract that overrides an account's risk.
* **Time between building, signing, sending and mining.**  A transaction carries
  what the lists held when it was sent, an operation signed by one person is
  sent by another, late, twice or after a cancellation, a plan is made from
  prices and expiries that have moved when it is mined.
* **Crashes.**  A migration stops between the deployment of a contract and the
  note of it, and is run again.

### What makes each part correct

* Arithmetic: indexes do not fall, a market's suppliers are credited no more
  than its borrowers are charged, conversions lose at most a unit.
* Storage: the derived quantities agree with the balances, all values fit; sets
  of markets and the cache behave as sets.
* Operation: nobody ends an operation with less than before and unhealthy, or
  with dust; only the unhealthy are liquidated, for at most the spread;
  bystanders are only ever brought nearer to zero; nobody is moved without
  authority; markets stay within their limits; the contract can pay its
  suppliers.
* Admin and Permission: the risk parameters stay consistent in every order of
  calls; no change takes effect in the middle of an operation but an operator's.
* Expiry: expiries move by consent or with the debt; a trade is fair to the
  account and possible when it was planned to be.
* Signed operations: one signature, at most one execution, of what was signed,
  and none after a cancellation.
* Liquidator proxies: the liquidator keeps the ratio he asked for, and what is
  worked out beforehand is what happens.
* Wallets: a transaction runs once, with a quorum, past its time lock.
* Client: what is executed is what was asked for; a receipt means a mined
  transaction, and every promise settles; what is shown is what the contract
  holds or computes.
* Migrations: no record or link without code behind it, the hand-over last, and
  repeated runs finish.

## The modules

The margin contract is one chain of modules, each extending the one before.

| Module | Models | Correspondence |
|---|---|---|
| `MarginMath` | `DolomiteMarginMath.sol`, `Decimal.sol`, `Interest.sol` | A sign and a magnitude are one integer.  `Base` stands for 10^18.  A cast is the predicate `FitsUint128` or `FitsUint112`; products are not truncated, as the code multiplies 128-bit values in 256 bits. |
| `MarginStorage` | `Storage.sol`, `Types.sol`, `Token.sol` | The *ledger* (accounts, totals, indexes, tokens held) is one record; a write is an operator from ledger to ledger.  One that would revert clears the field `ok`, and no step stores such a ledger. |
| `MarginOperation` | `OperationImpl.sol`, the action libraries | `Begin` is `_verifyInputs` and `_runPreprocessing`; each action is one action; `Commit` is `_verifyFinalState`; `Revert` may happen at any point and restores `saved`.  `request` is the running call, `pc` its next action. |
| `MarginAdmin` | `AdminImpl.sol`, `Permission.sol` | One action for each function.  The owner's functions need `Idle` (they are `nonReentrant`); `SetOperators` does not. |
| `DolomiteMargin` | the contract and its world | `Init` is the constructor.  Prices, the sentinel and time change between transactions; `Donate` may happen at any time.  All properties are stated here. |
| `MCDolomiteMargin` | | Instances for TLC. |
| `MarginMathProofs`, `DolomiteMarginProofs`, `MarginSafetyProofs` | | Lemmas and theorems: see The proofs. |

The steps of an operation are separate actions, although the chain runs them in
one transaction, because the code that an operation calls sees (and by
`setOperators` and gifts of tokens changes) what is between them.  An action
itself is one step: what is called within an action can change only
`operators`, which no action reads after its first call out, and the token
balance, which `Donate` raises before or after it.  A call that leaves more
tokens in the middle of an action than it found is the same as one before it,
and vaporize makes its calls out only after both of its reads of the excess.

Abstracted: events, wording, token addresses (a market is its token), the gas
limit of callbacks, the 32-bit clock's end in 2106, tokens that keep a fee or
answer malformed values.  External contracts answer anything from a small set:
a wrapper's cost and delivery, an auto-trader's amount, an interest rate, a
price, the sentinel.

The contracts around it:

| Module | Models | State and actions |
|---|---|---|
| `AccountMarkets`, `MarketSets` | `EnumerableSet.sol`, `Bits.sol`, `Cache.sol`, `initializeCache` | `AccountMarkets` says what the operation relies on: a set of markets per account, and a cache that answers for a set of markets.  `MarketSets` keeps arrays, a map of places and words of a bitmap and searches by halves; its `AM == INSTANCE AccountMarkets WITH ...` reads the array as a set and the cached entries as known markets.  `MapWithout` is the swap-and-pop of `remove`.  Proved in `PartsProofs`. |
| `Expiry` | `Expiry.sol`; `fullyLiquidateExpiredAccount` of the client | `expiries`, `approvals`, the ramp time; set, approve, trade from either side, other operations that change balances, and plans that wait to be mined.  A trade's amounts go through `MarginMath`.  DolomiteMargin is external.  `ProxiesProofs` has the theorems. |
| `LiquidatorProxies` | `LiquidatorProxyBase.sol`, `LiquidatorProxyV1.sol`, `LiquidatorProxyV4WithGenericTrader.sol`, `ExpiryProxy.sol`, `LiquidatorAssetRegistry.sol` | Extends `Expiry` by a second account, `solid`, the flag of the first one, and the registry.  One action per call of a proxy: V1's two loops are a function of the pairs taken so far (`V1Rounds`), with `AmountForPair` the cache it fills in and `Liquidated` what DolomiteMargin makes of it; V4 is `V4Plan`, the liquidation or the trade of an expiry, and a sale.  Expiries are set, time passes and the owner lists and unlists between the calls. |
| `Signatures`, `SignedOperations`, `SignedOperationProxy` | `TypedSignature.sol`, `SignatureHelper.ts`, `Signer.ts`; `SignedOperations.ts`; `SignedOperationProxy.sol` | A hash is what it is the hash of, so two hashes agree exactly when the fields do.  Signers sign, senders combine signed operations with requests of their own, transactions wait in `txs` for any time and are mined in any order; `invalidated` has what was executed or cancelled.  `ProxiesProofs` has the theorems. |
| `MultiSig` | `MultiSig.sol`, `DelayedMultiSig.sol`, `PartiallyDelayedMultiSig.sol` | `kind` says which contract it is.  `wallet` is its storage, `running` the stack of executions under way: `Start` sets the flag and calls out, `RunWalletFunction`, `ExternalCallReturns` and `ExternalCallFails` end the innermost call, and between them contracts that are owners may call.  A failure brings back `before`.  `runs` and `quorum` are history.  `PartsProofs` has the theorems. |
| `InterestRates` | the interest setters; `Interest.ts`, `Helpers.ts`, `DolomiteMarginMath.ts` | Functions only, for both sides; `figure` picks what to compare: a rate of `Interest.ts`, which throws for networks and models it does not know, the polynomial of `Helpers.ts`, which `Interest.ts` does not use, or an amount converted. |

The client and the migrations:

| Module | Models | State and actions |
|---|---|---|
| `Contracts` | `callContractFunction` of `Contracts.ts` | One process per call, one action between two awaits: block gas limit, estimate, send, and the four listeners.  `NodeAnswers` and `NodeWatches` are the node and web3.  `AccountOperationProofs` has the theorem. |
| `OperationBuilder`, `AccountOperation` | `AccountOperation.ts` | The builder's methods are functions of the object; a method that throws leaves what it did so far.  `AccountOperation` adds them as actions, with `commit` going through `Contracts`: `sent` is taken from the lists when web3 encodes them, the authorizations when `commit` is called.  `OperationBuilderProofs` has the lemmas about the builder, `AccountOperationProofs` the theorems. |
| `OperationIntent` | what an operation promises | Ask, seal, execute all of what was asked, at most once.  `AccountOperation` implements it (`Intent == INSTANCE OperationIntent WITH ...`): `executed` is what each mined transaction did. |
| `WalletLogin` | `WalletLogin.ts` | Users sign logins, a server is shown them at any later time with any claim of signer and expiration.  The hash has the seconds of an expiration (`ToUTCString`), the clock is compared with all of it.  Proved in `PartsProofs`. |
| `ClientSession` | `DolomiteMargin.ts`, `Contracts.ts`, `Token.ts`, `StandardActions.ts` | Provider, network and account change; contracts, tokens and callers' option objects stay.  Proved in `PartsProofs`. |
| `Getters` | `Getters.ts`, with the views of the contract | A question asks several getters, blocks are mined between the answers, and the client combines them.  `blocks` holds what each getter would return at each block. |
| `Deployment` | `src/migrations`, `helpers.js` | A run goes through the steps in order; a deployment is read, send, mine, note; `Crash` may happen at each, `OtherReads` and `OtherRecords` write a stale copy of `deployed.json`, a transaction left in `pool` is mined late.  `DeploymentProofs` has the theorems. |
| `MCAccountOperation`, `MCExpiry`, `MCProxies`, `MCDeployment`, `MCParts` | | Instances for TLC. |

`MCParts` is six modules side by side, of which a variable `part` lets one move
in each behaviour: `WalletLogin`, `ClientSession`, `Getters`, `InterestRates`,
`MultiSig` and `MarketSets`.  They share no state, so this is six small runs in
one, and no property of one says anything about the others.  `MCProxies` does the
same with `SignedOperationProxy`, `Expiry` alone and `LiquidatorProxies`.

External to all of these, and modelled from how the code uses them: web3 and the
node (they refuse, give up, reorder events, mine late), wallets (which prefix and
which `v` they use), the chain's CREATE3, token contracts and oracles.

## The runs

In `liquidation` to `interest`, `Base = 10`: a margin ratio of 5 is 50%, a spread
of 2 is 20%, and an index of 13 makes 10 Par 13 Wei, so that roundings happen with
one-digit amounts.  Accounts are `solid` (alice) and `debtor` (bob), markets
`eth` and `usd` (and `btc`).  Deadlock is checked in these; the other systems
really stop (a promise has settled, the clock is at its bound, a run has
finished).  No run needs symmetry.

| Run | What happens in it | What it shows |
|---|---|---|
| `liquidation` | deposits, borrows, price moves between 10, 15 and 30, liquidations by target and by delta, bounded or not, vaporization from excess and for collateral, twice in one request, gifts at any time, owner withdrawals | `ExactBooks` `ExactTotals` `BystandersOnlyShrink` `Solvent` `OperationIsTracked` `VaporizeTakesNoSupply` `OnlyUnhealthyAreLiquidated` `SpreadIsTheMostALiquidatorGets` |
| `trading` | transfers both ways, buys, sells, trades on either side's amount with an auto-trader that may become special, calls, local operators that come and go within operations too | `NoMoveWithoutAuthority` `ExcessIsKept` |
| `portfolio` | one account in three markets, the limit moving between 2 and 3 | `CacheCoversAccounts` `BalancesStayFew` |
| `limits` | caps set below what is used, a market that closes and opens, a sentinel that forbids borrowing, an operation that borrows more than it keeps | `LimitsHold` |
| `governance` | every risk parameter and a premium changed in every order, a lenient and an inconsistent risk setter, for one owner or by default, between borrows and liquidations | `RiskParamsStayValid` `NobodyBorrowsUnhealthily` |
| `interest` | two seconds of interest at 50% and at the cap of 100%, half of it earned, until indexes (30) and balances (5) meet their widths | `Inductive` `IndexesNeverFall` `AccrualIsCovered` |
| `operations` | an operation of the client: actions and signed operations in every order, owners in two spellings, before, between and after two commits with every confirmation type, against a node that refuses, mines late, reverts or loses track | `RequestsMeanWhatWasAsked` `ReceiptsAreConfirmed` `ImplementsIntent` `EveryPromiseSettles` |
| `proxies` | *signed*: three signers with different wallets, senders who mix signed operations with their own actions, late, twice or after a cancellation, the proxy shut down; *expiries*: set by the owner and an approved friend, ramp times of 1 and 2, trades asked for from either side, plans over two collaterals mined before or after something has changed; *liquidators*: with debts, supplies or both, liquidating again and again through V1, V4 and `ExpiryProxy`, before and after debts expire, in markets that are listed and unlisted | `ExecutesOncePerSignature` `NeverAfterCancel` `OnlyWhatWasSigned` `NothingIsMalformed` `ExpiriesAreConsented` `TradesAreFair` `LatePlansComeTrue` `LiquidatorsPlanWell` |
| `rampplan` | a violation: see Findings | `PlansComeTrue` |
| `flip` | a violation: see Findings | `ExpiredDebtsAreAccepted` |
| `deployment` | the migrations of four networks, crashed and repeated, transactions mined late, `deployed.json` overwritten by a stale copy | `OwnershipComesLast` `NothingRefersToNothing` `MigrationsFinish` |
| `parts` | the six parts of `MCParts` | `LoginsAreExactToTheSecond` `SessionIsConsistent` `AnswersAreRight` `ClientComputesAsContracts` `OwnersStayValid` `ExecutionsAreDue` `ImplementsAccountMarkets` |

Each property is stated in words where it is defined.

### The bounds, and why they are enough

* Two accounts: no rule relates more than two accounts of an operation.  A third
  would only be a bystander, and `BystandersOnlyShrink` and
  `NoMoveWithoutAuthority` speak of bystanders among two.
* Two markets: an action names at most two; `portfolio` has the third, which the
  cache is about.
* `MaxUint128` of 2 to 5 and `TokenSupply` of 2 to 5 are reached, so the casts
  and the token supply refuse steps; `MaxUint112` of 30 is reached in `interest`.
* A debt of one unit at a price of 10 against collateral at 10, 15 or 30 passes
  from dust to unhealthy, exactly at the ratio, and healthy.
* Requests have one to three actions: what the code carries from one action to
  the next is the ledger, the flags and the set of primary accounts, and three
  actions (act, be acted on, act again) order them in every way the layouts
  distinguish.
* `MaxTime` is 2 in `interest`: an index updated once is updated again from
  values that are not round.
* `operations`: two calls, because what two commits share is one object, and a
  third shares no more; three actions, so that a signed operation of two and a
  request come in either order; confirmations up to 1 of 1, as waiting for 2 is
  the same count.
* `proxies`, signed: two transactions in the pool are enough for twice, late and after a
  cancellation; a plan has up to three parts, a signed operation before, between
  and after requests; the clock passes both expirations.
* `proxies`, expiries and liquidators: `Base` is 100, a spread is 10% or, with
  `dai`, 25%, and prices are 20, 22 and 8, so that amounts round and amounts do
  not; the clock of 4 passes the deltas, the ramps and a time at which the 32-bit
  bound of 5 refuses an expiry.  Five liquidators (with neither, a supply, a debt
  in the held market, a supply in the owed one, both) and five debtors (healthy
  and not, one and two collaterals, two debts, one unit) hold up to 3001 tokens,
  so that what a pair may lose to rounding (`PairRounding`, about two tokens of each
  market) is small next to what a wrong term of V1's arithmetic is worth.  `LiquidatorRatios` are 35 and 20: one
  above both spreads, one below that of `dai`, where V1 refuses.  Traders give
  the least they are asked for (`Gains` is 0), the worst for the liquidator, and
  all the collateral is sold (`InputAmounts` is `All`).
* `deployment`: two crashes, one to leave a half-done deployment and one to hit
  the repair of it; or one stale copy; and one repetition of a finished run.
* `parts`, wallets: two owners and a third to come, two transactions (one changes
  the rules under the other, or executes it), a lock of 2 in a clock of 3 and two
  nested executions.  Sets: five markets in words of four bits, so that a second
  word is used.  Getters: two blocks, so that an answer may straddle one.
  Logins: two, seconds of two units, and three times of which two are of one second.
  Session: two networks, of which the second lacks contracts.  Rates: tables with
  a 0 between coefficients, a single one and a trailing 0, amounts on each side
  of and at the points of the curves.

`Solvent` speaks of markets in which no interest has accrued: with an index above
1, each writing of a balance may cost half a unit of principal, and nothing bounds
how many there are.  `ExcessIsKept` and `SpreadIsTheMostALiquidatorGets` hold at
any index with the rounding of one step allowed for (`RoundingLoss`,
`WritingLoss`), and both are 0 while there is no interest.  What an accrual itself
may cost is `AccrualIsCovered`'s.

### Fairness and liveness

* `EveryPromiseSettles` assumes, for each call, weak fairness of the client's
  step (a JavaScript continuation that is ready runs), of the node's answer to a
  request, and of web3's watch over a transaction, which ends with a receipt or
  gives up (it does, after 50 blocks or 750 seconds).  Nothing is assumed of
  which answer comes, nor that a transaction is ever mined.
* `MigrationsFinish` assumes that a running migration goes on, that somebody
  runs it again until it succeeds, and that transactions left in the pool are
  mined in the end.  Crashes and copies are bounded by a budget and owed to
  nobody.
* No liveness is stated of DolomiteMargin.  A transaction runs to its end or
  reverts within a block, and nothing obliges anybody to send one: liquidation
  happens when a liquidator sees fit.  `Revert` is what keeps an operation from
  getting stuck, as on the chain.  The same goes for the wallets, for
  Expiry and for the proxies.

## The proofs

Each theorem is for every value of the constants that satisfies the named
assumptions of the modules it is about: `MathAssumption`, `StorageAssumption`,
`OperationAssumption`, `AdminAssumption`, `WorldAssumption`; `BuilderAssumption`,
`SignaturesAssumption`, `SignedAssumption`; `RequestsAssumption`,
`ContractsAssumption`; `ExpiryAssumption`, `LiquidatorsAssumption`; `MultiSigAssumption`,
`LoginAssumption`, `SessionAssumption`; `MarketSetsAssumption`.  They type the constants, require finitely
many accounts and markets (the counter of debts is a cardinality, the totals are
sums), that an index of 1 fits, that signers have wallets and use a signing method
there is, that a wallet is constructed with different owners who can meet the
requirement, and that the masks of `Bits.sol` are halves of halves of a word.  They bound neither the number of accounts, markets, owners, actions,
calls, transactions, nested calls, logins, migrations or seconds nor any amount.

| Theorem | States | In |
|---|---|---|
| `InductiveInvariant`, `TypeCorrect` | `[]Inductive`, `[]TypeOK` | `DolomiteMarginProofs` |
| `BooksStayExact`, `TotalsStayExact` | `[]ExactBooks`, `[]ExactTotals` | |
| `IndexesRise` | `IndexesNeverFall` | |
| `OperationsAreTracked` | `[]OperationIsTracked` | `MarginSafetyProofs` |
| `CacheIsComplete`, `BystandersAreSafe` | `[]CacheCoversAccounts`, `[]BystandersOnlyShrink` | |
| `RiskParamsAreValid` | `[]RiskParamsStayValid` | |
| `AuthorityIsNeeded` | `NoMoveWithoutAuthority` | |
| `VaporizationTakesNoSupply`, `LiquidationNeedsUnhealth` | `VaporizeTakesNoSupply`, `OnlyUnhealthyAreLiquidated` | |
| `BorrowersStayHealthy`, `LimitsAreKept`, `BalancesAreFew` | `NobodyBorrowsUnhealthily`, `LimitsHold`, `BalancesStayFew` | |
| `ExcessStays`, `SuppliersCanBePaid` | `ExcessIsKept`, `[]Solvent` | |
| `LiquidatorsGetTheSpread` | `SpreadIsTheMostALiquidatorGets` | |
| `AccrualsAreCovered` | `AccrualIsCovered` | |
| `SignedOnce`, `SignedOnly`, `CancelledIsNever` | `[]ExecutesOncePerSignature`, `[]OnlyWhatWasSigned`, `[]NeverAfterCancel` | `ProxiesProofs` |
| `AllIsReadBack` | `[]NothingIsMalformed` | |
| `ExpiriesNeedConsent`, `RepaymentsAreFair`, `LatePlansHold` | `ExpiriesAreConsented`, `TradesAreFair`, `LatePlansComeTrue` | |
| `LiquidatorsKeepPlans` | `[]LiquidatorsPlanWell` | |
| `ReceiptsConfirmed` | `[]ReceiptsAreConfirmed` | `AccountOperationProofs` |
| `ListsMeanThat`, `RequestsMeanThat` | `[]ListsMeanWhatWasAsked`, `[]RequestsMeanWhatWasAsked` | |
| `OperationImplementsIntent` | `ImplementsIntent` | |
| `HandOverIsLast`, `ReferencesHold` | `[]OwnershipComesLast`, `[]NothingRefersToNothing` | `DeploymentProofs` |
| `OwnersAreNeverLost`, `OnlyDueTransactionsRun` | `[]OwnersStayValid`, `ExecutionsAreDue` | `PartsProofs` |
| `LoginsAreAsSigned`, `SessionStaysConsistent` | `[]LoginsAreExactToTheSecond`, `[]SessionIsConsistent` | |
| `SetsOfMarketsAreKept`, `CountsStayExact` | `ImplementsAccountMarkets`, `[]CountIsExact` | |

Some hypotheses are not assumptions of the modules, as the systems can be run
without them.  Each theorem that needs one names it, and TLC evaluates all of them
(`InstanceAssumption` of the MC modules).

* `MarginActsForNobody`, for `ExcessStays` and `SuppliersCanBePaid`: no account is
  owned by DolomiteMargin's own address, and it calls no `operate`.  `Token.sol`
  moves no tokens whose source is their destination, so that a deposit from the
  contract itself would credit a balance for nothing.  The contract has no code
  that opens an account or calls `operate`; only a global operator could name
  such an account.
* `EarningsAreAPart`, for `AccrualsAreCovered`: the limit of the earnings rate is at
  most 1, as `getRiskLimits` of `migrations/helpers.js` sets it.  The contract
  itself does not check the limits that its constructor is given.
* `ClientFitsProxy`, for `CancelledIsNever` and `AllIsReadBack`: the client is
  configured for the chain and the proxy, and the accounts that the actions of
  signed operations need have owners.  The client does not check the latter:
  `cancelOperation` takes the account of nobody for no account and puts place 0 in
  its stead, and the hash that is cancelled is another one.
  `OtherAccountsHaveOwners` says the same of an operation of the client.
* `SignablesAreClear` and `PlansAreKnown`, for `AllIsReadBack`: what is signed has
  actions of the known types and data that can be read, and is signed by a wallet
  whose signature the client finds valid and whose `v` is 27 or 28; the actions
  that a sender adds are of the known types.  A wallet with another `v` makes a
  signature that the contract does not accept (see Findings).
* `CommitsAreInOrder`, for `RequestsMeanThat` and `OperationImplementsIntent`: the
  signed operations that are added are readable and are what their signatures are
  of, and `commit` is given options.  Without options it does not mark the operation
  as committed (see Findings), and actions added while it waits are sent with
  authorizations computed before.
* `DomainIsDefault`, for `LoginsAreAsSigned`: logins are signed under the default
  domain (see Findings).

### The margin contract

`MarginMathProofs`: each rounding and conversion stays in its range and keeps
order, and `ConversionRoundTrip`: reading a balance in Wei and writing it back
changes nothing, whatever the index.  In `DolomiteMarginProofs`, `Follows(M, L)`
says that ledger `M` is sound and has `L`'s indexes; each write follows the ledger it
is given, and `SetPar`'s change of the counter is a change of a cardinality.
`DolomiteMarginProofs`: each action of an operation is a chain of writes that
follow each other and ends in `Complete`; the owner's functions and the world
leave the ledger alone or write it once.  `KeptAndRisen` carries the invariant and
the monotony of the indexes through the same case split.

`ExactBooks` is not inductive by itself.  A write preserves it only if the old
balance is an integer within its width (so that flips of sign are what
`DebtChange` says), so typing is needed; typing of an action's result needs the
markets of the action to be in the cache, which is decided in `Begin`
(`RequestIsVerified`); and `Revert` brings back the ledger of `saved`, which must
have been as good (`Sound(saved.ledger)`).  For the indexes, an accrual needs
`lastUpdate <= now` -- a negative interval would shrink an index -- and
`borrow >= supply`, which it preserves because the interest of suppliers is never
more than that of borrowers.  `Inductive` is the conjunction of these, and the
run `interest` checks it with TLC.

`ExactTotals` and the values of accounts are sums over finite sets, folds whose
order a CHOOSE fixes.  `MarginMathProofs` proves by induction over sets (stated with
sets in place of predicates, as an operator cannot be instantiated) that a sum
changes by what one summand changes and does not depend on summands that are 0.
The latter is also why the health that the contract computes over its cache is
`Healthy`, over all markets: what the cache leaves out has no balance.

What an operation promises at its end rests on what its steps keep, the second
layer, `OperationIsTracked`, checked in `liquidation`:

* `CacheCoversAccounts`: without it the final check would not see a debt.  An
  account's set of markets grows only by markets of the action.
* `CacheIsCurrent`: the cache was filled before the first action, and nothing that
  may run in between (a gift, `setOperators`) changes what it holds; so prices,
  indexes and the totals from before are those of the whole operation.
* `BystandersOnlyShrink` and `LosersAreFlagged`: whoever lost a balance has acted
  and is among the accounts that the end examines, or is flagged.
* `VaporHasNoSupply`, in the saved ledger too: `vaporize` trusts the flag, sets a
  balance to 0 without looking at its sign, and `Revert` may bring the flag back.

`BorrowersStayHealthy` then has three cases: an account that was examined, one
that is flagged, and one that lost nothing.

The third layer is about tokens.  `Worth` is a balance in Wei scaled by `Base`,
exact; `Funds` is the tokens held plus what borrowers owe less what suppliers own,
of that worth; and `Earns(M, L, q, x, s)` says that from `L` to `M` the funds of
market `q` grow by `x`, less a slack of at most `s`.  `Earns` is transitive, each
write and each transfer earns what it says, and each action's amounts cancel, so
that two conversions' rounding is all an action can cost.  `ExcessIsNear` takes
this back to `getNumExcessTokens` with the roundings of the totals.  The slack is
0 without interest, which is why `Solvent` is exact there; vaporization pays from
the excess it has read, and never more (`RefundLeavesEnough`,
`CollateralLeavesEnough`).  `SolvencyIsTracked` adds the saved ledger, and that
markets not listed are unused, so that a market can pay when it is listed.

For the spread, `CollateralIsPaidFor` is the arithmetic of `_liquidate`'s two
bounds: collateral taken at its price is at most the debt at the adjusted price,
with the debt recomputed from the collateral rounded up.  `WrittenIsNear` says
what the balance read afterwards may differ by, and `LimitedGain` puts the two
together for liquidation and vaporization.

An accrual (`AccrualIsFair`) compares two products that are rounded apart: what
the index of suppliers grows by times what they hold, and what the index of
borrowers grows by times what they owe.  `SupplyInterestIsEarned` is the core: the
rate of suppliers times their Wei is at most the interest of borrowers times
theirs, as long as no more than all of it is earned.  The rest is rounding, of the
two rates, the two indexes and the two totals.  Most of it is a unit or two whatever
the amounts; the interest of borrowers rounded down costs a unit of the index for
each total that is owed, and this is the part of `AccrualLoss` that grows with it.
That the earnings rate is a part of the interest is an invariant of every setter
(`EarningsStayBounded`), and that only `Begin` accrues is `OnlyBeginsAccrue`.

### Signed operations

`SignedInductive` has two parts.  `TxsAreKnown`: every authorization of a pooled
transaction that carries a signature is of an operation in circulation, and every
cancellation has the lists that `CancelArgs` makes.  This goes through the
client's builder: adding actions leaves authorizations alone, `addSignedOperation`
adds one for what was published, `generateAuthData` adds empty ones.
`HistoryIsSound`: what was executed passed the checks at its time, and its hashes,
and those of cancellations, are in `invalidated`.  `ExecutesOncePerSignature` is
part of it and not inductive without the spent hashes; a new transaction's hashes
differ from all of those and from each other.

`NeverAfterCancel` compares hashes that two sides compute: by induction over the
loop of `cancelOperation`, each action's places point at the accounts that the
action names (`CancelArgsMean`), so that the hash of the lists is the signed one.

`OnlyWhatWasSigned` needs that authorizations follow each other without a gap
(`Covering`, an induction over `Start`), so that an action belongs to one whose
signer the contract has compared with the accounts; that a signature recovers to
an address with a wallet only for the hash it was made of, whatever the wallet
prepended (`RecoversWhatWasSigned`); and that equal hashes are of the same number
of actions with the same meanings (`HashTellsActions`).

`AllIsReadBack` is about what is sent rather than what is accepted.  `Fits` follows a
sender's plan through the builder: the accounts that its actions refer to are in the
list, its authorizations are those of signed operations at the places where they were
added, in order, and `generateAuthData` fills the gaps between them, so that
the contract reads each where its actions are (`GeneratedReaches`, `SameStarts`) and
all actions are covered.  Then the hash that the contract computes through the places
of the common list of accounts is the one that was signed (`SaysSameHash`,
`CoveredHash`): an account that another operation has brought into the list is found
there by its owner's address and number, and a hash has no places in it.

A recursive function is a CHOOSE.  For each that the proofs go through, one lemma
shows that there is a function that satisfies the equation (`SumsExist`,
`AddedExist`, `BuiltExist`, `GeneratedExist`, `ListsExist`, `StartsExist`,
`SetsExist`, `PlansExist`, `RoundsExist`, `AftersExist`, `RoundedExist`, `LsbExists`, `WordsExist`,
`FlatsExist`, `SearchesExist`, and `FoldsExist` for any fold over a set), and facts follow by
`NaturalInduction`.

### Expiries

`AccountIsOK` types the account and its expiries, and `PlanIsOK` says that the
trades of a waiting plan are for one debt and that their amounts are proper.
`Outcome` is a trade, whichever side asks for it: `PriceIsRamped` bounds the price by
the spread that the age of the expiry has reached, and `WorthIsFair` is the
arithmetic of the two directions, each of which rounds against the one who trades.
A transaction with several trades is followed one at a time (`AfterOne`), since an
expiry that a first trade clears must not be used by a second.

A late plan comes true (`LatePlansHold`) because two loops, one of the client and one
of the contract, agree step by step.  `PlanIsMade` says that a waiting plan is what
the client's loop makes of the account it has read; `Follows` that when the contract
has gone through the first trades of the plan, the collateral used is used up, the
rest is untouched, and the debt left is no larger a part of the debt than the client
has left; each trade keeps this (`RestShrinks`), as the contract rounds what is repaid
up; and `LastIsCovered` that the collateral of a last trade that repays the rest is
enough for it.  The client keeps no account of the rounding, so that the theorem is
for plans in which the rounded amounts do not exceed the debt (`RoundedUp`): a plan
of several trades may otherwise ask for a unit more than is owed.

### Liquidators

`LiquidatorInv` types the two accounts; what `LiquidatorsKeepPlans` says follows from it
in every state, by what the proxies and the contracts compute there.

V1 keeps the ratio (`PairKeepsRoom`).  `Room` is what the supply is worth above the
debt and the ratio, and `Value` what one balance adds to it, which is concave: a token
of debt counts for more than a token of supply (`ValueGrows`).  A liquidation is
followed in two parts.  Up to the safe amount the liquidator gives up supply of the
owed market only, or reduces debt of the held one only, and as he is paid more than
he pays his room does not shrink (`SafePartIsSafe`).  After it he has no supply of
the owed market and no debt of the held one, and the cache of the proxy has the very
values of those balances (`SafeAmountIs`, with the assertions of the contract); what is
repaid from there on costs room by the ratio less the spread, and the proxy divides
its buffer by that (`FurtherPartIsCovered`, `AmountIsBuffered`).  What DolomiteMargin
really takes, which may be less as the debt and the collateral are bounded, is a part of
both (`LiquidationPays`).  `RoundsKeepRoom` is the induction over the loops.

The bound is per pair, and is not nothing: the amounts are rounded to tokens, which
costs up to two tokens of each market; and the price the liquidator is paid at is
rounded down (`_getLiquidationPrices`, as in the contract), which costs up to a unit of
price for every token repaid.  The proxy reckons with the exact spread, so that the
second part grows with what is repaid and no bound in tokens alone holds for every
price.  As prices have `36 - decimals` decimals (`Monetary.sol:32`), a unit is little.

What V4 works out is what happens (`PlansStayExact`).  `IsWithin` says of a plan, made
of all there is or reduced to the least output, that DolomiteMargin's and Expiry's own
divisions, each of which starts from one amount and computes the other, lead back to
it (`MostIsWithin`, `PlannedIsWithin`): rounding up what was rounded down gives no
more than there was (`RoundedBack`).

### Operations of the client

`CallsAreOK` is about one call and what web3 has reported to it: each stage of
`callContractFunction` has what the stage before left, a listener resolves with a
receipt only when there is one, and confirmations are counted on the same receipt.
`ReceiptsConfirmed` follows, for any options.

`ObjectIsOK` relates the lists of an operation to what its user asked for: an account
is pushed once, by its text or by that of its address, a place once given out is never
another account's, and each action reads back (`Says`) as the request it was made
from.  A method that throws half-way has pushed accounts and no action, which
harms neither.  `RequestsAreOK` adds what commits need: at most one call that marks
the operation is under way (`OneIsLive`), so the lists that are encoded later are
those that the authorizations were computed from (`SentIsSame`), and these reach to
the end of the actions (`AuthsReach`).

`OperationImplementsIntent` maps every step of the client to a step of
`OperationIntent`: requests ask, the commit that marks the operation seals, the first
transaction that is mined executes, and everything else stutters: estimates,
simulations, refusals, reverts, lost transactions.

### Migrations

`MigrationsAreWellPlanned` looks at each list of steps: whatever a step deploys, links
or sets names only what an earlier step of the list has made, and the hand-over
is the last.  `DeploymentInv` says how far a run has got: what the steps before it
were to do is done (`DoneBefore`), in this run or in one before, and records, stale
copies of `deployed.json`, artifacts, links and transactions in the pool name
contracts with code, whose needs have code too (`Linked`).  A step that is repeated
finds its work done or does it again; neither undoes anything.

### Logins and the session

A login is a signed hash of an expiration, to the second.  `PrependedIsOfOne` says that what
a wallet may put before a hash tells which hash it was, and `SignedBy` that a
signature that recovers to a user was made by him for this hash; by the invariant
`LoginInv` he signed it in a login, for a time with the same text (`HashTellsTime`),
so of the same second, and times of one second are less than a second apart
(`OneSecondIsShort`).

`SessionInv`: every contract object speaks to the provider, network and default
account of the session it is in, and a call goes to the address of its contract there.
It needs the lists of contracts that `setProvider` and `setDefaultAccount` go through
to be complete, which is `SessionAssumption` and an enumeration; the contract of a
token is made for the session when it is asked for (`MadeForItsSession`).  Of options objects that callers pass,
`UntouchedStay` says that those which no call has filled in are still the caller's.

### The wallets of the owners

`MultiSigInv` speaks of the wallet and of the executions under way.  `IsGood`: the
owners and the requirement are valid; `runs` is 1 for exactly the executed
transactions; and in a wallet with a time lock, `IsTimed`: the time that the lock
counts from is that of the present quorum, unless a change of rules completed the
quorum, which sets no time.  `confirmTransaction` keeps `IsTimed` because it sets
the time whenever it completes a quorum, the second and later ones included, and
refuses a transaction that is confirmed already.

`FramesAreKept` is what re-entry needs: a failure brings back the wallet of the
time of the call, so every `before` is as good as the wallet, and the wallet has
grown from each `before`, the inner ones from the outer ones.  So what a rollback
forgets is never more than what ran after the call, nothing runs a second time
without having been rolled back, and the transaction that a frame executes is still
there when the call returns.  `OwnerIsRemoved` is the one step about lists that is
not obvious: the last owner takes the place of the one who goes, who may be the last.

### Sets of markets

`SetsInv` says how each set is kept.  `SetIsKept`: the map has the index of every
value in the array, and of nothing else; when a value is removed, the last one takes
its place and its index, also when it is the one removed (`RemovingKeepsSet`).
`CacheIsKept`: the bitmaps hold only markets that are listed, there were counted as
many as they hold, and the array, once it is filled, goes up and has exactly these.

Three loops carry this.  `getLeastSignificantBit` looks at one half of the word after
another: after each, what is left of the word is as wide as the half, and its least
bit is as far below the answer so far as the least bit of the word is below the answer
(`LsbHolds`), until a width of 1 leaves no choice (`LsbIsLeast`).  So the walk over a
word lists its bits from the least up (`WordIsListed`), and the words follow one
another (`WordsAreListed`), as a market's word and bit are the quotient and the
remainder of one division (`DivModOf`, `MarketsHaveBits`).  In an array that goes up,
the search that drops a half of what is left drops what cannot be it
(`HalvesAreApart`), so it finds a market exactly when the array has it
(`SearchIsExact`).

`SetsOfMarketsAreKept` maps every step to one of `AccountMarkets`; reading a balance
into the bitmaps (`UpdateMarket`) and listing a market are stutters.
`CountsStayExact` says that the assertion with which `initializeCache` ends never
fails: a market is counted when its bit is set for the first time.

### Only model-checked

* `AnswersAreRight` and `ClientComputesAsContracts` compare tables of answers and of
  rates that are case distinctions over many getters and curves; a proof would repeat
  them.  What recursive operators compute (the curves of `InterestRates`) is out of
  the prover's reach.
* Liveness under fairness (`EveryPromiseSettles`, `MigrationsFinish`), which is out
  of the prover's reach.

## Findings

Two runs are expected to fail.  `rampplan`:
`fullyLiquidateExpiredAccount` (`AccountOperation.ts:484`) scales the whole
debt by the age of the expiry, where `Expiry.sol` scales the spread only.  Within
the ramp it therefore expects collateral to cover a debt that it does not cover,
leaves out the trades that would, and says "we expect no remaining owedWei"; the
operation reverts.  After the ramp the plans hold, which is `LatePlansComeTrue`
in `proxies`, but for one thing: the contract rounds the debt that each collateral
repays up, and the client does not, so that several trades may ask for a unit more
than the debt, which Expiry refuses.  `LatePlansComeTrue` is stated for the plans in
which they do not (`RoundedUp`).

`flip`: `ExpiryProxy.sol:144` compares the collateral with the debt at its price
without the spread, though the comment on the next line says "adjusted debt" and
`LiquidatorProxyBase.sol:268` does adjust it.  Where the collateral is worth more
than the debt and less than the debt with its spread, the proxy asks to repay all
of it, for more collateral than the account has in that market, and Expiry
refuses: such a debt, of an account that is healthy by another collateral, cannot
be expired by the proxy in that pair.

Other places where code, comments and documents differ, met while modelling.
The models follow the code.

Contracts:

* `Actions.sol:164-167` says that an account below the margin ratio "can be
  liquidated by any other account"; `liquidate` requires the sender to be a
  global operator (`LiquidateOrVaporizeImpl.sol:62`), as `README.md:94-95` of the
  repository has it.
* `DelayedMultiSig`: the time lock is said to be the "Duration needed after a
  transaction is confirmed and before it becomes executable".  A quorum that is
  completed by a change of owners or of the requirement, rather than by a
  confirmation, writes no confirmation time.  The time is then 0, or that of an
  earlier quorum, and the transaction needs no delay, or a shorter one.
  `ExecutionsAreDue` excepts exactly these (`quorum.by = "rules"`).  The comment
  of `setConfirmationTime` speaks of when a submission "first passed"; each
  completion sets the time anew.
* `Expiry.sol:454`: an expiry that is not the subject of a trade stays when its
  debt is repaid in another way, and the next debt in that market is found
  already expired.
* `DolomiteVersionLib` has two functions for two versions of the contracts.  On
  Arbitrum One the spread of a liquidation is read without the account
  (`:51`), and that of an expiry with it (`:73`); elsewhere it is the other way
  round, though the Expiry of this repository applies the account's override.
* `LiquidatorProxyV1` adds to `totalValueLiquidated` what it has asked for
  (`:188`), which DolomiteMargin may bound, before it compares that with
  `_minValueLiquidated`.
* `LiquidatorProxyBase` lets a debt of 0 through ("Owed market cannot be
  positive") and then asserts that there is something to repay (`:297`).
* Taking the last liquidator from a market's whitelist opens the market to all of
  them (`LiquidatorAssetRegistry.sol:105`).

Client, operations and calls:

* A call waits for its transaction to be mined by default (`Contracts.ts:156`);
  `docs/typescript.md:75` says that it resolves "when transaction is received by
  the node - not when mined".  An invalid confirmation type is refused only after
  the transaction was sent (`Contracts.ts:382`).
* `commit` without options does not mark the operation as committed
  (`AccountOperation.ts:366`), so it may be committed again; and it returns the
  promise of the call without awaiting it, so that a refused call leaves the
  operation marked for good (`:398`).
* The default signer of `createSignableOperation` is the owner of the first
  account of the list (`AccountOperation.ts:352`), whose ever that is.
* A typed-data signature with a low `v` is passed on as it is (`Signer.ts:79`)
  and is valid for the client and not for the contract.  `signLogin` names the
  signed structure after the option `domain` (`WalletLogin.ts:82`), so that typed
  data is signed for the hash that is checked only under the default name.
* A login is signed for a text without milliseconds (`WalletLogin.ts:88`, `:122`),
  and the clock is compared with the full `Date` that is claimed (`:106`).  A login
  signed until :00.000 is accepted until :00.999 from whoever claims that;
  `AdmitsOnlyLogins` bounds it by that second.

Client, reads and figures:

* `getMarket` returns `maxBorrowWei` without its sign (`Getters.ts:488`), where
  `getMarketWithInfo` (`:511`) and `Storage.sol:105-107` have it at most 0.
* `isAccountLiquidatable` reads the status without the caller's options
  (`Getters.ts:750`), so at the latest block whatever the others are read at; and
  it does not round the margin as the contract does.  `LiquidatableAgreesWithContract`
  is about the account that the three reads make together, which may be none that
  there was at any block.
* `Interest.ts` throws for any model but three (`:77-86`), so it has no rate for the
  market of a `PolynomialInterestSetter`, though `Helpers.ts` has the function.  No
  market of `interest-constants.json` has one.
* A `DoubleExponent` setter with all of its coefficients in the constant term
  never leaves its loop for 0 < borrow < supply, though its constructor accepts
  that.
* The client's `getPartialRoundUp` of 0 is 1 for denominators above 1, the
  contract's is 0; and a supply rate is shown for markets with no supply.

Client, session:

* A contract without an address on the new network keeps the one of the network
  before; `setProvider` of `DolomiteMargin` does not change the network id of
  `operation`, `signedOperations` and `walletLogin`.
* `StandardActions` fills in the options object of its caller, so that `from`
  and the amount of ETH persist into the next call with the same object.
  `OwnersSend` excepts these.

Migrations:

* On mainnet the sequencer feed is looked up, and throws, after DolomiteMargin
  has been deployed; on the docker network `getTokens` throws.
* `initializePayableMarket` is not awaited (`10_setup`, line 102), and the
  `catch` around `addMarkets` (line 116) swallows every error.
* `deployed.json` is written back whole by `SaveDeployedAddresses` and by
  `deployContractIfNecessary` from copies read before; an entry for a new name
  that is lost makes `helpers.js:320` throw a `TypeError` in every later run
  (`Forgotten` in `MigrationsFinish`, which allows for this, for good, instead of
  finishing).

## Not modelled

* The account and generic-trader proxies.  They build requests of `operate`,
  which `DolomiteMargin` takes from a set; what is theirs is their own checks of
  who may ask, of balances afterwards and of paths of traders.  Of the liquidator
  proxies: premiums on margins, risk overrides and indexes other than 1, which
  `MarginStorage` has, and the traders that V4 passes the collateral to.
* `ChainlinkPriceOracleV1` and `ChainlinkOracleSentinel`: DolomiteMargin is
  checked for any answer of theirs.
* `ownerSetInterestSetter` and `ownerSetCallbackGasLimit`: the model takes any
  rate, and any callback that reentrancy allows.
* Tokens that keep a fee or answer malformed values.
* The rest of the client (`Admin`, `Permissions`, `Logs`, the proxies' wrappers,
  the subgraph): each method is one call through `Contracts`, or the parsing of
  an event.  `getMarketUtilization`, which uses the stored index, with them.
* Development networks, scripts, tests, and `contracts_coverage`, a copy of the
  contracts for the coverage tool.  Events, views in batches, `Require`, `Time`:
  no state of the system.

## The plan from here

1. More proofs: `AnswersAreRight`, getter by getter.
2. An abstract ledger that changes only from one committed operation to the
   next, with what each is allowed to do to an account, and `DolomiteMargin`
   shown to implement it (`ledger` mapped to `saved.ledger` while an operation
   runs).
3. The oracle and the sentinel; then the account proxies and the paths of the
   generic traders.
