----------------------------- MODULE WalletLogin -----------------------------
(***************************************************************************)
(* WalletLogin.ts: a user signs that he logs in until some time, and a     *)
(* server that runs the same class with the same options is shown          *)
(* signatures, again and again and with any claim of who signed what.      *)
(*                                                                         *)
(* Times are Dates, in milliseconds.  What is signed of one is its text,   *)
(* which goes down to the second.                                          *)
(***************************************************************************)
EXTENDS Signatures, FiniteSets

CONSTANTS
  Domain,      \* the option `domain`, 'Dolomite' when it is not given
  Version,     \* the option `version`
  NetworkId,
  Second,      \* the milliseconds in a second
  Expirations, \* until when users log in, or are said to
  Methods,     \* the signing methods they use
  MaxLogins,   \* a bound on the logins in circulation
  MaxTime      \* a bound on the clock

ASSUME LoginAssumption ==
  /\ Methods \subseteq HashMethods \cup TypedDataMethods
  /\ Expirations \subseteq Nat
  /\ Second \in Nat \ {0}

VARIABLES
  now,     \* the clock
  logins,  \* what signLogin has returned, and for what
  admitted \* the claims the server has found valid, and when

loginVars == <<now, logins, admitted>>

LoginInit == now = 0 /\ logins = {} /\ admitted = {}

DomainData == [name |-> Domain, version |-> Version, chainId |-> NetworkId]

\* A fault: the text goes down to the minute only (of two seconds).
ToMinuteString(date) == date \div (2 * Second)

\* Date.toUTCString: one text for all of a second.
ToUTCString(date) == date \div Second

GetWalletLoginHash(expiration) ==
  [domain |-> DomainData, type |-> "Dolomite", action |-> "Login",
   expiration |-> ToUTCString(expiration)]

\* The typed data name the structure after the domain.
TypedDataHash(expiration) ==
  [domain |-> DomainData, type |-> Domain, action |-> "Login",
   expiration |-> ToUTCString(expiration)]

\* A fault: an old login is as good as a new one.
WalletLoginIsValidForEver(expiration, signature, signer) ==
  HasValidSignature(GetWalletLoginHash(expiration), signature, signer)

WalletLoginIsValid(expiration, signature, signer) ==
  /\ HasValidSignature(GetWalletLoginHash(expiration), signature, signer)
  /\ expiration > now

\* A fault: the probe for a prefix asks the other way round.
LoginSignatureReversed(expiration, signer, method) ==
  LET hash == GetWalletLoginHash(expiration)
      unsafeHashSig == Sign(hash, signer, "UnsafeHash")
  IN  CASE method \in TypedDataMethods ->
             EthSignTypedDataInternal(TypedDataHash(expiration), signer)
        [] method = "Compatibility" ->
             IF WalletLoginIsValid(expiration, unsafeHashSig, signer)
             THEN Sign(hash, signer, "Hash") ELSE unsafeHashSig
        [] OTHER -> Sign(hash, signer, method)

\* Compatibility asks walletLoginIsValid which of the two signatures is right.
LoginSignature(expiration, signer, method) ==
  LET hash == GetWalletLoginHash(expiration)
      unsafeHashSig == Sign(hash, signer, "UnsafeHash")
  IN  CASE method \in TypedDataMethods ->
             EthSignTypedDataInternal(TypedDataHash(expiration), signer)
        [] method = "Compatibility" ->
             IF WalletLoginIsValid(expiration, unsafeHashSig, signer)
             THEN unsafeHashSig ELSE Sign(hash, signer, "Hash")
        [] OTHER -> Sign(hash, signer, method)

SignLogin(expiration, signer, method) ==
  /\ Cardinality(logins) < MaxLogins
  /\ logins' = logins \cup
       {[expiration |-> expiration, signer |-> signer, method |-> method,
         signature |-> LoginSignature(expiration, signer, method)]}
  /\ UNCHANGED <<now, admitted>>

Show(signature, expiration, signer) ==
  /\ WalletLoginIsValid(expiration, signature, signer)
  /\ admitted' = admitted \cup
       {[expiration |-> expiration, signer |-> signer, at |-> now]}
  /\ UNCHANGED <<now, logins>>

Tick ==
  /\ now < MaxTime
  /\ now' = now + 1
  /\ UNCHANGED <<logins, admitted>>

LoginNext ==
  \/ \E expiration \in Expirations, signer \in DOMAIN Wallets, method \in Methods :
       SignLogin(expiration, signer, method)
  \/ \E login \in logins, expiration \in Expirations, signer \in DOMAIN Wallets :
       Show(login.signature, expiration, signer)
  \/ Tick

LoginSpec == LoginInit /\ [][LoginNext]_loginVars

-----------------------------------------------------------------------------
(* Properties.                                                             *)

\* Another domain is another type, which the hash that is checked does not have.
DomainIsDefault == Domain = "Dolomite"

\* A server admits someone only for a login that he has signed, himself, until a
\* time in the second that is claimed, and never once the claimed time has come.
\* The hash does not tell times of one second apart and the clock does, so that
\* whoever shows a login may claim the end of its second and be admitted after
\* the time that was signed; but always by less than a second.
AdmitsOnlyLogins ==
  \A a \in admitted :
    /\ a.at < a.expiration
    /\ \E login \in logins :
         /\ login.signer = a.signer
         /\ login.expiration \div Second = a.expiration \div Second
         /\ a.at < login.expiration + Second - 1

\* Compatibility is for any wallet that prefixes in decimal or not at all;
\* the others are for wallets that do what they are named for.
Suits(method, wallet) ==
  CASE method = "Hash"          -> wallet.prefix = "Decimal"
    [] method = "UnsafeHash"    -> wallet.prefix = "None"
    [] method = "Compatibility" -> wallet.prefix \in {"None", "Decimal"}
    [] OTHER                    -> TRUE

\* A login, with a method that suits the wallet, is valid until it expires.
LoginsAreValid ==
  \A login \in logins :
    Suits(login.method, Wallets[login.signer]) /\ now < login.expiration =>
      WalletLoginIsValid(login.expiration, login.signature, login.signer)

\* Valid is what has been signed and has not expired, for any server and time,
\* and nothing else, but for the rest of a second.
LoginsAreExactToTheSecond == AdmitsOnlyLogins /\ LoginsAreValid
=============================================================================
