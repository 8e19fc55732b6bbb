----------------------------- MODULE Signatures -----------------------------
(***************************************************************************)
(* The typed signatures of the client (SignatureHelper.ts, Signer.ts) and  *)
(* of the contract (TypedSignature.sol).  A wallet signs the hash it is    *)
(* given or the hash of a prefix and that hash; the last byte of a typed   *)
(* signature says which.  Hashes do not collide: a hash is what it is the  *)
(* hash of, and a signature recovers to its signer for what was signed and *)
(* to a stranger for everything else.                                      *)
(***************************************************************************)
EXTENDS Naturals

CONSTANTS
  Wallets,   \* for each address that signs: how its wallet does
  Stranger,  \* an address nobody has the key of
  NoOne      \* address(0)

SignaturePrefixes == {"None", "Decimal", "Hexadecimal"}

\* The signing methods that ask for eth_sign, and those for typed data.
HashMethods == {"Hash", "UnsafeHash", "Compatibility"}
TypedDataMethods == {"TypedData", "MetaMask", "MetaMaskLatest", "CoinbaseWallet"}

\* v is 27 or 28 (high) or, from some wallets, 0 or 1 (low).
ASSUME SignaturesAssumption ==
  /\ \A a \in DOMAIN Wallets :
       Wallets[a] \in [prefix : SignaturePrefixes, vOfHash : {"low", "high"},
                       vOfTypedData : {"low", "high"}]
  /\ {Stranger, NoOne} \cap DOMAIN Wallets = {}

-----------------------------------------------------------------------------
(* What wallets return.                                                    *)

Prepended(prefix, hash) ==
  IF prefix = "None" THEN <<hash>> ELSE <<prefix, hash>>

EthSign(hash, signer) ==
  [signer |-> signer, over |-> Prepended(Wallets[signer].prefix, hash),
   v |-> Wallets[signer].vOfHash]

\* The wallet computes the hash of the structure itself, and prepends nothing.
EthSignTypedData(hash, signer) ==
  [signer |-> signer, over |-> <<hash>>, v |-> Wallets[signer].vOfTypedData]

-----------------------------------------------------------------------------
(* What the client makes of it.                                            *)

FixRawSignature(raw) == [raw EXCEPT !.v = "high"]

CreateTypedSignature(raw, type) == [raw |-> FixRawSignature(raw), type |-> type]

SignedHash(hash, type) == Prepended(type, hash)

\* ethers reads a low v as the high one.
EcRecoverTypedSignature(hash, signature) ==
  IF signature.raw.over = SignedHash(hash, signature.type)
  THEN signature.raw.signer ELSE Stranger

HasValidSignature(hash, signature, expectedSigner) ==
  EcRecoverTypedSignature(hash, signature) = expectedSigner

\* ethSignTypedDataInternal appends the type to the answer of the wallet.
EthSignTypedDataInternal(hash, signer) ==
  [raw |-> EthSignTypedData(hash, signer), type |-> "None"]

\* signOperation, signCancelOperationByHash and signLogin.
Sign(hash, signer, method) ==
  LET raw == EthSign(hash, signer)
      hashSig == CreateTypedSignature(raw, "Decimal")
      unsafeHashSig == CreateTypedSignature(raw, "None")
  IN  CASE method \in TypedDataMethods -> EthSignTypedDataInternal(hash, signer)
        [] method = "Hash"             -> hashSig
        [] method = "UnsafeHash"       -> unsafeHashSig
        [] method = "Compatibility"    ->
             IF HasValidSignature(hash, unsafeHashSig, signer)
             THEN unsafeHashSig ELSE hashSig

-----------------------------------------------------------------------------
(* What the contract makes of it: ecrecover does not know a low v.         *)

Recover(hash, signature) ==
  IF signature.raw.v = "low" THEN NoOne
  ELSE IF signature.raw.over = SignedHash(hash, signature.type)
  THEN signature.raw.signer ELSE Stranger
=============================================================================
