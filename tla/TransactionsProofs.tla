-------------------------- MODULE TransactionsProofs --------------------------
(***************************************************************************)
(* Proofs about recover_sender of cancun/transactions.rs: which signatures *)
(* it refuses, and what the hash it hands to secp256k1_recover covers, for *)
(* every field value, every SECP256K1N and every U64 width, as long as the *)
(* executing chain ids fit twice into a U64.                               *)
(***************************************************************************)
EXTENDS Transactions, TLAPS

(* chain_id * 2 fits into a U64 for every chain id the node executes.  For *)
(* a larger chain id the code panics (debug build) or wraps (release       *)
(* build), and both properties below fail: this hypothesis is not implied  *)
(* by the code.                                                            *)
ChainIdsFitU64 == \A c \in ChainIds : 2 * c <= U64Max

(* U64::from(chain_id * 2) is chain_id * 2 when it fits. *)
LEMMA DoubledChainId ==
  ASSUME NEW c \in Nat, 2 * c <= U64Max
  PROVE  (c * 2) % 2^U64Bits = 2 * c
  <1>1. 2^U64Bits \in Nat /\ 2 * c < 2^U64Bits
    BY TxConstantsAssumption DEF U64Max
  <1>2. QED
    BY <1>1

(* An InvalidSignatureError is an error result. *)
LEMMA ErrorIsErr == ASSUME NEW e PROVE IsErr([ok |-> FALSE, err |-> e])
  BY DEF IsErr

(***************************************************************************)
(* The checks of recover_sender, taken in the code's order: the r range,   *)
(* the s range (low s), then for a legacy transaction v of 27/28 or of     *)
(* 35/36 + 2 * chain_id, for a typed one y_parity of 0 or 1.  A signature  *)
(* that fails one is refused with an error; one that passes all reaches    *)
(* secp256k1_recover with a hash.                                          *)
(***************************************************************************)
LEMMA RecoverSenderChecks ==
  ASSUME NEW c \in Nat, 2 * c <= U64Max, NEW t \in Transaction
  PROVE  IF CanonicalSignature(c, t) THEN "hash" \in DOMAIN RecoverSender(c, t)
         ELSE IsErr(RecoverSender(c, t))
  <1> DEFINE out == RecoverSender(c, t)
  <1> USE TxConstantsAssumption
  <1>1. /\ t.r \in Nat /\ t.s \in Nat /\ t.v \in Nat /\ t.yParity \in Nat
        /\ t.type \in TxTypes
    BY DEF Transaction
  <1>2. (c * 2) % 2^U64Bits = 2 * c
    BY DoubledChainId
  <1>2a. ~(c * 2 > 2^U64Bits - 1)
    BY DEF U64Max
  <1>3. CASE t.r = 0 \/ t.r >= SecpN
    <2>1. out = [ok |-> FALSE, err |-> "bad r"]
      BY <1>3 DEF RecoverSender
    <2>2. ~CanonicalSignature(c, t)
      BY <1>1, <1>3 DEF CanonicalSignature
    <2>3. QED
      BY <2>1, <2>2, ErrorIsErr
  <1>4. CASE ~(t.r = 0 \/ t.r >= SecpN) /\ (t.s = 0 \/ t.s > SecpN \div 2)
    <2>1. out = [ok |-> FALSE, err |-> "bad s"]
      BY <1>4 DEF RecoverSender
    <2>2. ~CanonicalSignature(c, t)
      BY <1>1, <1>4 DEF CanonicalSignature
    <2>3. QED
      BY <2>1, <2>2, ErrorIsErr
  <1>5. CASE ~(t.r = 0 \/ t.r >= SecpN) /\ ~(t.s = 0 \/ t.s > SecpN \div 2)
    <2>1. /\ 0 < t.r /\ t.r < SecpN
          /\ 0 < t.s /\ 2 * t.s < SecpN
      BY <1>1, <1>5
    <2>2. CanonicalSignature(c, t) <=>
            IF t.type = "legacy" THEN t.v \in {27, 28, 35 + 2 * c, 36 + 2 * c}
            ELSE t.yParity \in {0, 1}
      BY <2>1 DEF CanonicalSignature
    <2>3. CASE t.type = "legacy" /\ t.v \in {27, 28}
      <3>1. "hash" \in DOMAIN out
        BY <1>5, <2>3 DEF RecoverSender
      <3>2. QED
        BY <2>2, <2>3, <3>1
    <2>4. CASE t.type = "legacy" /\ t.v \notin {27, 28} /\ t.v \notin {35 + 2 * c, 36 + 2 * c}
      <3>1. out = [ok |-> FALSE, err |-> "bad v"]
        <4>1. t.v \notin {35 + ((c * 2) % 2^U64Bits), 36 + ((c * 2) % 2^U64Bits)}
          BY <1>2, <2>4
        <4>2. QED
          BY <1>2a, <1>5, <2>4, <4>1, Zenon DEF RecoverSender, U64Max
      <3>2. QED
        BY <2>2, <2>4, <3>1, ErrorIsErr
    <2>5. CASE t.type = "legacy" /\ t.v \notin {27, 28} /\ t.v \in {35 + 2 * c, 36 + 2 * c}
      <3>1. "hash" \in DOMAIN out
        <4>1. t.v \in {35 + ((c * 2) % 2^U64Bits), 36 + ((c * 2) % 2^U64Bits)}
          BY <1>2, <2>5
        <4>2. QED
          BY <1>2a, <1>5, <2>5, <4>1, Zenon DEF RecoverSender, U64Max
      <3>2. QED
        BY <2>2, <2>5, <3>1
    <2>6. CASE t.type # "legacy" /\ t.yParity \notin {0, 1}
      <3>1. out = [ok |-> FALSE, err |-> "bad y_parity"]
        BY <1>5, <2>6 DEF RecoverSender
      <3>2. QED
        BY <2>2, <2>6, <3>1, ErrorIsErr
    <2>7. CASE t.type # "legacy" /\ t.yParity \in {0, 1}
      <3>1. "hash" \in DOMAIN out
        BY <1>5, <2>7 DEF RecoverSender
      <3>2. QED
        BY <2>2, <2>7, <3>1
    <2>8. QED
      BY <2>3, <2>4, <2>5, <2>6, <2>7
  <1>6. QED
    BY <1>3, <1>4, <1>5

(***************************************************************************)
(* RejectsNonCanonicalSignature is not inductive by itself: its step needs *)
(* the held transaction to be a transaction, which Init picks from         *)
(* TxInputs and no call changes.                                           *)
(***************************************************************************)
RecoverInv == tx \in TxInputs /\ RejectsNonCanonicalSignature

(***************************************************************************)
(* On every chain whose id fits twice into a U64, every recover_sender     *)
(* call a node makes refuses exactly the non-canonical signatures (EIP-2   *)
(* low s, EIP-155 recovery id) with InvalidSignatureError and passes every *)
(* canonical one on to secp256k1_recover, never panicking before it.       *)
(***************************************************************************)
THEOREM RejectsNonCanonicalSignatureHolds ==
  ChainIdsFitU64 => (Spec => []RejectsNonCanonicalSignature)
  <1> SUFFICES ASSUME ChainIdsFitU64 PROVE Spec => []RejectsNonCanonicalSignature
    OBVIOUS
  <1>1. Init => RecoverInv
    BY DEF Init, RecoverInv, RejectsNonCanonicalSignature
  <1>2. RecoverInv /\ [Next]_vars => RecoverInv'
    <2> SUFFICES ASSUME RecoverInv, [Next]_vars PROVE RecoverInv'
      OBVIOUS
    <2>1. tx \in Transaction
      BY TxInputsAssumption DEF RecoverInv
    <2>2. ASSUME NEW c \in ChainIds, RecoverCall(c) PROVE RecoverInv'
      <3>1. c \in Nat /\ 2 * c <= U64Max
        BY TxConstantsAssumption DEF ChainIdsFitU64
      <3>2. IF CanonicalSignature(c, tx) THEN "hash" \in DOMAIN RecoverSender(c, tx)
            ELSE IsErr(RecoverSender(c, tx))
        BY <2>1, <3>1, RecoverSenderChecks
      <3>3. QED
        BY <2>2, <3>2 DEF RecoverInv, RecoverCall, RejectsNonCanonicalSignature
    <2>3. ASSUME NEW w \in WiresOf(tx), DecodeCall(w) PROVE RecoverInv'
      BY <2>3 DEF RecoverInv, DecodeCall, RejectsNonCanonicalSignature
    <2>4. ASSUME NEW e \in EithersOf(tx), DecodeTransactionCall(e) PROVE RecoverInv'
      BY <2>4 DEF RecoverInv, DecodeTransactionCall, RejectsNonCanonicalSignature
    <2>5. CASE IntrinsicCostCall \/ ValidateCall
      BY <2>5 DEF RecoverInv, IntrinsicCostCall, ValidateCall, RejectsNonCanonicalSignature
    <2>6. ASSUME NEW x \in Excesses, DataFeeCall(x) PROVE RecoverInv'
      BY <2>6 DEF RecoverInv, DataFeeCall, RejectsNonCanonicalSignature
    <2>7. CASE UNCHANGED vars
      BY <2>7 DEF RecoverInv, vars, RejectsNonCanonicalSignature
    <2>8. QED
      BY <2>2, <2>3, <2>4, <2>5, <2>6, <2>7 DEF Next
  <1>3. QED
    BY <1>1, <1>2, PTL DEF Spec, RecoverInv

(* The fields of each struct, as impl_extended! lists them. *)
LEMMA StructFieldsValues ==
  /\ StructFields("legacy") = {"nonce", "gasPrice", "gas", "to", "value", "data", "v", "r", "s"}
  /\ StructFields("accessList") = {"chainId", "nonce", "gasPrice", "gas", "to", "value", "data",
                                   "accessList", "yParity", "r", "s"}
  /\ StructFields("feeMarket") = {"chainId", "nonce", "maxPriorityFee", "maxFee", "gas", "to",
                                  "value", "data", "accessList", "yParity", "r", "s"}
  /\ StructFields("blob") = {"chainId", "nonce", "maxPriorityFee", "maxFee", "gas", "to",
                             "value", "data", "accessList", "maxFeePerBlobGas", "blobs",
                             "yParity", "r", "s"}
  BY DEF StructFields, FieldOrder

(* The pre-EIP-155 hash covers the legacy fields but v, r and s. *)
LEMMA Pre155Covers ==
  ASSUME NEW c, NEW t \in Transaction, t.type = "legacy", t.v \in {27, 28}
  PROVE  SigningHashPre155(t).fields = SignedPayload(c, t)
  <1>1. StructFields(t.type) \ {"v", "yParity", "r", "s"}
          = {"nonce", "gasPrice", "gas", "to", "value", "data"}
    BY StructFieldsValues
  <1>2. SignedPayload(c, t)
          = [f \in {"nonce", "gasPrice", "gas", "to", "value", "data"} |-> t[f]]
    BY <1>1 DEF SignedPayload
  <1>3. QED
    BY <1>2 DEF SigningHashPre155

(* The EIP-155 hash covers the same fields and the executing chain id. *)
LEMMA Eip155Covers ==
  ASSUME NEW c, NEW t \in Transaction, t.type = "legacy", t.v \notin {27, 28}
  PROVE  SigningHash155(t, c).fields = SignedPayload(c, t)
  <1>1. StructFields(t.type) \ {"v", "yParity", "r", "s"}
          = {"nonce", "gasPrice", "gas", "to", "value", "data"}
    BY StructFieldsValues
  <1>2. SignedPayload(c, t)
          = [f \in {"nonce", "gasPrice", "gas", "to", "value", "data", "chainId", "zero1", "zero2"} |->
               IF f = "chainId" THEN c ELSE IF f \in {"zero1", "zero2"} THEN 0 ELSE t[f]]
    BY <1>1 DEF SignedPayload
  <1>3. QED
    BY <1>2 DEF SigningHash155

(* The typed hashes cover every field of their struct but y_parity, r, s. *)
LEMMA TypedCovers ==
  ASSUME NEW c, NEW t \in Transaction, t.type # "legacy"
  PROVE  /\ t.type = "accessList" => SigningHash2930(t).fields = SignedPayload(c, t)
         /\ t.type = "feeMarket" => SigningHash1559(t).fields = SignedPayload(c, t)
         /\ t.type = "blob" => SigningHash4844(t).fields = SignedPayload(c, t)
  <1>1. SignedPayload(c, t) = [f \in StructFields(t.type) \ {"v", "yParity", "r", "s"} |-> t[f]]
    BY DEF SignedPayload
  <1>2. ASSUME t.type = "accessList" PROVE SigningHash2930(t).fields = SignedPayload(c, t)
    <2>1. StructFields(t.type) \ {"v", "yParity", "r", "s"}
            = {"chainId", "nonce", "gasPrice", "gas", "to", "value", "data", "accessList"}
      BY <1>2, StructFieldsValues
    <2>2. QED
      BY <1>1, <2>1 DEF SigningHash2930
  <1>3. ASSUME t.type = "feeMarket" PROVE SigningHash1559(t).fields = SignedPayload(c, t)
    <2>1. StructFields(t.type) \ {"v", "yParity", "r", "s"}
            = {"chainId", "nonce", "maxPriorityFee", "maxFee", "gas", "to", "value", "data",
               "accessList"}
      BY <1>3, StructFieldsValues
    <2>2. QED
      BY <1>1, <2>1 DEF SigningHash1559
  <1>4. ASSUME t.type = "blob" PROVE SigningHash4844(t).fields = SignedPayload(c, t)
    <2>1. StructFields(t.type) \ {"v", "yParity", "r", "s"}
            = {"chainId", "nonce", "maxPriorityFee", "maxFee", "gas", "to", "value", "data",
               "accessList", "maxFeePerBlobGas", "blobs"}
      BY <1>4, StructFieldsValues
    <2>2. QED
      BY <1>1, <2>1 DEF SigningHash4844
  <1>5. QED
    BY <1>2, <1>3, <1>4

(* An error, or a panic on the chain id, carries no hash. *)
LEMMA NoHashOnError ==
  ASSUME NEW e
  PROVE  /\ "hash" \notin DOMAIN [ok |-> FALSE, err |-> e]
         /\ "hash" \notin DOMAIN [panic |-> "overflow"]
  OBVIOUS

(***************************************************************************)
(* Whatever the path through recover_sender that reaches secp256k1_recover *)
(* (pre-EIP-155 legacy, EIP-155 legacy, or one of the three typed ones),   *)
(* the hash it passes covers exactly the signed payload of the transaction *)
(* under the transaction's own type prefix.                                *)
(***************************************************************************)
LEMMA RecoverSenderHash ==
  ASSUME NEW c, NEW t \in Transaction, "hash" \in DOMAIN RecoverSender(c, t)
  PROVE  /\ RecoverSender(c, t).hash.fields = SignedPayload(c, t)
         /\ RecoverSender(c, t).hash.prefix
              = IF t.type = "legacy" THEN "none" ELSE TypeByte[t.type]
  <1> DEFINE out == RecoverSender(c, t)
             x2  == (c * 2) % 2^U64Bits
             Checked == ~(t.r = 0 \/ t.r >= SecpN) /\ ~(t.s = 0 \/ t.s > SecpN \div 2)
             Panics  == OverflowChecks /\ c * 2 > U64Max
  <1>1. t.type \in TxTypes
    BY DEF Transaction
  <1>2. CASE t.r = 0 \/ t.r >= SecpN
    <2>1. out = [ok |-> FALSE, err |-> "bad r"]
      BY <1>2, Zenon DEF RecoverSender
    <2>2. QED
      BY <2>1, NoHashOnError
  <1>3. CASE ~(t.r = 0 \/ t.r >= SecpN) /\ (t.s = 0 \/ t.s > SecpN \div 2)
    <2>1. out = [ok |-> FALSE, err |-> "bad s"]
      BY <1>3, Zenon DEF RecoverSender
    <2>2. QED
      BY <2>1, NoHashOnError
  <1>4. CASE Checked /\ t.type = "legacy" /\ t.v \in {27, 28}
    <2>1. out = [panic |-> "secp256k1_recover", hash |-> SigningHashPre155(t)]
      BY <1>4, Zenon DEF RecoverSender
    <2>2. SigningHashPre155(t).fields = SignedPayload(c, t)
      BY <1>4, Pre155Covers
    <2>3. QED
      BY <1>4, <2>1, <2>2 DEF SigningHashPre155
  <1>5. CASE Checked /\ t.type = "legacy" /\ t.v \notin {27, 28} /\ Panics
    <2>1. out = [panic |-> "overflow"]
      BY <1>5, Zenon DEF RecoverSender
    <2>2. QED
      BY <2>1, NoHashOnError
  <1>6. CASE Checked /\ t.type = "legacy" /\ t.v \notin {27, 28} /\ ~Panics
             /\ t.v \notin {35 + x2, 36 + x2}
    <2>1. out = [ok |-> FALSE, err |-> "bad v"]
      BY <1>6, Zenon DEF RecoverSender
    <2>2. QED
      BY <2>1, NoHashOnError
  <1>7. CASE Checked /\ t.type = "legacy" /\ t.v \notin {27, 28} /\ ~Panics
             /\ t.v \in {35 + x2, 36 + x2}
    <2>1. out = [panic |-> "secp256k1_recover", hash |-> SigningHash155(t, c)]
      BY <1>7, Zenon DEF RecoverSender
    <2>2. SigningHash155(t, c).fields = SignedPayload(c, t)
      BY <1>7, Eip155Covers
    <2>3. QED
      BY <1>7, <2>1, <2>2 DEF SigningHash155
  <1>8. CASE Checked /\ t.type # "legacy" /\ t.yParity \notin {0, 1}
    <2>1. out = [ok |-> FALSE, err |-> "bad y_parity"]
      BY <1>8, Zenon DEF RecoverSender
    <2>2. QED
      BY <2>1, NoHashOnError
  <1>9. CASE Checked /\ t.type # "legacy" /\ t.yParity \in {0, 1}
    <2> DEFINE h == CASE t.type = "accessList" -> SigningHash2930(t)
                      [] t.type = "feeMarket"  -> SigningHash1559(t)
                      [] t.type = "blob"       -> SigningHash4844(t)
    <2>1. out = [panic |-> "secp256k1_recover", hash |-> h]
      BY <1>9, Zenon DEF RecoverSender
    <2>2. CASE t.type = "accessList"
      <3>1. h = SigningHash2930(t)
        BY <2>2
      <3>2. QED
        BY <1>9, <2>1, <2>2, <3>1, TypedCovers DEF SigningHash2930, TypeByte
    <2>3. CASE t.type = "feeMarket"
      <3>1. h = SigningHash1559(t)
        BY <2>3
      <3>2. QED
        BY <1>9, <2>1, <2>3, <3>1, TypedCovers DEF SigningHash1559, TypeByte
    <2>4. CASE t.type = "blob"
      <3>1. h = SigningHash4844(t)
        BY <2>4
      <3>2. QED
        BY <1>9, <2>1, <2>4, <3>1, TypedCovers DEF SigningHash4844, TypeByte
    <2>5. QED
      BY <1>1, <1>9, <2>2, <2>3, <2>4 DEF TxTypes
  <1>10. QED
    BY <1>2, <1>3, <1>4, <1>5, <1>6, <1>7, <1>8, <1>9

SignsInv == tx \in TxInputs /\ SignsEveryField

(***************************************************************************)
(* Every hash a recover_sender call hands to secp256k1_recover covers all  *)
(* of the held transaction but its signature, under the transaction's own  *)
(* type prefix, and the executing chain id for an EIP-155 signature: for   *)
(* every chain id, with no bound on it, in both builds.                    *)
(***************************************************************************)
THEOREM SignsEveryFieldHolds == Spec => []SignsEveryField
  <1>1. Init => SignsInv
    BY DEF Init, SignsInv, SignsEveryField
  <1>2. SignsInv /\ [Next]_vars => SignsInv'
    <2> SUFFICES ASSUME SignsInv, [Next]_vars PROVE SignsInv'
      OBVIOUS
    <2>1. tx \in Transaction
      BY TxInputsAssumption DEF SignsInv
    <2>2. ASSUME NEW c \in ChainIds, RecoverCall(c) PROVE SignsInv'
      <3>1. "hash" \in DOMAIN RecoverSender(c, tx) =>
              /\ RecoverSender(c, tx).hash.fields = SignedPayload(c, tx)
              /\ RecoverSender(c, tx).hash.prefix
                   = IF tx.type = "legacy" THEN "none" ELSE TypeByte[tx.type]
        BY <2>1, RecoverSenderHash
      <3>2. QED
        BY <2>2, <3>1 DEF SignsInv, RecoverCall, SignsEveryField
    <2>3. ASSUME NEW w \in WiresOf(tx), DecodeCall(w) PROVE SignsInv'
      BY <2>3 DEF SignsInv, DecodeCall, SignsEveryField
    <2>4. ASSUME NEW e \in EithersOf(tx), DecodeTransactionCall(e) PROVE SignsInv'
      BY <2>4 DEF SignsInv, DecodeTransactionCall, SignsEveryField
    <2>5. CASE IntrinsicCostCall \/ ValidateCall
      BY <2>5 DEF SignsInv, IntrinsicCostCall, ValidateCall, SignsEveryField
    <2>6. ASSUME NEW x \in Excesses, DataFeeCall(x) PROVE SignsInv'
      BY <2>6 DEF SignsInv, DataFeeCall, SignsEveryField
    <2>7. CASE UNCHANGED vars
      BY <2>7 DEF SignsInv, vars, SignsEveryField
    <2>8. QED
      BY <2>2, <2>3, <2>4, <2>5, <2>6, <2>7 DEF Next
  <1>3. QED
    BY <1>1, <1>2, PTL DEF Spec, SignsInv

=============================================================================
