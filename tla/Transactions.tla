---------------------------- MODULE Transactions ----------------------------
(***************************************************************************)
(***************************************************************************)
(* The transaction helpers of cancun/transactions.rs and the blob fee      *)
(* helpers of cancun/vm/gas.rs, as calls a node makes on one transaction   *)
(* it holds.  Field values are small numbers; what the RLP body of a       *)
(* transaction decodes to is given by DecodeTo below.  secp256k1_recover   *)
(* is todo!() in this repository, so every call that reaches it panics;    *)
(* the model records the signing hash it is handed.                        *)
(***************************************************************************)
EXTENDS Integers, Sequences, FiniteSets

CONSTANTS
    Addr,                        \* the addresses `to` may hold
    NoAddr,                      \* None for `to`
    SecpN,                       \* SECP256K1N
    U64Bits,                     \* width of U64, in which chain_id * 2 is computed
    UintBits,                    \* width of Uint (u128)
    OverflowChecks,              \* debug build: integer overflow panics
    MaxCodeSize,                 \* MAX_CODE_SIZE
    GasPerBlob,                  \* GAS_PER_BLOB
    MinBlobGasprice,             \* MIN_BLOB_GASPRICE
    BlobGaspriceUpdateFraction,  \* BLOB_GASPRICE_UPDATE_FRACTION
    TaylorBound,                 \* bound on the iterations of taylor_exponential
    TxInputs,                    \* the transactions a node may hold
    ChainIds,                    \* the chain ids recover_sender is called with
    Excesses                     \* the excess blob gas values of the blocks

ASSUME TxConstantsAssumption ==
    /\ NoAddr \notin Addr
    /\ SecpN \in Nat \ {0} /\ SecpN % 2 = 1   \* the order of secp256k1 is an odd prime
    /\ U64Bits \in Nat \ {0} /\ UintBits \in Nat \ {0}
    /\ OverflowChecks \in BOOLEAN
    /\ {MaxCodeSize, GasPerBlob, MinBlobGasprice, TaylorBound} \subseteq Nat
    /\ BlobGaspriceUpdateFraction \in Nat \ {0}
    /\ ChainIds \subseteq Nat /\ Excesses \subseteq Nat

TxBaseCost == 21000
TxDataCostPerNonZero == 16
TxDataCostPerZero == 4
TxCreateCost == 32000
TxAccessListAddressCost == 2400
TxAccessListStorageKeyCost == 1900
GasInitCodeWordCost == 2
U64Max == 2^U64Bits - 1
UintMax == 2^UintBits - 1
Wrap(v) == v % 2^UintBits
Ovf(v) == v > UintMax

(* The four transaction structs.  `data` is a byte sequence over {0, 1}    *)
(* (zero and non-zero), an access list is the number of storage keys of    *)
(* each address, a blob transaction's hashes are counted by `blobs`.       *)
(* A legacy transaction has `v`, a typed one `yParity` and `chainId`.      *)
TxTypes == {"legacy", "accessList", "feeMarket", "blob"}
Transaction ==
    [type: TxTypes, chainId: Nat, nonce: Nat, gasPrice: Nat, maxPriorityFee: Nat,
     maxFee: Nat, gas: Nat, to: Addr \cup {NoAddr}, value: Nat,
     data: Seq({0, 1}), accessList: Seq(Nat), maxFeePerBlobGas: Nat, blobs: Nat,
     v: Nat, yParity: Nat, r: Nat, s: Nat]

(* The transactions a node may hold are values of the four structs. *)
ASSUME TxInputsAssumption == TxInputs \subseteq Transaction

(* The fields of each struct in the order impl_extended! lists them, which *)
(* is the order of the items of its RLP list.                              *)
FieldOrder(type) ==
    CASE type = "legacy"     -> <<"nonce", "gasPrice", "gas", "to", "value", "data", "v", "r", "s">>
      [] type = "accessList" -> <<"chainId", "nonce", "gasPrice", "gas", "to", "value", "data",
                                 "accessList", "yParity", "r", "s">>
      [] type = "feeMarket"  -> <<"chainId", "nonce", "maxPriorityFee", "maxFee", "gas", "to",
                                 "value", "data", "accessList", "yParity", "r", "s">>
      [] type = "blob"       -> <<"chainId", "nonce", "maxPriorityFee", "maxFee", "gas", "to",
                                 "value", "data", "accessList", "maxFeePerBlobGas", "blobs",
                                 "yParity", "r", "s">>
StructFields(type) == {FieldOrder(type)[i] : i \in DOMAIN FieldOrder(type)}

(* The Extended impl of each field's Rust type: a list (Vec) of pairs or of *)
(* hashes, or a byte string decoded by decode_to_bytes into a destination  *)
(* of Width bytes (U64 8, Uint 16, Address 20, U256 32; Bytes resizes).   *)
ElemKind(f) == IF f = "accessList" THEN "pair" ELSE IF f = "blobs" THEN "hash" ELSE "none"
Width(f) ==
    CASE f = "chainId"                                        -> 8
      [] f \in {"gasPrice", "maxPriorityFee", "maxFee", "gas"} -> 16
      [] f = "to"                                             -> 20
      [] f = "data"                                           -> 2^20
      [] OTHER                                                -> 32
(* The encode of Uint, U64 and U256 drops the leading zero bytes. *)
NumBytes(n) == CHOOSE k \in 0..32 : n < 256^k /\ (k = 0 \/ n >= 256^(k - 1))

(* One field's item: Option::encode writes nothing for None; an address is *)
(* taken to have no leading zero byte.                                     *)
EncodeField(f, v) ==
    CASE ElemKind(f) # "none" -> <<[kind |-> "list", elem |-> ElemKind(f),
                                    len |-> IF f = "blobs" THEN v ELSE Len(v), val |-> v]>>
      [] f = "to" /\ v = NoAddr -> << >>
      [] f = "to"              -> <<[kind |-> "bytes", size |-> 20, val |-> v]>>
      [] f = "data"            -> <<[kind |-> "bytes", size |-> Len(v), val |-> v]>>
      [] OTHER                 -> <<[kind |-> "bytes", size |-> NumBytes(v), val |-> v]>>

(* impl_extended!'s encode: encode_sequence of the fields in order. *)
EncodeItems(tx) ==
    LET order == FieldOrder(tx.type)
        acc[i \in 0..Len(order)] ==
            IF i = 0 THEN << >> ELSE acc[i - 1] \o EncodeField(order[i], tx[order[i]])
    IN  acc[Len(order)]

(***************************************************************************)
(* impl_extended!'s decode: decode_to_sequence strips the list header and  *)
(* decode_joined_encodings decodes each field in turn from the next item,  *)
(* without checking that the items are used up.  Option::decode gives None *)
(* on an exhausted buffer; any other field fails there.  Vec::decode needs *)
(* a list whose elements decode (an empty one always does), decode_to_bytes *)
(* a byte string that fits the destination.                                *)
(***************************************************************************)
DecodeFields(type, items) ==
    LET order == FieldOrder(type)
        acc[i \in 0..Len(order)] ==
            IF i = 0 THEN [err |-> FALSE, k |-> 1, vals |-> << >>]
            ELSE LET p == acc[i - 1]
                     f == order[i]
                 IN  IF p.err THEN p
                     ELSE IF p.k > Len(items)
                     THEN IF f = "to" /\ type # "blob"
                          THEN [p EXCEPT !.vals = Append(@, NoAddr)]
                          ELSE [p EXCEPT !.err = TRUE]
                     ELSE LET it == items[p.k] IN
                          IF \/ it.kind = "list" /\ ElemKind(f) = "none"
                             \/ it.kind = "bytes" /\ ElemKind(f) # "none"
                             \/ it.kind = "list" /\ it.len > 0 /\ it.elem # ElemKind(f)
                             \/ it.kind = "bytes" /\ it.size > Width(f)
                          THEN [p EXCEPT !.err = TRUE]
                          ELSE [err |-> FALSE, k |-> p.k + 1, vals |-> Append(p.vals, it.val)]
        r == acc[Len(order)]
    IN  IF r.err THEN [ok |-> FALSE, err |-> "rlp"]
        ELSE [ok |-> TRUE,
              tx |-> [f \in StructFields(type) \cup {"type"} |->
                        IF f = "type" THEN type
                        ELSE r.vals[CHOOSE i \in DOMAIN order : order[i] = f]]]

TypeByte == [accessList |-> 1, feeMarket |-> 2, blob |-> 3]
TypeOfByte == [b \in 1..3 |-> CHOOSE t \in DOMAIN TypeByte : TypeByte[t] = b]
Body(tx) == [list |-> EncodeItems(tx)]

(* rlp::decode_to::<T>(rest): one list item and nothing after it. *)
DecodeTo(type, rest) ==
    IF Len(rest) = 1 /\ DOMAIN rest[1] = {"list"} THEN DecodeFields(type, rest[1].list)
    ELSE [ok |-> FALSE, err |-> "rlp"]

TypeOfByteSwapped == [b \in 1..3 |-> IF b = 1 THEN "accessList" ELSE IF b = 2 THEN "blob" ELSE "feeMarket"]
TransactionDecodeSwapped(w) ==
    CASE w.kind = "list"   -> DecodeTo("legacy", <<w.item>>)
      [] w.kind = "empty"  -> [ok |-> FALSE, err |-> "rlp"]
      [] Len(w.bytes) = 0  -> [ok |-> FALSE, err |-> "empty transaction"]
      [] w.bytes[1] \in 1..3 -> DecodeTo(TypeOfByteSwapped[w.bytes[1]], Tail(w.bytes))
      [] OTHER             -> [ok |-> FALSE, err |-> "Bad transaction type"]

(* Transaction::decode of a block body item: a list is a legacy            *)
(* transaction; a byte string is a type byte followed by the typed body.   *)
TransactionDecode(w) ==
    CASE w.kind = "list"   -> DecodeTo("legacy", <<w.item>>)
      [] w.kind = "empty"  -> [ok |-> FALSE, err |-> "rlp"]
      [] Len(w.bytes) = 0  -> [ok |-> FALSE, err |-> "empty transaction"]
      [] w.bytes[1] \in 1..3 -> DecodeTo(TypeOfByte[w.bytes[1]], Tail(w.bytes))
      [] OTHER             -> [ok |-> FALSE, err |-> "Bad transaction type"]

(* The block body item a transaction is encoded as. *)
Wire(tx) ==
    IF tx.type = "legacy" THEN [kind |-> "list", item |-> Body(tx)]
    ELSE [kind |-> "string", bytes |-> <<TypeByte[tx.type], Body(tx)>>]

EncodeTransaction(tx) ==
    IF tx.type = "legacy" THEN [side |-> "A", tx |-> tx]
    ELSE [side |-> "B", bytes |-> <<TypeByte[tx.type], Body(tx)>>]

(* decode_transaction indexes tx[0] without a length check. *)
DecodeTransaction(e) ==
    CASE e.side = "A"          -> [ok |-> TRUE, tx |-> e.tx]
      [] Len(e.bytes) = 0      -> [panic |-> "index out of bounds"]
      [] e.bytes[1] \in 1..3   -> DecodeTo(TypeOfByte[e.bytes[1]], Tail(e.bytes))
      [] OTHER                 -> [ok |-> FALSE, err |-> "TransactionTypeError"]

(* The accessors `to` and `access_list`. *)
To(tx) == tx.to
AccessList(tx) == IF tx.type = "legacy" THEN <<>> ELSE tx.accessList

Ceil32(value) == IF value % 32 = 0 THEN value ELSE value + 32 - (value % 32)
InitCodeCostFloor(len) == (GasInitCodeWordCost * len) \div 32
InitCodeCost(len) == (GasInitCodeWordCost * Ceil32(len)) \div 32

ByteCost(b) == IF b = 0 THEN TxDataCostPerZero ELSE TxDataCostPerNonZero
KeysCost(n) == TxAccessListAddressCost + n * TxAccessListStorageKeyCost

(* The loops of calculate_intrinsic_cost over the data bytes and over the  *)
(* access list entries (an entry is its number of storage keys).           *)
DataCost(data) ==
    LET acc[i \in 0..Len(data)] == IF i = 0 THEN 0 ELSE acc[i - 1] + ByteCost(data[i])
    IN  acc[Len(data)]
AccessListCost(al) ==
    LET acc[i \in 0..Len(al)] == IF i = 0 THEN 0 ELSE acc[i - 1] + KeysCost(al[i])
    IN  acc[Len(al)]

CalculateIntrinsicCost(tx) ==
    TxBaseCost + DataCost(tx.data)
    + (IF To(tx) = NoAddr THEN TxCreateCost + InitCodeCost(Len(tx.data)) ELSE 0)
    + AccessListCost(AccessList(tx))

ValidateTransaction(tx) ==
    /\ CalculateIntrinsicCost(tx) <= tx.gas
    /\ tx.nonce < U64Max
    /\ ~(To(tx) = NoAddr /\ Len(tx.data) > 2 * MaxCodeSize)

(* The signing hashes: keccak256 of a prefix byte and the RLP list of the  *)
(* named fields; keccak256 is taken as collision-free, so a hash is the     *)
(* prefix and the fields it covers.  signing_hash_155 appends the           *)
(* executing chain id and two zeros.                                        *)
SigningHashPre155(tx) ==
    [prefix |-> "none", fields |-> [nonce |-> tx.nonce, gasPrice |-> tx.gasPrice, gas |-> tx.gas,
                                    to |-> tx.to, value |-> tx.value, data |-> tx.data]]
SigningHash155(tx, chainId) ==
    [prefix |-> "none", fields |-> [nonce |-> tx.nonce, gasPrice |-> tx.gasPrice, gas |-> tx.gas,
                                    to |-> tx.to, value |-> tx.value, data |-> tx.data,
                                    chainId |-> chainId, zero1 |-> 0, zero2 |-> 0]]
SigningHash2930NoChain(tx) ==
    [prefix |-> 1, fields |-> [nonce |-> tx.nonce, gasPrice |-> tx.gasPrice,
                               gas |-> tx.gas, to |-> tx.to, value |-> tx.value, data |-> tx.data,
                               accessList |-> tx.accessList]]
SigningHash2930(tx) ==
    [prefix |-> 1, fields |-> [chainId |-> tx.chainId, nonce |-> tx.nonce, gasPrice |-> tx.gasPrice,
                               gas |-> tx.gas, to |-> tx.to, value |-> tx.value, data |-> tx.data,
                               accessList |-> tx.accessList]]
SigningHash1559(tx) ==
    [prefix |-> 2, fields |-> [chainId |-> tx.chainId, nonce |-> tx.nonce,
                               maxPriorityFee |-> tx.maxPriorityFee, maxFee |-> tx.maxFee,
                               gas |-> tx.gas, to |-> tx.to, value |-> tx.value, data |-> tx.data,
                               accessList |-> tx.accessList]]
SigningHash4844(tx) ==
    [prefix |-> 3, fields |-> [chainId |-> tx.chainId, nonce |-> tx.nonce,
                               maxPriorityFee |-> tx.maxPriorityFee, maxFee |-> tx.maxFee,
                               gas |-> tx.gas, to |-> tx.to, value |-> tx.value, data |-> tx.data,
                               accessList |-> tx.accessList, maxFeePerBlobGas |-> tx.maxFeePerBlobGas,
                               blobs |-> tx.blobs]]

RecoverSenderHighS(chainId, tx) ==
    LET x2 == (chainId * 2) % 2^U64Bits
        Recover(hash) == [panic |-> "secp256k1_recover", hash |-> hash]
    IN  IF tx.r = 0 \/ tx.r >= SecpN THEN [ok |-> FALSE, err |-> "bad r"]
        ELSE IF tx.s = 0 \/ tx.s >= SecpN THEN [ok |-> FALSE, err |-> "bad s"]
        ELSE IF tx.type = "legacy"
        THEN IF tx.v \in {27, 28} THEN Recover(SigningHashPre155(tx))
             ELSE IF OverflowChecks /\ chainId * 2 > U64Max THEN [panic |-> "overflow"]
             ELSE IF tx.v \notin {35 + x2, 36 + x2} THEN [ok |-> FALSE, err |-> "bad v"]
             ELSE Recover(SigningHash155(tx, chainId))
        ELSE IF tx.yParity \notin {0, 1} THEN [ok |-> FALSE, err |-> "bad y_parity"]
        ELSE Recover(CASE tx.type = "accessList" -> SigningHash2930(tx)
                       [] tx.type = "feeMarket"  -> SigningHash1559(tx)
                       [] tx.type = "blob"       -> SigningHash4844(tx))

(* recover_sender: the r and s range checks, then per type the recovery    *)
(* id check; a call that passes them reaches secp256k1_recover (todo!()).  *)
(* chain_id * 2 is a U64 multiplication.                                   *)
RecoverSender(chainId, tx) ==
    LET x2 == (chainId * 2) % 2^U64Bits
        Recover(hash) == [panic |-> "secp256k1_recover", hash |-> hash]
    IN  IF tx.r = 0 \/ tx.r >= SecpN THEN [ok |-> FALSE, err |-> "bad r"]
        ELSE IF tx.s = 0 \/ tx.s > SecpN \div 2 THEN [ok |-> FALSE, err |-> "bad s"]
        ELSE IF tx.type = "legacy"
        THEN IF tx.v \in {27, 28} THEN Recover(SigningHashPre155(tx))
             ELSE IF OverflowChecks /\ chainId * 2 > U64Max THEN [panic |-> "overflow"]
             ELSE IF tx.v \notin {35 + x2, 36 + x2} THEN [ok |-> FALSE, err |-> "bad v"]
             ELSE Recover(SigningHash155(tx, chainId))
        ELSE IF tx.yParity \notin {0, 1} THEN [ok |-> FALSE, err |-> "bad y_parity"]
        ELSE Recover(CASE tx.type = "accessList" -> SigningHash2930(tx)
                       [] tx.type = "feeMarket"  -> SigningHash1559(tx)
                       [] tx.type = "blob"       -> SigningHash4844(tx))

CalculateTotalBlobGas(tx) ==
    IF tx.type = "blob" THEN [v |-> Wrap(GasPerBlob * tx.blobs), ovf |-> Ovf(GasPerBlob * tx.blobs)]
    ELSE [v |-> 0, ovf |-> FALSE]

TaylorLoopNoIncrement(factor, numerator, denominator) ==
    LET it[k \in 0..TaylorBound] ==
          IF k = 0
          THEN [i |-> 1, output |-> 0, acc |-> Wrap(factor * denominator),
                ovf |-> Ovf(factor * denominator), div0 |-> FALSE]
          ELSE LET p == it[k - 1]
                   d == Wrap(denominator * p.i)
               IN  IF p.acc = 0 \/ p.div0 THEN p
                   ELSE [i |-> p.i, output |-> Wrap(p.output + p.acc),
                         acc |-> IF d = 0 THEN 0 ELSE Wrap(p.acc * numerator) \div d,
                         ovf |-> p.ovf \/ Ovf(p.output + p.acc) \/ Ovf(p.acc * numerator)
                                 \/ Ovf(denominator * p.i),
                         div0 |-> d = 0]
    IN  it[TaylorBound]

(* taylor_exponential's loop, one iteration per index; `div0` is a zero    *)
(* divisor after wrapping, which panics in every build.                    *)
TaylorLoop(factor, numerator, denominator) ==
    LET it[k \in 0..TaylorBound] ==
          IF k = 0
          THEN [i |-> 1, output |-> 0, acc |-> Wrap(factor * denominator),
                ovf |-> Ovf(factor * denominator), div0 |-> FALSE]
          ELSE LET p == it[k - 1]
                   d == Wrap(denominator * p.i)
               IN  IF p.acc = 0 \/ p.div0 THEN p
                   ELSE [i |-> p.i + 1, output |-> Wrap(p.output + p.acc),
                         acc |-> IF d = 0 THEN 0 ELSE Wrap(p.acc * numerator) \div d,
                         ovf |-> p.ovf \/ Ovf(p.output + p.acc) \/ Ovf(p.acc * numerator)
                                 \/ Ovf(denominator * p.i),
                         div0 |-> d = 0]
    IN  it[TaylorBound]

TaylorExponentialWrapping(factor, numerator, denominator) ==
    LET r == TaylorLoop(factor, numerator, denominator)
    IN  [v |-> r.output \div denominator, ovf |-> FALSE, div0 |-> r.div0, done |-> r.acc = 0]

TaylorExponential(factor, numerator, denominator) ==
    LET r == TaylorLoop(factor, numerator, denominator)
    IN  [v |-> r.output \div denominator, ovf |-> r.ovf, div0 |-> r.div0, done |-> r.acc = 0]

CalculateBlobGasPrice(excess) ==
    TaylorExponential(MinBlobGasprice, excess, BlobGaspriceUpdateFraction)

(* calculate_data_fee: total blob gas times the blob gas price, in Uint. *)
CalculateDataFee(excess, tx) ==
    LET g == CalculateTotalBlobGas(tx)
        p == CalculateBlobGasPrice(excess)
    IN  [v |-> Wrap(g.v * p.v), done |-> p.done,
         panic |-> p.div0 \/ (OverflowChecks /\ (g.ovf \/ p.ovf \/ Ovf(g.v * p.v)))]

(***************************************************************************)
(* A node holding one transaction calls the helpers on it.  `ret` is the   *)
(* last call's result; `lastFee` is the last data fee computed, with the   *)
(* excess blob gas it was computed for.                                    *)
(***************************************************************************)
VARIABLES tx, ret, lastFee
vars == <<tx, ret, lastFee>>

Init ==
    /\ tx \in TxInputs
    /\ ret = [call |-> "none"]
    /\ lastFee = [none |-> TRUE]

(* The block body items and the Either values a caller may present: the    *)
(* transaction's own encodings and the same body under every other tag.    *)
WiresOf(t) ==
    {Wire(t), [kind |-> "list", item |-> Body(t)], [kind |-> "empty"],
     [kind |-> "string", bytes |-> <<>>]}
    \cup {[kind |-> "string", bytes |-> <<b, Body(t)>>] : b \in 0..4}
    \cup {[kind |-> "string", bytes |-> <<b>>] : b \in 1..3}
EithersOf(t) ==
    {EncodeTransaction(t)}
    \cup {[side |-> "B", bytes |-> <<b, Body(t)>>] : b \in 0..4}
    \cup {[side |-> "B", bytes |-> <<b>>] : b \in 1..3}

DecodeCall(w) ==
    /\ ret' = [call |-> "decode", in |-> w, out |-> TransactionDecode(w)]
    /\ UNCHANGED <<tx, lastFee>>

DecodeTransactionCall(e) ==
    /\ ret' = [call |-> "decode_transaction", in |-> e, out |-> DecodeTransaction(e)]
    /\ UNCHANGED <<tx, lastFee>>

IntrinsicCostCall ==
    /\ ret' = [call |-> "intrinsic", out |-> CalculateIntrinsicCost(tx)]
    /\ UNCHANGED <<tx, lastFee>>

ValidateCall ==
    /\ ret' = [call |-> "validate", out |-> ValidateTransaction(tx)]
    /\ UNCHANGED <<tx, lastFee>>

RecoverCall(c) ==
    /\ ret' = [call |-> "recover", chainId |-> c, out |-> RecoverSender(c, tx)]
    /\ UNCHANGED <<tx, lastFee>>

DataFeeCall(excess) ==
    /\ ret' = [call |-> "data_fee", excess |-> excess, out |-> CalculateDataFee(excess, tx)]
    /\ lastFee' = [none |-> FALSE, excess |-> excess, fee |-> CalculateDataFee(excess, tx)]
    /\ UNCHANGED tx

Next ==
    \/ \E w \in WiresOf(tx) : DecodeCall(w)
    \/ \E e \in EithersOf(tx) : DecodeTransactionCall(e)
    \/ IntrinsicCostCall
    \/ ValidateCall
    \/ \E c \in ChainIds : RecoverCall(c)
    \/ \E x \in Excesses : DataFeeCall(x)

Spec == Init /\ [][Next]_vars

-----------------------------------------------------------------------------
(* The results have their types, and every taylor_exponential loop the     *)
(* calls run ends within TaylorBound iterations.                           *)
TypeOK ==
    /\ tx \in Transaction
    /\ ret.call \in {"none", "decode", "decode_transaction", "intrinsic",
                     "validate", "recover", "data_fee"}
    /\ ret.call = "data_fee" => ret.out.done \/ ret.out.panic
    /\ lastFee.none \in BOOLEAN

(* The struct a transaction of its type decodes to: its own fields. *)
Proj(t) == [f \in StructFields(t.type) \cup {"type"} |-> t[f]]
IsOk(out) == "ok" \in DOMAIN out /\ out.ok
IsErr(out) == "ok" \in DOMAIN out /\ ~out.ok

(* Decoding never misreads a message call: Transaction::decode of a block *)
(* body item, and decode_transaction of an Either, return a transaction    *)
(* for the held transaction's own encoding (a legacy list, or its type     *)
(* byte and body), and then that transaction; for any other tag or shape   *)
(* they return one only when the held transaction is a contract creation,  *)
(* whose absent `to` item shifts the later fields onto those of another    *)
(* type (decode_joined_encodings ignores the items left over).  The        *)
(* creation's own encoding does not decode (see DecodeTo).                 *)
DecodeInvertsEncode ==
    /\ ret.call = "decode" =>
           /\ IsOk(ret.out) => \/ ret.in = Wire(tx) /\ ret.out.tx = Proj(tx)
                               \/ To(tx) = NoAddr /\ ret.in # Wire(tx)
           /\ ret.in = Wire(tx) /\ (tx.type = "blob" \/ To(tx) # NoAddr) => IsOk(ret.out)
    /\ ret.call = "decode_transaction" =>
           /\ IsOk(ret.out) => \/ /\ ret.in = EncodeTransaction(tx)
                                  /\ ret.out.tx = IF ret.in.side = "A" THEN tx ELSE Proj(tx)
                               \/ To(tx) = NoAddr /\ ret.in # EncodeTransaction(tx)
           /\ ret.in = EncodeTransaction(tx) /\ (tx.type = "blob" \/ To(tx) # NoAddr)
                  => IsOk(ret.out)

(* The signature a transaction may carry (EIP-2 and EIP-155): 0 < r < n,   *)
(* 0 < s with 2s < n (n is odd), and a recovery id of 0 or 1, given for a  *)
(* legacy transaction as 27/28 or 35/36 + 2 * chain_id.                    *)
CanonicalSignature(c, t) ==
    /\ 0 < t.r /\ t.r < SecpN
    /\ 0 < t.s /\ 2 * t.s < SecpN
    /\ IF t.type = "legacy" THEN t.v \in {27, 28, 35 + 2 * c, 36 + 2 * c}
       ELSE t.yParity \in {0, 1}

(* recover_sender rejects with an InvalidSignatureError exactly the        *)
(* signatures that are not canonical for the executing chain, and hands    *)
(* every canonical one to secp256k1_recover; it never panics before that.  *)
RejectsNonCanonicalSignature ==
    ret.call = "recover" =>
        IF CanonicalSignature(ret.chainId, tx)
        THEN "hash" \in DOMAIN ret.out
        ELSE IsErr(ret.out)

(* The fields a signature covers: every field of the transaction's struct  *)
(* but the signature itself, and for an EIP-155 legacy signature also the  *)
(* executing chain id (with two zeros).                                    *)
SignedPayload(c, t) ==
    LET own == [f \in StructFields(t.type) \ {"v", "yParity", "r", "s"} |-> t[f]]
    IN  IF t.type = "legacy" /\ t.v \notin {27, 28}
        THEN [f \in DOMAIN own \cup {"chainId", "zero1", "zero2"} |->
                 IF f = "chainId" THEN c ELSE IF f \in {"zero1", "zero2"} THEN 0 ELSE own[f]]
        ELSE own

(* The hash recover_sender hands to secp256k1_recover covers every field   *)
(* the transaction's struct encodes except the signature, under the        *)
(* transaction's own type prefix: no field can be changed, no transaction  *)
(* replayed as another type, and no EIP-155 legacy transaction replayed on *)
(* another chain, without changing the hash the signature must match.      *)
SignsEveryField ==
    ret.call = "recover" /\ "hash" \in DOMAIN ret.out =>
        /\ ret.out.hash.fields = SignedPayload(ret.chainId, tx)
        /\ ret.out.hash.prefix = IF tx.type = "legacy" THEN "none" ELSE TypeByte[tx.type]

(* The intrinsic gas of EIP-2028, EIP-2930 and EIP-3860 in closed form.    *)
IntrinsicGas(t) ==
    LET zeros  == Cardinality({i \in DOMAIN t.data : t.data[i] = 0})
        al     == IF t.type = "legacy" THEN <<>> ELSE t.accessList
        keys   == Cardinality(UNION {{<<i, j>> : j \in 1..al[i]} : i \in DOMAIN al})
    IN  21000 + 4 * zeros + 16 * (Len(t.data) - zeros)
        + (IF t.to = NoAddr THEN 32000 + 2 * ((Len(t.data) + 31) \div 32) ELSE 0)
        + 2400 * Len(al) + 1900 * keys

(* calculate_intrinsic_cost equals the closed form, and validate_transaction *)
(* accepts exactly the transactions whose gas covers it, whose nonce is     *)
(* below 2^64 - 1 and whose init code, for a creation, fits twice           *)
(* MAX_CODE_SIZE.                                                           *)
IntrinsicCostMatchesEip ==
    /\ ret.call = "intrinsic" => ret.out = IntrinsicGas(tx)
    /\ ret.call = "validate" =>
           (ret.out <=> /\ IntrinsicGas(tx) <= tx.gas
                        /\ tx.nonce < U64Max
                        /\ (tx.to = NoAddr => Len(tx.data) <= 2 * MaxCodeSize))

(* calculate_data_fee never falls when the excess blob gas rises: of two    *)
(* data fees computed without a panic, the one for the larger excess is     *)
(* not smaller.  taylor_exponential's u128 products are where this can go   *)
(* wrong.                                                                   *)
DataFeeMonotone ==
    [][ ret'.call = "data_fee" /\ ~lastFee.none /\ lastFee.excess <= lastFee'.excess
        /\ ~lastFee.fee.panic /\ ~lastFee'.fee.panic
        => lastFee.fee.v <= lastFee'.fee.v ]_vars

=============================================================================
