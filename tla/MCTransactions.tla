--------------------------- MODULE MCTransactions ---------------------------
(* Transactions on small inputs: SECP256K1N scaled to the odd 11, a 4-bit   *)
(* U64 (chain_id * 2 overflows from 8), a 16-bit Uint, MAX_CODE_SIZE 1, and *)
(* a blob gas price whose update fraction is 8, so that taylor_exponential  *)
(* leaves 16 bits within the excesses tried.                                *)
EXTENDS Transactions

CONSTANTS a1, None

MCAddr == {a1}
MCChainIds == {1, 3}
MCExcesses == {0, 8, 16, 24, 32, 40, 48, 56, 64, 72, 80, 88}

(* One transaction of each type, with a canonical signature for chain 1.   *)
BaseTx(type) ==
    [type |-> type, chainId |-> 1, nonce |-> 0, gasPrice |-> 1, maxPriorityFee |-> 2,
     maxFee |-> 3, gas |-> 100000, to |-> a1, value |-> 4, data |-> <<1>>,
     accessList |-> <<1>>, maxFeePerBlobGas |-> 5, blobs |-> 1,
     v |-> 37, yParity |-> 0, r |-> 1, s |-> 1]

Datas == {<<>>, <<0>>, <<1>>, <<0, 1>>, <<1, 1>>, <<0, 0, 1>>, <<1, 0, 1>>}
Lists == {<<>>, <<0>>, <<1, 3>>}
Tos(type) == IF type = "blob" THEN {a1} ELSE {a1, None}

SigTxs ==
    {[BaseTx(t) EXCEPT !.r = x] : t \in TxTypes, x \in {0, 1, 10, 11}}
    \cup {[BaseTx(t) EXCEPT !.s = x] : t \in TxTypes, x \in {0, 5, 6, 11}}
    \cup {[BaseTx("legacy") EXCEPT !.v = x] : x \in 26..29 \cup 34..43}
    \cup {[BaseTx(t) EXCEPT !.yParity = x] : t \in TxTypes \ {"legacy"}, x \in {1, 2}}

CostTxs ==
    {[BaseTx(t) EXCEPT !.data = d, !.to = a, !.accessList = l,
                       !.gas = IntrinsicGas([BaseTx(t) EXCEPT !.data = d, !.to = a, !.accessList = l]) - g] :
        t \in TxTypes, d \in Datas, a \in MCAddr \cup {None}, l \in Lists, g \in {0, 1}}
    \cup {[BaseTx(t) EXCEPT !.nonce = n] : t \in TxTypes, n \in {U64Max - 1, U64Max}}

FeeTxs == {[BaseTx("blob") EXCEPT !.blobs = n] : n \in 0..3}

MCTxInputs == {t \in SigTxs \cup CostTxs \cup FeeTxs : t.type = "blob" => t.to # None}
=============================================================================
