# TLA+ models of ejit-evm

This directory holds TLA+ models of the Rust sources under `src/`, the TLC
configurations that check them, and the TLAPS proofs about them. The models
cover seven components:

- the canonical byte codec (RLP);
- the Merkle Patricia Trie, which computes the commitments in headers;
- the 256-bit integer type, and the JSON integer decoder;
- the gas and stack helpers of an executing EVM frame;
- transactions: their encoding, validation, intrinsic cost, signature
  checks and blob fee;
- block validation and the chain's state transition;
- the bytecode JIT compiler.

`PROJECT.json` maps every modelling definition to the source lines it
translates. It also lists the runs, the mutants, the findings and the hazards.

## The system and how its parts interact

| Part | Source | Role |
|---|---|---|
| RLP codec | `ethereum_rlp/rlp.rs` | `encode_bytes` and `encode_sequence` build the canonical encoding. `decode_to` → `Vec::decode` → `find_joined_encodings` + `Bytes::decode` → `decode_to_bytes` parse it. |
| Trie | `cancun/trie.rs` | `Trie { secured, default_value, data }` with `set`, `get`, `secured` and `root`. `root` runs `prepare_trie`, then `patricialize`, then `encode_internal_node`, calling RLP and keccak256. |
| U256 | `ethereum_types/numeric.rs` | A value of four u64 limbs, most significant first. It provides `add`, `sub`, `mul`, `shl`, `shr` and `overflowing_div`. |
| Gas and stack | `vm/gas.rs`, `vm/stack.rs`, `utils/numeric.rs` | `charge_gas`, `calculate_gas_extend_memory` (with `calculate_memory_gas_cost` and `ceil32`), `calculate_message_call_gas` with `max_message_call_gas`, and the stack's `push` and `pop` at a limit of 1024. |
| JSON integers | `ethereum_types/numeric.rs`, `utils/hexadecimal.rs` | `decode_int!` reads a decimal number with `overflowing_mul` and `overflowing_add`, or a quoted hex string through `hex_to_slice`. |
| Transactions | `cancun/transactions.rs`, `vm/gas.rs`, `utils/numeric.rs` | `Transaction::decode`, `encode_transaction` and `decode_transaction` go through the RLP struct codec of `impl_extended!`. `validate_transaction` calls `calculate_intrinsic_cost` and `init_code_cost`. `recover_sender` checks r, s and v and hands a signing hash to `secp256k1_recover`. `calculate_data_fee` calls `calculate_blob_gas_price` and `taylor_exponential`. |
| Block validation | `cancun/fork.rs`, `vm/gas.rs` | `state_transition` checks the excess blob gas, calls `validate_header`, refuses ommers, passes `get_last_256_block_hashes` to `apply_body`, compares the result with the header, and pushes the block. |
| JIT | `ejit_evm.rs` | `Compiler::compile` walks the bytecode. It keeps a virtual stack of constants, caller-stack slots and a register, and emits ejit IR for PUSH, ADD, MSTORE and RETURN. |
| Interpreter, `apply_body`, `process_transaction` | `vm/interpreter.rs`, `fork.rs` | `todo!()` in this repository. |

The trie calls the RLP encoder for values, for internal nodes and for the root.
The gas helpers work on `Uint`, which is u128, and call `ceil32`. The EVM's
arithmetic is meant to use U256, and the JIT emits the same add-with-carry
chain on limbs that U256 uses.

## Modules

| Module | Models | State and actions |
|---|---|---|
| `RLP` | the encoders and decoders of `rlp.rs` | Pure operators. `BigEndian` and `DecodeLength` are recursive functions. |
| `RLPDecoder`, `MCRLPDecoder` | `decode_to::<Vec<Bytes>>` | The state is the decoder's cursor. `Start` is the empty-input check plus `find_joined_encodings`. `DecodeItem` is one iteration of the loop, including the DestTooSmall resize and retry. `Finish` is the trailing-bytes check. `OverflowChecks` is the build profile. There are 477 inputs: every item encoding next to a size boundary, and every non-canonical list header. |
| `MPT` | `prepare_trie`, `patricialize`, `encode_internal_node` and the nibble helpers | `keccak256` is the operator parameter `Keccak`. `patricialize` is a recursive function over subsets of the keys. |
| `Trie`, `KVMap`, `MCTrie` | the `Trie` object, and its abstract promise (a total map with a default) | Actions `Set`, `Get`, `Secured` and `RootCall`. `Trie` refines `KVMap` with `mem <- Contents`. |
| `MPTReference` | a root computed from the format's description | It is independent of `trie.rs` and uses RECURSIVE operators, so only TLC uses it. |
| `TrieProofs` | the TLAPS proofs about `Trie` | |
| `U256Proofs`, `TransactionsProofs`, `ForkProofs`, `JitProofs` | the TLAPS proofs about `U256Calc`, `Transactions`, `Fork` and `Jit` | |
| `U256`, `U256Calc`, `MCU256Calc` | the U256 operations, and a caller applying them to operand pairs; `decode_int!` | The limb width `W` is a parameter. The runs use `W = 2`, so every value of 8 bits is enumerated. `DecodeOp` is `decode_json` of a `decode_int!` type of the same 4W bits (U8 in the run). `DecodeInt` is its decimal loop and `HexToSlice` its quoted branch; a character is a hex digit, `x` or another byte. |
| `EvmFrame`, `MCEvmFrame` | `gas_left`, the memory length and the stack depth of a frame | `MemoryAccess` is one memory-touching opcode: the extension cost, then `charge_gas`, then the memory grown. `MessageCall` is a CALL's gas step: the memory extension, `calculate_message_call_gas`, then `charge_gas` of both costs. `lastCall` records the gas available and forwarded. `Push` and `Pop` are the stack operations. The Uint width is `UintBits` (12 in the run). `OverflowChecks` is the build profile. |
| `Transactions`, `MCTransactions` | `transactions.rs`, and the blob fee helpers of `gas.rs` | A node holds one transaction `tx` and calls one function at a time; `ret` is the call's result. `lastFee` is the last `calculate_data_fee` result, for the monotonicity check. An RLP body is the list of its fields' items. `EncodeItems` builds it in `impl_extended!` order, and `Option::None` writes no item. `DecodeFields` consumes it field by field: a fixed-width field refuses a longer byte string, `Option` gives `None` on an exhausted list, and leftover items are ignored (`decode_joined_encodings`). `RecoverSender` follows the r, s and v checks in order; `secp256k1_recover` is `todo!()` and panics, so the model records the hash handed to it. U64 is `U64Bits` wide (4 in the run), so `chain_id * 2` can overflow; Uint is 16 bits. |
| `Fork`, `MCFork` | the chain and `state_transition` | `apply_body` is `todo!()`, so the model has an environment choice `bodyAgrees` (whether its output matches the header). `Init` is `from_genesis`. The gas constants are scaled down: adjustment factor 4, minimum 8, blob target 2, hash window 2. Chains hold at most 3 blocks. A caller submits either a valid block or one that breaks exactly one rule. |
| `Jit`, `MCJit` | `Compiler::compile` with `VStack` and the generators | `PushOp`, `AddOp`, `MStoreOp`, `ReturnOp`, `OtherOp` and `Finish` are the iterations of compile's loop. A generator's `todo!()` is `Unimplemented`. The emitted code is straight-line, so each action also runs what it emitted on a concrete caller stack (`regs` is t0..t3). A reference EVM runs the same opcode beside it (`evm`, `evmEffects`). The runs use 4-bit bytes and one byte per limb, so a slot is 4 bytes. |

## Runs

| Run | Expect | What it shows |
|---|---|---|
| `rlp_decode` | pass | In a release build, `decode_to::<Vec<Bytes>>` accepts only canonical input. |
| `rlp_roundtrip` | violation | `<<0xC1, 0x80>>`, the list holding the empty string, decodes to `[[0x80]]`. |
| `trie` | pass | Every sequence of calls on three keys and three values (28,620 states) satisfies `DefaultNeverStored`. The trie refines `KVMap`, and the top node encoding equals the reference encoder's. |
| `trie_root` | violation | The root of the empty trie is `keccak256(0x81 0x80)`, not `keccak256(0x80)`. The same property also fails on a 31-byte leaf, where `encode_internal_node` panics in `try_into::<[u8; 32]>`. |
| `u256` | pass | On every 8-bit operand against 19 second operands, `add`, `sub`, `shl`, `shr` (every amount up to 4W+1) and `overflowing_div` equal integer arithmetic modulo 2^(4W). `decode_int!` on an 8-bit type reads every value in decimal (plain, with a leading zero, and followed by more text) and in `0x` hex (with and without a leading zero digit). It refuses every value plus 2^8 and every hex string one byte too long (`DecodeIntCorrect`, `HexDecodeCorrect`). |
| `u256_mul` | violation | `mul` gives `1 * 2^W = 0`. The column sums shift the whole sum `(p + q + sum0) >> 64`, because `+` binds tighter than `>>`. |
| `evm_frame` | pass | Over any sequence of accesses, message calls, pushes and pops, the gas charged is exactly the memory cost of the final size plus the calls' costs. Every accessed range lies inside memory (debug build). Each call leaves the caller at least a 64th of the gas it had after the extension and extra costs (`CallerKeepsOneSixtyFourth`). |
| `fork` | pass | `state_transition` changes the chain only by pushing the submitted block, after the blob gas and ommers checks and the body's agreement (`AppendOnlyAfterChecks`). Every block after the genesis has no ommers and the excess blob gas computed from its parent (`ChainBlobGasLinked`). |
| `fork_headers` | violation | A block whose header `validate_header` rejects is appended: the Result of `validate_header` is dropped (no `?`). |
| `jit` | pass | For every program of up to six PUSH/ADD/MSTORE/RETURN instructions on two caller stacks (815,774 states), the virtual stack's height tracks the EVM stack's height (`StackHeightTracked`). The virtual stack also never holds two register elements, and no caller slot stays on it between opcodes (`SingleRegisterElement`). |
| `transactions` | pass | On transactions of all four types, with and without `to`, the run checks:<br>- `DecodeInvertsEncode`: decoding returns a message call's or a blob transaction's own fields from its own encoding, and a wrongly tagged body decodes only when the held transaction is a creation.<br>- `RejectsNonCanonicalSignature`: `recover_sender` rejects exactly the non-canonical r, s and v.<br>- `SignsEveryField`: every signing hash covers every non-signature field, with the chain id where EIP-155 and the typed transactions need it.<br>- `IntrinsicCostMatchesEip`: `calculate_intrinsic_cost` and `validate_transaction` match the EIP-2028, EIP-2930, EIP-3860 and EIP-2681 formulas.<br>- `DataFeeMonotone`: the blob data fee never falls as the excess blob gas rises. |
| `jit_evm` | violation | The repository's own test program, `PUSH1 2 PUSH1 0 MSTORE PUSH1 32 PUSH1 0 RETURN`, compiles to code that returns offset 32 and size 0 where the EVM returns 32 bytes from offset 0. |

Each property of a passing run has a mutant in `PROJECT.json`: a variant of one
mapped definition, written next to it, that makes a plausible slip in the code.
With the mutant in place, TLC finds the property violated. Two examples are
`StateTransitionPushFirst` and `PrepNoAdvance`.

### Why the JIT's results look as they do
`VStack` is a `VecDeque`. `push` uses `push_back` and `top2` uses `pop_front`,
so operands come out oldest first, and two pushed constants reach an opcode in
the wrong order. `gen_mstore` also swaps roles: it passes `start_position` to
`gen_t0` as the value and `value` to `gen_u64` as the offset. On the test
program the two swaps cancel at MSTORE. RETURN then gets its two operands
reversed.

The model records the following as hazards, without a property that can see
them:
- The store goes through `t4` (the raw offset) rather than `t5`. The model keeps memory effects by offset, so it cannot tell the two apart.
- `gen_mem_expand_function` is a bare `Ret`.
- The `revert_overflow` label is never placed.

### Bounds and why they suffice
- **RLP.** The items straddle every size boundary of `decode_to_bytes`: `0x7F`/`0x80`/`0x81`, the lengths 55 and 56, and long lengths with and without a leading zero. Lists of two items are enough for a malformed second item to fail after a good first one.
- **Trie.** The keys `0x12`, `0x1234` and `0x21` reach a branch at the root, an extension over a branch with a value, and leaves. The 26-byte value reaches both sides of the 32-byte inlining boundary.
- **U256.** The carry, shift and division logic is uniform in the limb width. Two-bit limbs make every carry position, every whole-limb shift and every leading-zero count reachable. At 8 bits, decimal texts up to 511 reach both overflow checks of `decode_int!`: a product of 10 that wraps (26 * 10) and a product that fits whose sum wraps (25 * 10 + 6). Hex texts of one to three digits reach both branches of `hex_to_slice`'s odd/even split and its length check.
- **Memory gas and calls.** A 12-bit Uint puts `ceil32` overflow and the overflow of the squared word count within reach of starts near 4095. A gas budget of 200 makes an out-of-gas access reachable. It also lets two calls run both ways: one that asks for more than all but a 64th (150 and 4000 gas) and is capped, and one whose extra cost exceeds `gas_left`, so that the request passes uncapped to `charge_gas`.
- **Transactions.**
  - SECP256K1N is 11, so the s values 5 and 6 lie on either side of n/2. The r values 0, 10 and 11 lie on either side of n.
  - Legacy v runs over 26..29 and 34..43, around 27/28 and 35/36 + 2 * chain id, for chain ids 1 and 3. A 4-bit U64 makes the nonces 14 and 15 the last usable and the first refused one.
  - The gas limits are the intrinsic cost and one below it, for data with zero and non-zero bytes, with and without `to` and an access list.
  - A Uint of 16 bits lets the Taylor series of the blob gas price overflow. With a fraction of 8, twelve excess values from 0 to 88 raise the price through several steps.
  - Every tagged body is decoded under all five type bytes, as a bare list, and as an empty or a one-byte string.
- **Fork.** Three blocks with a window of two drop hashes from the window. They also move the base fee both ways, and cross from a pre-Cancun genesis to blob fields.
- **JIT.** Six instructions reach every order of two constants, folded and unfolded ADDs, a register left on the stack under an MSTORE, and reads of caller slots at two offsets. With one-byte limbs, carries between limbs still occur.

### Fairness
None is assumed, and no property is about liveness. Every modelled operation is
a single synchronous call that returns. Nothing in these components runs
concurrently; the code has no threads or callbacks.

## Proofs (TLAPS)

Each theorem module extends the module it is about and `TLAPS`. None of them
reaches a RECURSIVE operator.

### `TrieProofs`
The theorems are proved for all `Keys`, `Values` and `Default` that satisfy
`TrieAssumption`:
- **`TypeCorrect`**: `Spec => []TypeOK`.
- **`DefaultNeverStoredHolds`**: `Spec => []DefaultNeverStored`. The invariant is inductive: `set` with the default removes the key, and with any other value stores that value.
- **`Refinement`**: `Spec => ImplementsKVMap`, where the mapping is `mem <- Contents, answer <- getRet`.
  - `Init` maps to the all-default map.
  - `set` maps to `Put`.
  - `get` maps to `Read`.
  - `secured` and `root` are stutters.

### `U256Proofs`
**`CarryChainCorrectHolds`**: `Spec => []CarryChainCorrect`. It holds for every
limb width `W` and every set of operand pairs. U256 `+` and `-` give the integer
sum and difference modulo `Modulus`.

Assumptions:
- `LimbBaseAssumption` (in `U256`): `2^W` is a natural number of at least 2. The provers treat `^` with a symbolic exponent as uninterpreted, so this assumption is how they know it.
- `Modulus` is written as `Base*Base*Base*Base`, not `2^(4W)`, for the same reason.

How the proof goes:
- Lemmas `AddStep` and `SubStep` cover one column of `numeric.rs`'s chain. That column is two `overflowing_add` or `overflowing_sub` calls, and the carry out is the `||` of the two flags. Each lemma shows that the limb is in range and that `limb + Base * carry_out` equals the column's sum (for sub, the column's difference).
- `AddCorrect` and `SubCorrect` join the four columns by telescoping. The top carry disappears modulo `Modulus` (`ModOneWrap`).
- The inductive invariant `IInv` is `CarryChainCorrect` plus the fact that the operands lie in `Operands`.
- A column's result is stated through the named operators `AddColumn` and `SubColumn` rather than a LET, so that the provers can instantiate the column lemmas.

**`MulLosesColumnLowHalf`**: for every limb width `W` (64 included) and in both
builds, U256 `mul` of 1 by `2^W` returns 0 without panicking, while the product
modulo `Modulus` is `2^W`. This is the `u256_mul` counterexample at every width,
not only at the run's `W = 2`. It rests on `WordAssumption` (in `U256`):
`2^(2W) = 2^W * 2^W`, the two limbs of a u128.

### `TransactionsProofs`
- **`RejectsNonCanonicalSignatureHolds`**: `ChainIdsFitU64 => (Spec => []RejectsNonCanonicalSignature)`. This is the check in `recover_sender`: a signature with `r` or `s` out of range, a high `s`, or a bad `v` or `y_parity` returns an error, and only a canonical signature reaches `secp256k1_recover`.
  - The hypothesis `ChainIdsFitU64` says that `2 * chain_id` fits in a U64. Without it, `chain_id * 2` panics in a debug build or wraps in a release build (hazard at `transactions.rs:385`). The run's chain ids (1 and 3, with a 4-bit U64) satisfy the hypothesis too. A chain id of 2^63 or more is left out, because no network uses one.
  - The inductive invariant is `RecoverInv`: the held transaction is one of `TxInputs`, and the property holds.
- **`SignsEveryFieldHolds`**: `Spec => []SignsEveryField`. It has no hypothesis. Whenever `recover_sender` hands a hash to `secp256k1_recover`, the hash's preimage is every field of the transaction in encoding order, with the EIP-155 chain id for a legacy `v` of 35 or more. A typed transaction's preimage is prefixed by its type byte.
  - Lemmas `Pre155Covers`, `Eip155Covers` and `TypedCovers` prove this for each signing-hash function.
  - Lemma `RecoverSenderHash` combines them.

Assumptions:
- `TxConstantsAssumption` says that `SecpN` is odd, as the order of secp256k1 is.
- `TxInputsAssumption` says that the inputs are values of the four structs.

`RecoverSender` follows the code's early returns as an IF chain. It is not a
CASE because a TLA+ CASE with overlapping guards is a nondeterministic choice,
and the code's checks overlap.

### `ForkProofs`
**`AppendOnlyAfterChecksHolds`**: `Spec => AppendOnlyAfterChecks`. This is an
action property: a step that changes the chain is a `state_transition` that
returns Ok and pushes the submitted block. That block has no ommers, and its
excess blob gas is the one `calculate_excess_blob_gas` computes from the parent.
Lemma `StepAppendsOnlyAfterChecks` proves it for one step, for every block a
caller may submit.

**`ChainBlobGasLinkedHolds`**: `Spec => []ChainBlobGasLinked`. Every block after
the genesis has no ommers and the excess blob gas computed from its parent's
header. The inductive invariant `LinkedInv` adds that the chain is a non-empty
sequence: a step either leaves the chain alone or appends one block that passed
the checks, and appending keeps every earlier pair of neighbours.

**`BaseFeeArithmeticSafe`**: for all natural inputs that pass `check_gas_limit`,
`calculate_base_fee_per_gas` divides by a non-zero gas target, its Uint decrease
never underflows, the fee falls by at most `1/BASE_FEE_MAX_CHANGE_DENOMINATOR`
of the parent's, rises by at least 1 above the target, and never rises at or
below it (hazard at `fork.rs:261`). Lemma `CheckGasLimitBound` shows that a
parent gas limit that passes is at least the elasticity multiplier, so the
target is positive. Lemma `DecreaseBound` bounds the decrease by the parent fee
divided by the denominator.

### `JitProofs`
- **`StackHeightTrackedHolds`**: `Spec => []StackHeightTracked`.
- **`SingleRegisterElementHolds`**: `Spec => []SingleRegisterElement`.

Both hold for every bytecode, caller stack, byte width and limb width that
satisfy `JitAssumption`. The height equation alone is not inductive. An ADD
whose operands are a non-constant `a` and a register `b` takes gen_add's last
branch, which pushes nothing, and the height would drift. So the inductive
invariant `JitInv` adds three facts:
- every element of the virtual stack is a constant or `Reg(0)`;
- `Reg(0)` occurs at most once;
- `vstack` and `evm` are sequences, and `old_values` is a natural number.

With these, a register operand of ADD is `Reg(0)` taken from the stack itself,
so the other operand is a constant. A pushed `Reg(0)` replaces the only one, or
nothing stays behind the operands. TLC checks `JitInv` on the `jit` run's
instance.

How the proof goes:
- Lemmas `PrepFacts` and `RestFacts` give the shape of `VStack::prep(2)`: Bp slots appended at the back, and `old_values` advanced by as many slots.
- `PrepInv` gives what the three two-operand opcodes keep once their operands are popped.
- `DivShift` shows that handing out `k` whole slots advances `old_values / SlotSize` by exactly `k`.
- `GenAddPushed` shows what gen_add pushes when its operands are not that pair.
- There is one lemma per action: `PushStep`, `AddStep`, `MStoreStep`, `ReturnStep`, `UnimplementedStep` and `FinishStep`. `JitInvNext` combines them.

The byte strings in the constants are never typed (their value comes from the
recursive `BigEndian`). The invariant only needs their kind.

### Checked only by TLC, and why
- **Results of recursive computations:** node encodings, the root, the RLP decoder (`AcceptsOnlyCanonical`, `RoundTrip`, `DecodeInvertsEncode`), the long division (`DivisionCorrect`), `decode_int!` and `hex_to_slice` (`DecodeIntCorrect`, `HexDecodeCorrect`), and the intrinsic cost and data fee (`IntrinsicCostMatchesEip`, `DataFeeMonotone`, which use the `fake_exponential` loop).
  - These are recursive functions (`BigEndian`, `DecodeLength`, the digit loops, the Taylor series).
  - What they compute for every input needs induction over the definition. The installed provers cannot instantiate the library's induction theorems, which take an operator parameter.
- **`ShiftsCorrect`:** the shift amount is an exponent of `2^amt`, which the provers leave uninterpreted.
- **`EvmFrame`** (`MemoryPaidFor`, `AccessesWithinMemory`, `CallerKeepsOneSixtyFourth`): each depends on the memory cost, which `calculate_gas_extend_memory` computes in a loop over the accesses. That loop is a recursive function.
- **`Jit`'s `CompiledMatchesEvm` and `TypeOK`:** the values the emitted code computes and the constants' bytes come from the recursive `BigEndian` and `from_u8`/`to_u8` conversions. What they are for every input needs induction.
- **The type invariants of `Transactions`, `U256Calc` and `EvmFrame`:** each types a value that a recursive function computes: the Taylor series, the long division and the shifts by `2^n`, and the memory cost loop. That value's type is again a fact about every input of the recursion.
- **`Fork`'s `TypeOK`:** only TLC checks it. The Fork theorems need less typing, and state it in their own invariants. For example, `LinkedInv` needs only that the chain is a non-empty sequence.
- **`MPTReference`:** it declares RECURSIVE operators.
- **Liveness and `ENABLED`:** out of the provers' reach. No property here is about liveness.

## Not modelled, and why
- **keccak256 and secp256k1:** bit-level code. keccak256 is an operator parameter, injective in the MC instances.
- **The interpreter, `apply_body`, `process_transaction` and the system calls:** `todo!()`.
- **The back end of the JIT (`Executable::from_ir`) and the machine code it emits:** `compile` itself ends in `todo!()`.
- **The RLP Extended impls of fixed-width types, `to_uint`, and the byte/hex conversions:** they call the modelled primitives with fixed sizes.
- **`secp256k1_recover`:** `todo!()`. `recover_sender` is modelled up to the hash it passes in, and every call that reaches it panics.
- **`Transaction::encode` and the JSON loader (`json.rs`):** `todo!()`, and test I/O. Only `decode_int!` and `hex_to_slice` of the JSON path are modelled.
- **Defects in the transaction and JSON decoders, found while modelling.** These are hazards in `PROJECT.json`. No run shows them as a violation:
  - `Option::<Address>::encode` writes nothing for `None`, so every field of a contract creation after `to` moves up one item. `decode_to` then fails on that encoding: no contract-creation transaction survives an encode/decode round trip. The same body under another type byte can decode as a transaction of that type. For example, an EIP-1559 creation tagged 1 decodes as an EIP-2930 call whose `to` is the creation's gas. `decode_joined_encodings` never checks that a struct's items are used up.
  - `hex_to_slice` drops the first two characters when they are *not* `0x`, and then reads past two more. An unprefixed hex string silently decodes to a wrong value (`"1234"` to 0). `s.len() - 2` underflows on an empty string, which panics in a debug build.
  - A typed transaction's `chain_id` is hashed into its signing hash, but `recover_sender` does not compare it with the executing chain, whereas it checks the chain id of an EIP-155 legacy v. Whether a caller checks it is outside `transactions.rs`.
- **Two more defects in `fork.rs`, found while modelling (the first is also a hazard in `PROJECT.json`):**
  - `get_last_256_block_hashes` collects `parent_hash` fields, with the latest block's own hash commented out.
  - `EMPTY_OMMER_HASH` is 32 zero bytes, while its comment says it is `keccak256(rlp.encode([]))`.
