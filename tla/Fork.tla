------------------------------- MODULE Fork -------------------------------
(***************************************************************************)
(* The block chain of src/ethereum/cancun/fork.rs: BlockChain::from_genesis *)
(* and state_transition, with the header checks it calls (validate_header, *)
(* calculate_base_fee_per_gas, check_gas_limit, calculate_excess_blob_gas  *)
(* of vm/gas.rs) and get_last_256_block_hashes.  A header keeps the fields *)
(* these read; roots, bloom, coinbase and randao are compared only with    *)
(* apply_body's output, whose agreement is one choice of the environment.  *)
(* Hashes are values of the operator HeaderHash (keccak256 of the header's *)
(* RLP encoding) and the constants below.                                  *)
(***************************************************************************)
EXTENDS Integers, Sequences

CONSTANTS
    GasLimitAdjustmentFactor,   \* GAS_LIMIT_ADJUSTMENT_FACTOR (1024)
    GasLimitMinimum,            \* GAS_LIMIT_MINIMUM (5000)
    BaseFeeMaxChangeDenominator,\* BASE_FEE_MAX_CHANGE_DENOMINATOR (8)
    ElasticityMultiplier,       \* ELASTICITY_MULTIPLIER (2)
    TargetBlobGasPerBlock,      \* TARGET_BLOB_GAS_PER_BLOCK (393216)
    HashWindow,                 \* the 256 of get_last_256_block_hashes
    EmptyOmmerHash,             \* the code's EMPTY_OMMER_HASH: 32 zero bytes,
                                \* also the genesis parent_hash
    None,                       \* Option::None
    HeaderHash(_),              \* keccak256(rlp::encode(header))
    Geneses,                    \* the genesis headers from_genesis may get
    Submittable(_)              \* the blocks a caller may submit on a parent

ASSUME ForkConstantsAssumption ==
    /\ GasLimitAdjustmentFactor \in Nat \ {0}
    /\ GasLimitMinimum \in Nat
    /\ BaseFeeMaxChangeDenominator \in Nat \ {0}
    /\ ElasticityMultiplier \in Nat \ {0}
    /\ GasLimitAdjustmentFactor >= ElasticityMultiplier
    /\ TargetBlobGasPerBlock \in Nat
    /\ HashWindow \in Nat \ {0}
    /\ None \notin Nat

VARIABLES
    chain,      \* BlockChain.blocks: a sequence of [header, ommers]
    submitted,  \* the block of the last state_transition call, or None
    verdict,    \* whether validate_header returned Ok in that call
                \* (None when the call returned before it)
    hashes,     \* the block_hashes that call handed to apply_body (None
                \* when it returned before apply_body)
    outcome     \* "ok", "invalid" or "none" (before any call)

vars == << chain, submitted, verdict, hashes, outcome >>

Last(s) == s[Len(s)]

(***************************************************************************)
(* check_gas_limit: the new limit must lie strictly within parent_gas_limit *)
(* +/- parent_gas_limit / GAS_LIMIT_ADJUSTMENT_FACTOR and reach the       *)
(* minimum.  Uint subtraction cannot go below zero here, as the delta is a *)
(* fraction of the parent limit.                                           *)
(***************************************************************************)
CheckGasLimit(gasLimit, parentGasLimit) ==
    LET maxAdjustmentDelta == parentGasLimit \div GasLimitAdjustmentFactor
    IN  /\ gasLimit < parentGasLimit + maxAdjustmentDelta
        /\ gasLimit > parentGasLimit - maxAdjustmentDelta
        /\ gasLimit >= GasLimitMinimum

(***************************************************************************)
(* calculate_base_fee_per_gas: Err when check_gas_limit fails; otherwise   *)
(* the parent fee moved towards the gas used against the target, by at     *)
(* least 1 upwards (.max(1)).  Result [ok, fee].  The check passes only    *)
(* for a parent limit of at least GAS_LIMIT_ADJUSTMENT_FACTOR, so the      *)
(* target is not zero when it divides.                                     *)
(***************************************************************************)
CalculateBaseFeePerGas(blockGasLimit, parentGasLimit, parentGasUsed, parentBaseFee) ==
    LET target == parentGasLimit \div ElasticityMultiplier
        Delta(used) == ((parentBaseFee * used) \div target) \div BaseFeeMaxChangeDenominator
    IN  IF ~CheckGasLimit(blockGasLimit, parentGasLimit) THEN [ok |-> FALSE, fee |-> 0]
        ELSE IF parentGasUsed = target THEN [ok |-> TRUE, fee |-> parentBaseFee]
        ELSE IF parentGasUsed > target
        THEN LET d == Delta(parentGasUsed - target)
             IN  [ok |-> TRUE, fee |-> parentBaseFee + (IF d < 1 THEN 1 ELSE d)]
        ELSE [ok |-> TRUE, fee |-> parentBaseFee - Delta(target - parentGasUsed)]

(* An excess blob gas that subtracts the target without the floor at zero. *)
CalculateExcessBlobGasUnfloored(parent) ==
    IF parent.excessBlobGas = None \/ parent.blobGasUsed = None THEN None
    ELSE parent.excessBlobGas + parent.blobGasUsed - TargetBlobGasPerBlock

(***************************************************************************)
(* calculate_excess_blob_gas (vm/gas.rs): None when the parent header has  *)
(* no blob fields; otherwise the parent's excess plus its blob gas used,   *)
(* less the target, floored at zero.                                       *)
(***************************************************************************)
CalculateExcessBlobGas(parent) ==
    IF parent.excessBlobGas = None \/ parent.blobGasUsed = None THEN None
    ELSE LET parentBlobGas == parent.excessBlobGas + parent.blobGasUsed
         IN  IF parentBlobGas < TargetBlobGasPerBlock THEN 0
             ELSE parentBlobGas - TargetBlobGasPerBlock

(***************************************************************************)
(* validate_header: Ok exactly when no check returns early.  The base fee  *)
(* is checked only when both headers carry one; the parent hash is         *)
(* keccak256 of the parent's encoding.                                     *)
(***************************************************************************)
ValidateHeader(header, parent) ==
    /\ header.gasUsed <= header.gasLimit
    /\ parent.baseFee # None /\ header.baseFee # None =>
          LET expected == CalculateBaseFeePerGas(header.gasLimit, parent.gasLimit,
                                                 parent.gasUsed, parent.baseFee)
          IN  expected.ok /\ expected.fee = header.baseFee
    /\ header.timestamp > parent.timestamp
    /\ header.number = parent.number + 1
    /\ header.extraLen <= 32
    /\ header.difficulty = 0
    /\ header.nonceZero
    /\ header.ommersHash = EmptyOmmerHash
    /\ header.parentHash = HeaderHash(parent)

(***************************************************************************)
(* get_last_256_block_hashes: the parent_hash fields of the last           *)
(* HashWindow blocks (fewer at the start of the chain), oldest first.      *)
(***************************************************************************)
GetLast256BlockHashes(blocks) ==
    LET start == IF Len(blocks) > HashWindow THEN Len(blocks) - HashWindow ELSE 0
    IN  [i \in 1..(Len(blocks) - start) |-> blocks[start + i].header.parentHash]

(* BlockChain::from_genesis: the genesis block alone, without ommers.      *)
Init ==
    /\ \E g \in Geneses : chain = << [header |-> g, ommers |-> 0] >>
    /\ submitted = None
    /\ verdict = None
    /\ hashes = None
    /\ outcome = "none"

(* A state_transition that pushes the block before comparing apply_body's  *)
(* output with the header.                                                 *)
StateTransitionPushFirst(block, bodyAgrees) ==
    LET parent    == Last(chain).header
        blobGasOk == block.header.excessBlobGas = CalculateExcessBlobGas(parent)
        reachBody == blobGasOk /\ block.ommers = 0
    IN  /\ submitted' = block
        /\ verdict' = IF blobGasOk THEN ValidateHeader(block.header, parent) ELSE None
        /\ hashes' = IF reachBody THEN GetLast256BlockHashes(chain) ELSE None
        /\ outcome' = IF reachBody /\ bodyAgrees THEN "ok" ELSE "invalid"
        /\ chain' = IF reachBody THEN Append(chain, block) ELSE chain

(* A state_transition that drops the result of the ommers check, as it     *)
(* drops validate_header's.                                                *)
StateTransitionOmmersUnchecked(block, bodyAgrees) ==
    LET parent    == Last(chain).header
        blobGasOk == block.header.excessBlobGas = CalculateExcessBlobGas(parent)
        reachBody == blobGasOk
    IN  /\ submitted' = block
        /\ verdict' = IF blobGasOk THEN ValidateHeader(block.header, parent) ELSE None
        /\ hashes' = IF reachBody THEN GetLast256BlockHashes(chain) ELSE None
        /\ IF reachBody /\ bodyAgrees
           THEN outcome' = "ok" /\ chain' = Append(chain, block)
           ELSE outcome' = "invalid" /\ UNCHANGED chain

(***************************************************************************)
(* state_transition(chain, block): Err when the block's excess blob gas is *)
(* not the one computed from the parent; validate_header is called and its *)
(* Result dropped (no ?); Err for ommers; then apply_body with the last    *)
(* block hashes, Err when apply_body fails or its output disagrees with a  *)
(* header field (bodyAgrees); otherwise the block is pushed.               *)
(***************************************************************************)
StateTransition(block, bodyAgrees) ==
    LET parent    == Last(chain).header
        blobGasOk == block.header.excessBlobGas = CalculateExcessBlobGas(parent)
        reachBody == blobGasOk /\ block.ommers = 0
    IN  /\ submitted' = block
        /\ verdict' = IF blobGasOk THEN ValidateHeader(block.header, parent) ELSE None
        /\ hashes' = IF reachBody THEN GetLast256BlockHashes(chain) ELSE None
        /\ IF reachBody /\ bodyAgrees
           THEN outcome' = "ok" /\ chain' = Append(chain, block)
           ELSE outcome' = "invalid" /\ UNCHANGED chain

Next == \E block \in Submittable(Last(chain).header), bodyAgrees \in BOOLEAN :
            StateTransition(block, bodyAgrees)

Spec == Init /\ [][Next]_vars

-----------------------------------------------------------------------------
(* A header as this model keeps it; the two hash fields are left untyped.  *)
IsHeader(h) ==
    /\ DOMAIN h = {"parentHash", "ommersHash", "number", "gasLimit", "gasUsed",
                   "timestamp", "extraLen", "difficulty", "nonceZero", "baseFee",
                   "excessBlobGas", "blobGasUsed"}
    /\ {h.number, h.gasLimit, h.gasUsed, h.timestamp, h.extraLen, h.difficulty} \subseteq Nat
    /\ h.nonceZero \in BOOLEAN
    /\ {h.baseFee, h.excessBlobGas, h.blobGasUsed} \subseteq Nat \cup {None}

IsBlock(b) == DOMAIN b = {"header", "ommers"} /\ IsHeader(b.header) /\ b.ommers \in Nat

TypeOK ==
    /\ Len(chain) >= 1 /\ \A i \in 1..Len(chain) : IsBlock(chain[i])
    /\ submitted = None \/ IsBlock(submitted)
    /\ verdict \in BOOLEAN \cup {None}
    /\ hashes = None \/ DOMAIN hashes = 1..Len(hashes)
    /\ outcome \in {"none", "ok", "invalid"}

(***************************************************************************)
(* state_transition changes the chain only in a call that returns Ok, and  *)
(* then only by pushing the submitted block, after the excess blob gas and *)
(* ommers checks and apply_body's agreement; an Err leaves it as it was.   *)
(***************************************************************************)
AppendOnlyAfterChecks ==
    [][chain' # chain =>
         /\ outcome' = "ok"
         /\ chain' = Append(chain, submitted')
         /\ submitted'.ommers = 0
         /\ submitted'.header.excessBlobGas = CalculateExcessBlobGas(Last(chain).header)]_vars

(***************************************************************************)
(* Every block after the genesis has no ommers and the excess blob gas     *)
(* calculate_excess_blob_gas computes from the block before it: the two    *)
(* checks of state_transition that return Err before apply_body hold of    *)
(* the whole chain, across any sequence of accepted and refused calls.     *)
(***************************************************************************)
ChainBlobGasLinked ==
    \A i \in 2..Len(chain) :
        /\ chain[i].ommers = 0
        /\ chain[i].header.excessBlobGas = CalculateExcessBlobGas(chain[i - 1].header)

(***************************************************************************)
(* Every block on the chain has a header that validate_header accepts      *)
(* against its parent, as state_transition's doc comment requires ("All    *)
(* parts of the block's contents need to be verified before being added    *)
(* to the chain").                                                         *)
(***************************************************************************)
ChainHeadersValid ==
    \A i \in 2..Len(chain) : ValidateHeader(chain[i].header, chain[i - 1].header)

=============================================================================
