------------------------------- MODULE MCFork -------------------------------
(***************************************************************************)
(* TLC instance of Fork.  The gas constants are scaled down (adjustment    *)
(* factor 4, minimum 8, blob target 2) and the hash window is 2 blocks, so *)
(* that a chain of three blocks already drops hashes from the window and   *)
(* moves the base fee both ways.  One genesis carries the Cancun blob      *)
(* fields and one comes from before the fork.  A caller submits on a       *)
(* parent either a valid block or a block that breaks exactly one rule.    *)
(***************************************************************************)
EXTENDS Fork

CONSTANTS NoneValue, ZeroHash, KeccakEmptyList, JunkHash

(* An injective stand-in for keccak256 of a header's RLP encoding.         *)
MCHeaderHash(h) == << "keccak", h >>

MCGenesis(excess) ==
    [parentHash |-> ZeroHash, ommersHash |-> ZeroHash, number |-> 0, gasLimit |-> 16,
     gasUsed |-> 16, timestamp |-> 0, extraLen |-> 0, difficulty |-> 0,
     nonceZero |-> TRUE, baseFee |-> 8, excessBlobGas |-> excess, blobGasUsed |-> excess]

MCGeneses == {MCGenesis(0), MCGenesis(NoneValue)}

(* The block the code accepts on parent p, using gasUsed and blob gas bu.  *)
MCValid(p, gasUsed, bu) ==
    LET excess == CalculateExcessBlobGas(p)
    IN  [header |-> [parentHash |-> HeaderHash(p), ommersHash |-> EmptyOmmerHash,
                     number |-> p.number + 1, gasLimit |-> p.gasLimit, gasUsed |-> gasUsed,
                     timestamp |-> p.timestamp + 1, extraLen |-> 0, difficulty |-> 0,
                     nonceZero |-> TRUE,
                     baseFee |-> IF p.baseFee = None THEN None
                                 ELSE CalculateBaseFeePerGas(p.gasLimit, p.gasLimit,
                                                             p.gasUsed, p.baseFee).fee,
                     excessBlobGas |-> excess,
                     blobGasUsed |-> IF excess = None THEN None ELSE bu],
         ommers |-> 0]

MCSubmittable(p) ==
    LET v == MCValid(p, p.gasLimit, 0)
        h == v.header
    IN  {MCValid(p, gu, bu) : gu \in {0, p.gasLimit}, bu \in {0, 2 * TargetBlobGasPerBlock}}
        \cup
        {[v EXCEPT !.header = x] :
            x \in {[h EXCEPT !.parentHash = JunkHash],
                   [h EXCEPT !.ommersHash = KeccakEmptyList],
                   [h EXCEPT !.number = @ + 1],
                   [h EXCEPT !.timestamp = p.timestamp],
                   [h EXCEPT !.gasUsed = @ + 1],
                   [h EXCEPT !.gasLimit = @ + @ \div GasLimitAdjustmentFactor],
                   [h EXCEPT !.baseFee = IF @ = None THEN 8 ELSE @ + 1],
                   [h EXCEPT !.baseFee = None],
                   [h EXCEPT !.excessBlobGas = IF @ = None THEN 0 ELSE @ + 1,
                             !.blobGasUsed = IF @ = None THEN 0 ELSE @],
                   [h EXCEPT !.extraLen = 33],
                   [h EXCEPT !.difficulty = 1],
                   [h EXCEPT !.nonceZero = FALSE]}}
        \cup {[v EXCEPT !.ommers = 1]}

(* Chains of at most three blocks.                                         *)
MaxChainLength == 3
ChainBound == Len(chain) <= MaxChainLength
=============================================================================
