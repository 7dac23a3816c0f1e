------------------------------- MODULE MCTrie -------------------------------
(***************************************************************************)
(* Trie on three keys whose nibbles share prefixes in the ways           *)
(* patricialize distinguishes (a key whose nibbles are a prefix of         *)
(* another's, giving an extension over a branch that carries a value, and  *)
(* a key alone under its first nibble), and three values: the default, a   *)
(* one-byte value encoded as itself, and a 26-byte value whose leaf under  *)
(* a one-byte key encodes to 31 bytes.                                     *)
(***************************************************************************)
EXTENDS Trie

Ref == INSTANCE MPTReference

MCKeys == { << 18 >>, << 18, 52 >>, << 33 >> }

MCValues == { << >>, << 1 >>, [i \in 1..26 |-> 97] }

MCDefault == << >>

(***************************************************************************)
(* keccak256 stand-in: two polynomial hashes of the input, with prime     *)
(* moduli near 40000 so that TLC's 32-bit products cannot overflow, spread *)
(* over the 32 output bytes.  Distinct digests for distinct inputs unless  *)
(* both polynomial hashes collide.  Poly(s, lo, hi, b, m) is *)
(* << the hash of s[lo..hi] in base b mod m, b^(hi - lo + 1) mod m >>,     *)
(* computed by halving so that long node encodings recurse only shallowly. *)
(***************************************************************************)
RECURSIVE Poly(_, _, _, _, _)
Poly(s, lo, hi, b, m) ==
    IF lo > hi THEN << 0, 1 >>
    ELSE IF lo = hi THEN << (s[lo] + 1) % m, b % m >>
    ELSE LET mid == (lo + hi) \div 2
             l   == Poly(s, lo, mid, b, m)
             r   == Poly(s, mid + 1, hi, b, m)
         IN  << (l[1] * r[2] + r[1]) % m, (l[2] * r[2]) % m >>

MCKeccak(s) ==
    LET a == (17 + Poly(s, 1, Len(s), 31, 40009)[1]) % 40009
        b == (29 + Poly(s, 1, Len(s), 37, 39989)[1]) % 39989
        digits == << a \div 256, a % 256, b \div 256, b % 256 >>
    IN  [j \in 1..32 |-> IF j <= 4 THEN digits[j] ELSE (a + b * j + Len(s)) % 256]

(* The keys hash to distinct digests, as keccak256 is assumed to.          *)
ASSUME MCKeccakInjectiveOnKeys ==
    \A k1, k2 \in MCKeys : k1 # k2 => MCKeccak(k1) # MCKeccak(k2)

-----------------------------------------------------------------------------
(***************************************************************************)
(* Node encoding (trie.rs encode_internal_node, patricialize,              *)
(* nibble_list_to_compact, prepare_trie): the top node of the current      *)
(* contents, encoded as a child reference, is the encoding the format      *)
(* prescribes for the same key/value set, where keys equal to the default  *)
(* are absent: splicing of verbatim encodings, compact flags, extension    *)
(* prefixes, branch routing and values, and inlining below 32 bytes agree. *)
(***************************************************************************)
NodeEncodingMatchesSpec ==
    EncodeInternalNode(Patricialize(PrepareTrie(data, secured), 0), TRUE)
        = Ref!RlpEncodeItem(
              Ref!SpecTopReference([k \in {x \in Keys : Contents[x] # Default} |->
                                       Contents[k]], secured))

(***************************************************************************)
(* Root (trie.rs Trie::root, spec section 4.3 step 5 and section 8): every *)
(* root call returns, without panicking, the root the format prescribes    *)
(* for the contents of the trie at the call, keccak256(RLP(b"")) for the   *)
(* empty trie, for a top node of any length.                               *)
(***************************************************************************)
RootMatchesSpec ==
    [][RootCall =>
         rootRet' = [panic |-> FALSE,
                     root  |-> Ref!SpecRoot([k \in DOMAIN data |-> data[k]], secured)]]_vars

=============================================================================
