---------------------------- MODULE MPTReference ----------------------------
(***************************************************************************)
(* A reference root computation written from the spec's description of     *)
(* the format (spec sections 4.1 and 4.3), not from trie.rs: nodes are     *)
(* built as RLP items (nested strings and lists), small nodes are inlined  *)
(* as items, large ones replaced by their hash as a string, and one        *)
(* generic encoder turns an item into bytes.  Only TLC uses this module.   *)
(***************************************************************************)
EXTENDS Integers, Sequences, FiniteSets

CONSTANT Keccak(_)

LOCAL INSTANCE SequencesExt

Str(b) == [str |-> b]
Lst(s) == [lst |-> s]

RECURSIVE LengthBytes(_)
(* The big-endian bytes of n > 0 with no leading zero.                     *)
LengthBytes(n) == IF n = 0 THEN << >> ELSE Append(LengthBytes(n \div 256), n % 256)

(* The two-tier prefix of section 4.1 at offset base (0x80 or 0xC0).       *)
Prefixed(base, payload) ==
    IF Len(payload) < 56 THEN << base + Len(payload) >> \o payload
    ELSE << base + 55 + Len(LengthBytes(Len(payload))) >>
         \o LengthBytes(Len(payload)) \o payload

RECURSIVE RlpEncodeItem(_)
RlpEncodeItem(it) ==
    IF "str" \in DOMAIN it
    THEN IF Len(it.str) = 1 /\ it.str[1] < 128 THEN it.str ELSE Prefixed(128, it.str)
    ELSE Prefixed(192, FoldLeft(LAMBDA acc, x : acc \o RlpEncodeItem(x), << >>, it.lst))

(* Hex-prefix encoding (section 4.3 step 4): the flag nibble, a zero pad   *)
(* nibble when the length is even, then the nibbles packed two per byte.   *)
SpecCompact(x, isLeaf) ==
    LET flag == (IF isLeaf THEN 2 ELSE 0) + (Len(x) % 2)
        nib  == IF Len(x) % 2 = 1 THEN << flag >> \o x ELSE << flag, 0 >> \o x
    IN  [i \in 1..(Len(nib) \div 2) |-> 16 * nib[2 * i - 1] + nib[2 * i]]

Nibbles(b) == FlattenSeq([i \in 1..Len(b) |-> << b[i] \div 16, b[i] % 16 >>])

(* How a node is referenced from its parent (section 4.3 step 3).          *)
Reference(item) ==
    IF Len(RlpEncodeItem(item)) < 32 THEN item ELSE Str(Keccak(RlpEncodeItem(item)))

(***************************************************************************)
(* The node of the keys K of the nibble-keyed map M at depth level         *)
(* (section 4.3 step 2), as an item.                                       *)
(***************************************************************************)
RECURSIVE SpecNode(_, _, _)
SpecNode(M, K, level) ==
    LET Rest(k) == SubSeq(k, level + 1, Len(k))
        shared  == IF Cardinality(K) < 2 THEN << >>
                   ELSE LongestCommonPrefix({Rest(k) : k \in K})
    IN
    IF K = {} THEN Str(<< >>)
    ELSE IF Cardinality(K) = 1
    THEN LET k == CHOOSE k \in K : TRUE
         IN  Lst(<< Str(SpecCompact(Rest(k), TRUE)), Str(M[k]) >>)
    ELSE IF shared # << >>
    THEN Lst(<< Str(SpecCompact(shared, FALSE)),
                Reference(SpecNode(M, K, level + Len(shared))) >>)
    ELSE LET here == {k \in K : Len(k) = level}
         IN  Lst([i \in 1..16 |->
                    Reference(SpecNode(M, {k \in K \ here : k[level + 1] = i - 1},
                                       level + 1))]
                 \o << Str(IF here = {} THEN << >> ELSE M[CHOOSE k \in here : TRUE]) >>)

(* The nibble-keyed map of a key/value map, keys hashed when secured.      *)
SpecMap(contents, secured) ==
    LET KeyOf(k) == Nibbles(IF secured THEN Keccak(k) ELSE k)
    IN  [n \in {KeyOf(k) : k \in DOMAIN contents} |->
            contents[CHOOSE k \in DOMAIN contents : KeyOf(k) = n]]

(* The top node as its parent would reference it.                          *)
SpecTopReference(contents, secured) ==
    LET M == SpecMap(contents, secured)
    IN  Reference(SpecNode(M, DOMAIN M, 0))

(***************************************************************************)
(* The root (section 4.3 step 5): the hash of the top node's encoding when *)
(* that is shorter than 32 bytes, otherwise the hash that replaced it.     *)
(***************************************************************************)
SpecRoot(contents, secured) ==
    LET top == SpecTopReference(contents, secured)
    IN  IF Len(RlpEncodeItem(top)) < 32 THEN Keccak(RlpEncodeItem(top)) ELSE top.str
=============================================================================
