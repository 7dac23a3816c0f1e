-------------------------------- MODULE MPT --------------------------------
(***************************************************************************)
(* The root computation of the Merkle Patricia Trie of                     *)
(* src/ethereum/cancun/trie.rs, as pure operators: key preparation,        *)
(* patricialize, encode_internal_node and root.  Recursion is written as   *)
(* recursive functions.  keccak256 is the operator parameter Keccak, from  *)
(* byte strings to 32-byte strings.                                        *)
(***************************************************************************)
EXTENDS RLP, FiniteSets

CONSTANT Keccak(_)

LOCAL INSTANCE FiniteSetsExt

(* bytes_to_nibble_list: two nibbles per byte, high nibble first.          *)
BytesToNibbleList(b) ==
    [i \in 1..2 * Len(b) |-> IF i % 2 = 1 THEN b[(i + 1) \div 2] \div 16
                                          ELSE b[i \div 2] % 16]

(* nibble_list_to_compact with the odd-length bit left out of the flag.   *)
NibbleListToCompactNoOddBit(x, isLeaf) ==
    LET flag == IF isLeaf THEN 2 ELSE 0
        odd  == Len(x) % 2 = 1
        head == IF odd THEN << 16 * flag + x[1] >> ELSE << 16 * flag >>
        rest == IF odd THEN Tail(x) ELSE x
    IN  head \o [i \in 1..(Len(rest) \div 2) |-> 16 * rest[2 * i - 1] + rest[2 * i]]

(* nibble_list_to_compact: a flag nibble (bit 1 is_leaf, bit 0 odd        *)
(* length) in the first byte, followed by the nibbles two per byte.        *)
NibbleListToCompact(x, isLeaf) ==
    LET flag == IF isLeaf THEN 2 ELSE 0
        odd  == Len(x) % 2 = 1
        head == IF odd THEN << 16 * (flag + 1) + x[1] >> ELSE << 16 * flag >>
        rest == IF odd THEN Tail(x) ELSE x
    IN  head \o [i \in 1..(Len(rest) \div 2) |-> 16 * rest[2 * i - 1] + rest[2 * i]]

(* common_prefix_length: the index of the first difference, or the length  *)
(* of the shorter sequence.                                                *)
CommonPrefixLength(a, b) ==
    LET m    == IF Len(a) <= Len(b) THEN Len(a) ELSE Len(b)
        diff == {i \in 1..m : a[i] # b[i]}
    IN  IF diff = {} THEN m ELSE Min(diff) - 1

(* The order of Bytes (a Vec<u8>): lexicographic, a prefix first.          *)
BytesLeq(a, b) ==
    \/ Len(a) <= Len(b) /\ SubSeq(b, 1, Len(a)) = a
    \/ \E i \in 1..Len(a) : /\ i <= Len(b)
                             /\ a[i] < b[i]
                             /\ SubSeq(a, 1, i - 1) = SubSeq(b, 1, i - 1)

(* The first key of a BTreeMap with the key set K.                         *)
FirstKey(K) == CHOOSE k \in K : \A j \in K : BytesLeq(k, j)

(* Value::encode_node of Bytes: the RLP encoding of the value.             *)
EncodeNode(v) == EncodeBytes(v)

(***************************************************************************)
(* prepare_trie: the map from the nibbles of each key (hashed first when   *)
(* the trie is secured) to the encoding of its value.                      *)
(***************************************************************************)
PreparedKey(k, secured) == BytesToNibbleList(IF secured THEN Keccak(k) ELSE k)

PrepareTrie(data, secured) ==
    [n \in {PreparedKey(k, secured) : k \in DOMAIN data} |->
        EncodeNode(data[CHOOSE k \in DOMAIN data : PreparedKey(k, secured) = n])]

(* The suffix key[level..] of a nibble key.                                *)
From(key, level) == SubSeq(key, level + 1, Len(key))

(***************************************************************************)
(* encode_internal_node(node, rlp_the_hash).  An encoding of 32 bytes or   *)
(* more is replaced by its hash, RLP-wrapped when rlp_the_hash.            *)
(***************************************************************************)
EncodeInternalNode(node, rlpTheHash) ==
    LET encoded ==
            CASE node.type = "leaf" ->
                    EncodeJoined(EncodeBytes(NibbleListToCompact(node.restOfKey, TRUE))
                                 \o node.value)
              [] node.type = "extension" ->
                    EncodeJoined(EncodeBytes(NibbleListToCompact(node.keySegment, FALSE))
                                 \o node.subnode)
              [] node.type = "branch" ->
                    EncodeJoined(
                        LET j[i \in 0..16] ==
                                IF i = 0 THEN << >> ELSE j[i - 1] \o node.subnodes[i - 1]
                        IN  j[16] \o node.value)
              [] node.type = "none" -> << 128 >>
    IN  IF Len(encoded) < 32 THEN encoded
        ELSE IF rlpTheHash THEN EncodeBytes(Keccak(encoded))
        ELSE Keccak(encoded)

(***************************************************************************)
(* patricialize(obj, level), for obj the restriction of the prepared map   *)
(* M to the key set K.  Enc is the function giving the child encodings     *)
(* encode_internal_node(patricialize(obj', level'), true).                 *)
(***************************************************************************)
PatricializeStep(M, K, level, Enc) ==
    IF K = {} THEN [type |-> "none"]
    ELSE
    LET key == FirstKey(K) IN
    IF Cardinality(K) = 1
    THEN [type |-> "leaf", restOfKey |-> From(key, level), value |-> M[key]]
    ELSE
    LET substring    == From(key, level)
        prefixLength == Min({Len(substring)} \cup
                            {CommonPrefixLength(substring, From(k, level)) : k \in K})
    IN
    IF prefixLength > 0
    THEN [type       |-> "extension",
          keySegment |-> SubSeq(key, level + 1, level + prefixLength),
          subnode    |-> Enc[K, level + prefixLength]]
    ELSE
    LET atLevel == {k \in K : Len(k) = level} IN
    [type     |-> "branch",
     subnodes |-> [b \in 0..15 |->
                     Enc[{k \in K \ atLevel : k[level + 1] = b}, level + 1]],
     value    |-> IF atLevel = {} THEN << 128 >> ELSE M[CHOOSE k \in atLevel : TRUE]]

(* The child encodings: encode_internal_node(patricialize(.), true).       *)
ChildEncoding(M) ==
    LET enc[K \in SUBSET DOMAIN M, level \in Nat] ==
            EncodeInternalNode(PatricializeStep(M, K, level, enc), TRUE)
    IN  enc

(* patricialize(M, level) of the whole map.                                *)
Patricialize(M, level) == PatricializeStep(M, DOMAIN M, level, ChildEncoding(M))

(***************************************************************************)
(* Trie::root: the top node encoded with the bare hash, that encoding      *)
(* RLP-encoded as a byte string; below 32 bytes the root is the hash of    *)
(* it, otherwise the 32-byte top encoding itself, whose try_into panics    *)
(* when it is not 32 bytes long.                                           *)
(***************************************************************************)
Root(data, secured) ==
    LET rootNode == EncodeInternalNode(Patricialize(PrepareTrie(data, secured), 0), FALSE)
        encoded  == EncodeBytes(rootNode)
    IN  IF Len(encoded) < 32 THEN [panic |-> FALSE, root |-> Keccak(encoded)]
        ELSE IF Len(rootNode) = 32 THEN [panic |-> FALSE, root |-> rootNode]
        ELSE [panic |-> TRUE, root |-> << >>]
=============================================================================
