-------------------------------- MODULE RLP --------------------------------
(***************************************************************************)
(* The canonical byte codec of src/ethereum/ethereum_rlp/rlp.rs: the       *)
(* encoders of byte strings and of joined sequences, and the decoders      *)
(* decode_to_bytes and find_joined_encodings as pure operators.  A byte    *)
(* string is a sequence of integers in 0..255.                             *)
(*                                                                         *)
(* The decoders return a record                                            *)
(*   [st |-> "ok" | "decErr" | "tooSmall" | "panic", ...]                  *)
(* where "panic" stands for a Rust panic (an arithmetic overflow checked   *)
(* in debug builds, or a slice index out of range).                        *)
(***************************************************************************)
EXTENDS Integers, Sequences

Byte == 0..255

(* usize::to_be_bytes with the leading zero bytes stripped.                *)
BigEndian[n \in Nat] ==
    IF n = 0 THEN << >> ELSE Append(BigEndian[n \div 256], n % 256)

(* decode_length: the big-endian value of a slice of at most 8 bytes.      *)
DecodeLength(src) ==
    LET val[i \in 0..Len(src)] ==
            IF i = 0 THEN 0 ELSE val[i - 1] * 256 + src[i]
    IN  val[Len(src)]

(* encode_bytes                                                            *)
EncodeBytes(raw) ==
    IF Len(raw) = 1 /\ raw[1] < 128
    THEN raw
    ELSE IF Len(raw) < 56
         THEN << 128 + Len(raw) >> \o raw
         ELSE << 183 + Len(BigEndian[Len(raw)]) >> \o BigEndian[Len(raw)] \o raw

(* encode_joined_encodings: the list prefix over already joined items.     *)
EncodeJoined(joined) ==
    IF Len(joined) < 56
    THEN << 192 + Len(joined) >> \o joined
    ELSE << 247 + Len(BigEndian[Len(joined)]) >> \o BigEndian[Len(joined)] \o joined

(* join_encodings of a sequence of byte strings, each encoded by           *)
(* encode_bytes (the Extended impl of Bytes), then encode_sequence.        *)
EncodeBytesList(items) ==
    LET joined[i \in 0..Len(items)] ==
            IF i = 0 THEN << >> ELSE joined[i - 1] \o EncodeBytes(items[i])
    IN  EncodeJoined(joined[Len(items)])

(* The slice buf[from..to) of Rust, 0-based and end-exclusive.             *)
Slice(buf, from, to) == SubSeq(buf, from + 1, to)

Ok(dest, rest) == [st |-> "ok", dest |-> dest, rest |-> rest]
Err(st, need) == [st |-> st, need |-> need]

(***************************************************************************)
(* decode_to_bytes(buffer, dest) with dest of length destLen: the payload  *)
(* is right-justified in a zero-filled destination; "rest" is the buffer   *)
(* after the consumed item.                                                *)
(***************************************************************************)
DecodeToBytes(buf, destLen) ==
    IF buf = << >> \/ buf[1] > 191 THEN Err("decErr", 0)
    ELSE IF buf[1] <= 128 THEN
        IF destLen < 1 THEN Err("tooSmall", 1)
        ELSE Ok([i \in 1..destLen |-> IF i = destLen THEN buf[1] ELSE 0], Tail(buf))
    ELSE IF buf[1] <= 183 THEN
        LET n == buf[1] - 128 IN
        IF n >= Len(buf) THEN Err("decErr", 0)
        ELSE IF n > destLen THEN Err("tooSmall", n)
        ELSE IF n = 1 /\ buf[2] < 128 THEN Err("decErr", 0)
        ELSE Ok([i \in 1..destLen |-> IF i <= destLen - n THEN 0
                                       ELSE buf[1 + i - (destLen - n)]],
                Slice(buf, 1 + n, Len(buf)))
    ELSE
        LET start == 1 + buf[1] - 183 IN
        IF start - 1 >= Len(buf) THEN Err("decErr", 0)
        ELSE IF buf[2] = 0 THEN Err("decErr", 0)
        ELSE LET n == DecodeLength(Slice(buf, 1, start)) IN
             IF n < 56 THEN Err("decErr", 0)
             ELSE IF start + n - 1 >= Len(buf) THEN Err("decErr", 0)
             ELSE IF n > destLen THEN Err("tooSmall", n)
             ELSE Ok([i \in 1..destLen |-> IF i <= destLen - n THEN 0
                                            ELSE buf[start + i - (destLen - n)]],
                     Slice(buf, start + n, Len(buf)))

(***************************************************************************)
(* Bytes::decode: decode_to_bytes into an empty destination, and on        *)
(* DestTooSmall(n) resize the destination to n and decode again.          *)
(***************************************************************************)
DecodeBytesItem(buf) ==
    LET first == DecodeToBytes(buf, 0) IN
    IF first.st = "ok" THEN Ok(<< >>, first.rest)
    ELSE IF first.st = "tooSmall" THEN DecodeToBytes(buf, first.need)
    ELSE first

(***************************************************************************)
(* find_joined_encodings: strip the list prefix.  The start index of a     *)
(* long list, 1 + buffer[0] - 0xF7, is computed in u8: for a prefix byte   *)
(* 0xFF the addition 1 + 0xFF overflows, which panics when overflow checks *)
(* are on (debug builds) and wraps to the right value otherwise.           *)
(***************************************************************************)
FindJoinedEncodings(buf, overflowChecks) ==
    IF buf = << >> \/ buf[1] <= 191 THEN Err("decErr", 0)
    ELSE IF buf[1] <= 247 THEN
        LET n == buf[1] - 192 IN
        IF n >= Len(buf) THEN Err("decErr", 0)
        ELSE Ok(Slice(buf, 1, 1 + n), Slice(buf, 1 + n, Len(buf)))
    ELSE IF overflowChecks /\ 1 + buf[1] > 255 THEN Err("panic", 0)
    ELSE
        LET start == (((1 + buf[1]) % 256) - 247) % 256 IN
        IF start - 1 >= Len(buf) THEN Err("decErr", 0)
        ELSE IF buf[2] = 0 THEN Err("decErr", 0)
        ELSE LET n == DecodeLength(Slice(buf, 1, start)) IN
             IF n < 56 THEN Err("decErr", 0)
             ELSE IF start + n - 1 >= Len(buf) THEN Err("decErr", 0)
             ELSE Ok(Slice(buf, start, start + n), Slice(buf, start + n, Len(buf)))
=============================================================================
