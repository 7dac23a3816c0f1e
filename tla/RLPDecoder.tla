----------------------------- MODULE RLPDecoder -----------------------------
(***************************************************************************)
(* rlp::decode_to::<Vec<Bytes>>(input) as a state machine over the         *)
(* decoding cursor (src/ethereum/ethereum_rlp/rlp.rs):                     *)
(*   Start       decode_to's empty check and Vec::decode's                 *)
(*               find_joined_encodings on the input;                       *)
(*   DecodeItem  one iteration of Vec::decode's loop: Bytes::decode of the *)
(*               next item, with its DestTooSmall resize-and-retry;        *)
(*   Finish      the end of the loop and decode_to's trailing-bytes check. *)
(* OverflowChecks says whether the build panics on u8 overflow (debug) or  *)
(* wraps (release).                                                        *)
(***************************************************************************)
EXTENDS RLP

CONSTANTS
    Inputs,          \* the byte strings handed to decode_to
    OverflowChecks   \* TRUE for a debug build

ASSUME InputsAssumption == Inputs \subseteq Seq(Byte)
ASSUME OverflowAssumption == OverflowChecks \in BOOLEAN

VARIABLES
    input,     \* the argument of decode_to
    outer,     \* encoded_data after the list prefix and payload are consumed
    buf,       \* the joined encodings still to decode
    out,       \* the Vec<Bytes> decoded so far
    consumed,  \* history: the bytes of each decoded item, in order
    phase      \* "start", "items", "done", "error" or "panic"

vars == << input, outer, buf, out, consumed, phase >>

Phases == {"start", "items", "done", "error", "panic"}

(* Faulty variant: the decoder's error kind taken as the call's outcome.  *)
FailAsKind(r) == phase' = r.st

(* A failed decoder result ends the call with an error, or with a panic.   *)
Fail(r) == phase' = IF r.st = "panic" THEN "panic" ELSE "error"

Init ==
    /\ input \in Inputs
    /\ outer = input
    /\ buf = << >>
    /\ out = << >>
    /\ consumed = << >>
    /\ phase = "start"

(* decode_to (rlp.rs 329-334) entering Vec::decode (239-241).              *)
Start ==
    /\ phase = "start"
    /\ IF input = << >>
       THEN phase' = "error" /\ UNCHANGED << outer, buf >>
       ELSE LET r == FindJoinedEncodings(input, OverflowChecks) IN
            IF r.st = "ok"
            THEN /\ buf' = r.dest
                 /\ outer' = r.rest
                 /\ phase' = "items"
            ELSE Fail(r) /\ UNCHANGED << outer, buf >>
    /\ UNCHANGED << input, out, consumed >>

(* One iteration of the loop of Vec::decode (rlp.rs 245-249).              *)
DecodeItem ==
    /\ phase = "items"
    /\ buf # << >>
    /\ LET r == DecodeBytesItem(buf) IN
       IF r.st = "ok"
       THEN /\ out' = Append(out, r.dest)
            /\ consumed' = Append(consumed, SubSeq(buf, 1, Len(buf) - Len(r.rest)))
            /\ buf' = r.rest
            /\ UNCHANGED phase
       ELSE Fail(r) /\ UNCHANGED << out, consumed, buf >>
    /\ UNCHANGED << input, outer >>

(* Faulty variant: the end of the loop without the trailing-bytes check.  *)
FinishIgnoringTrailing ==
    /\ phase = "items"
    /\ buf = << >>
    /\ phase' = "done"
    /\ UNCHANGED << input, outer, buf, out, consumed >>

(* The loop ends on an empty buffer; decode_to rejects trailing bytes      *)
(* (rlp.rs 335-338).                                                       *)
Finish ==
    /\ phase = "items"
    /\ buf = << >>
    /\ phase' = IF outer = << >> THEN "done" ELSE "error"
    /\ UNCHANGED << input, outer, buf, out, consumed >>

Next == Start \/ DecodeItem \/ Finish

Spec == Init /\ [][Next]_vars

-----------------------------------------------------------------------------
(* The payload a single item encoding carries, read from its header as the *)
(* format's rules state it (a byte below 0x80 is itself, 0x80+n a short    *)
(* string, 0xB7+k a long string with a k-byte length).                     *)
SpecPayload(c) ==
    IF c[1] < 128 THEN << c[1] >>
    ELSE IF c[1] <= 183 THEN SubSeq(c, 2, Len(c))
    ELSE SubSeq(c, 2 + (c[1] - 183), Len(c))

(* The concatenation of a sequence of byte strings.                        *)
Joined(cs) ==
    LET j[i \in 0..Len(cs)] == IF i = 0 THEN << >> ELSE j[i - 1] \o cs[i]
    IN  j[Len(cs)]

TypeOK ==
    /\ input \in Inputs
    /\ outer \in Seq(Byte)
    /\ buf \in Seq(Byte)
    /\ out \in Seq(Seq(Byte))
    /\ consumed \in Seq(Seq(Byte))
    /\ phase \in Phases

(***************************************************************************)
(* Canonicality (decode_to_bytes, find_joined_encodings): the decoder      *)
(* accepts only canonical encodings.  When a decode succeeds, every item   *)
(* it consumed is the unique minimal encoding of the payload it carries,   *)
(* and the whole input is the minimal list encoding of those items: no     *)
(* wrapped single byte below 0x80, no leading zero length byte, no long    *)
(* form for a short length, no trailing bytes.                             *)
(***************************************************************************)
AcceptsOnlyCanonical ==
    phase = "done" =>
        /\ \A i \in 1..Len(consumed) :
               EncodeBytes(SpecPayload(consumed[i])) = consumed[i]
        /\ input = EncodeJoined(Joined(consumed))

(***************************************************************************)
(* Round trip (spec section 8): a successful decode of a list of byte      *)
(* strings returns exactly the strings whose encoding was decoded, so      *)
(* encoding the result reproduces the input.                               *)
(***************************************************************************)
RoundTrip ==
    phase = "done" => EncodeBytesList(out) = input
=============================================================================
