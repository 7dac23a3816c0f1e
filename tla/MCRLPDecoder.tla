---------------------------- MODULE MCRLPDecoder ----------------------------
(***************************************************************************)
(* Inputs for RLPDecoder: lists of zero, one or two items drawn from       *)
(* canonical and malformed item encodings, under canonical and malformed   *)
(* list headers, and a few short malformed inputs.                         *)
(***************************************************************************)
EXTENDS RLPDecoder

Fill(n) == [i \in 1..n |-> 97]

(* Item encodings: canonical ones on both sides of every size boundary,    *)
(* and each non-canonical or malformed form the decoder must reject.       *)
MCItems ==
    { << 5 >>,                        \* a single byte below 0x80
      << 128 >>,                      \* the empty string
      << 129, 200 >>,                 \* one byte at or above 0x80
      << 129, 5 >>,                   \* a byte below 0x80 wrapped
      << 130, 1, 2 >>,                \* a short string
      << 131, 1, 2 >>,                \* a short string cut short
      << 183 >> \o Fill(55),          \* the longest short string
      << 184, 56 >> \o Fill(56),      \* the shortest long string
      << 184, 5 >> \o Fill(5),        \* a short length in long form
      << 185, 0, 56 >> \o Fill(56),   \* a length with a leading zero byte
      << 192 >> }                     \* a list where a string is expected

MCJoined ==
    { << >> } \cup { i : i \in MCItems }
              \cup { i \o j : i \in MCItems, j \in MCItems }

(* Each joined payload under a canonical header, a long-form header for a  *)
(* short payload, a header one byte too long, and with a trailing byte.    *)
MCInputs ==
    UNION { { EncodeJoined(j),
              EncodeJoined(j) \o << 0 >>,
              << 248, Len(j) >> \o j,
              IF Len(j) < 55 THEN << 193 + Len(j) >> \o j
                             ELSE << 248, Len(j) + 1 >> \o j } : j \in MCJoined }
    \cup { << >>, << 5 >>, << 255 >>, << 255, 1 >>, << 248 >> }
=============================================================================
