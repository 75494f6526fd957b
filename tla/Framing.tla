------------------------------ MODULE Framing ------------------------------
(***************************************************************************)
(* The framing of the native protocol (src/protocol/native.go, writeNative  *)
(* and decodeNativeFrames): a frame is its length, as a big endian number   *)
(* in a header of fixed size, and as many bytes.  The encoder is that of    *)
(* writeNative, with which a client writes its frames as well.  The server  *)
(* decodes each WebSocket message by itself.                                *)
(***************************************************************************)
EXTENDS Naturals, Sequences, SequencesExt

CONSTANTS Base,          \* number of values of a byte: 256
          HeaderLen,     \* bytes of the header: 4
          MaxFrame       \* the longest frame accepted: 16 MiB

ASSUME FramingAssumption ==
  Base \in Nat \ {0, 1} /\ HeaderLen \in Nat \ {0} /\ MaxFrame \in Nat \ {0}

\* The digits of the length, the highest first; it loses those that do not fit.
Header(n) ==
  LET left[k \in 0 .. HeaderLen] == IF k = 0 THEN n ELSE left[k - 1] \div Base
  IN  [k \in 1 .. HeaderLen |-> left[HeaderLen - k] % Base]

Encode(frame) == Header(Len(frame)) \o frame

Number(bytes) ==
  LET value[k \in 0 .. Len(bytes)] == IF k = 0 THEN 0 ELSE value[k - 1] * Base + bytes[k]
  IN  value[Len(bytes)]

\* How many numbers n digits have.
Power(n) == LET power[k \in 0 .. n] == IF k = 0 THEN 1 ELSE Base * power[k - 1] IN power[n]

Refusal == [ok |-> FALSE, frames |-> <<>>]

\* Mutant: there is no limit.
FitsAny(n, left) == HeaderLen + n <= left

\* A frame of n bytes is accepted from a message of which so much is left.
Fits(n, left) == n <= MaxFrame /\ HeaderLen + n <= left

\* The frames of a message, from each of its bytes on; a part that is no
\* frame makes the whole message invalid.
Decode(p) ==
  LET from[i \in 1 .. Len(p) + 1] ==
        LET left == Len(p) + 1 - i
            n == Number(SubSeq(p, i, i + HeaderLen - 1))
            rest == from[i + HeaderLen + n]
        IN  CASE left = 0 -> [ok |-> TRUE, frames |-> <<>>]
              [] left \in 1 .. HeaderLen - 1 -> Refusal
              [] left >= HeaderLen /\ ~Fits(n, left) -> Refusal
              [] OTHER -> IF rest.ok
                          THEN [ok |-> TRUE,
                                frames |-> <<SubSeq(p, i + HeaderLen, i + HeaderLen + n - 1)>>
                                             \o rest.frames]
                          ELSE Refusal
  IN  from[1]
=============================================================================
