------------------------- MODULE MCNativeConnection -------------------------
(* Messages for TLC: handshakes that work and that do not, single requests, *)
(* several frames with one among them that cannot be read, and messages     *)
(* that cannot be framed.  A frame is at most two bytes long.               *)
EXTENDS NativeConnection

Whole(frames) == [text |-> FALSE, frames |-> frames, cut |-> 0]
Short(frames, n) == [text |-> FALSE, frames |-> frames, cut |-> n]

MCMessage ==
  {[text |-> TRUE, frames |-> <<>>, cut |-> 0]}
    \cup {Whole(f) : f \in {<<"hello">>, <<"old">>, <<"garbage">>, <<"hello", "list">>, <<"prompt">>,
                            <<"unknown", "other", "attach">>, <<"list", "garbage", "prompt">>,
                            <<"list", "long">>}}
    \cup {Short(<<"list", "list">>, n) : n \in {1, 3}}
=============================================================================
