----------------------------- MODULE Transcript -----------------------------
(***************************************************************************)
(* What a session promises about its transcript, whatever stores it: the    *)
(* transcript grows at its end, and from time to time its oldest messages   *)
(* are forgotten and a summary takes their place.                           *)
(***************************************************************************)
EXTENDS Naturals, Sequences

CONSTANTS Message,      \* the messages a client or an agent can write
          SummaryPrefix \* <<the summary>>, or <<>>

VARIABLES log,          \* the transcript as it is stored
          history       \* everything that was ever written, in order

transcriptVars == <<log, history>>

Init == log = <<>> /\ history = <<>>

Write(m) == /\ log' = Append(log, m)
            /\ history' = Append(history, m)

\* All but the newest k messages are forgotten.
Forget(k) == /\ log' = SummaryPrefix \o SubSeq(log, Len(log) - k + 1, Len(log))
             /\ UNCHANGED history

Next == \/ \E m \in Message : Write(m)
        \/ \E k \in 1 .. Len(log) - 1 : Forget(k)

Spec == Init /\ [][Next]_transcriptVars
=============================================================================
