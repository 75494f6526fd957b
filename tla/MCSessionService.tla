-------------------------- MODULE MCSessionService --------------------------
(* Small instances of SessionService for TLC.  Message lengths give one and *)
(* three tokens, the summary two; the windows leave no, four and one token. *)
EXTENDS SessionService

MCRole == {"user", "assistant", "tool"}
MCChars == {4, 9}
MCWindows == {0, 3, 6}
MCBatches == {<<"user">>, <<"assistant">>, <<"assistant", "tool", "assistant">>}
MCSummary == <<[id |-> 0, role |-> "system", chars |-> 8]>>
=============================================================================
