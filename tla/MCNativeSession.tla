-------------------------- MODULE MCNativeSession --------------------------
(* Small instances of NativeSession for TLC: prompts, an append over HTTP   *)
(* and a change of a setting, all windows equal.                            *)
EXTENDS NativeSession

CONSTANTS p1, p2, a1, t1

MCKind == [c \in Call |-> CASE c = t1 -> "thinking"
                            [] c = a1 -> "append"
                            [] OTHER -> "run"]

\* Two prompts and a setting, or a prompt, a setting and an append over HTTP.
MCWorkloads == {{p1, p2, t1}, {p1, a1, t1}}

\* A prompt and an append over HTTP, and nothing else.
MCOverHttp == {{p1, a1}}

MCSummary == <<[by |-> NoCall, n |-> 0, chars |-> 4]>>
=============================================================================
