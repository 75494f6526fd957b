--------------------------- MODULE MCSessionCache ---------------------------
(* Small instances of SessionCache for TLC.                                 *)
EXTENDS SessionCache, TLC

CONSTANTS c1, h1, t1, t2, m1, a1, l1

MCKind == [r \in Request |-> CASE r = c1 -> "create"
                               [] r = h1 -> "http_create"
                               [] r \in {t1, t2} -> "set_thinking"
                               [] r = m1 -> "set_model"
                               [] r = a1 -> "attach"
                               [] r = l1 -> "list"]

\* Writes to what a create has stored, and a list next to two creations.
MCWorkloads == {{c1, t1, t2, m1}, {c1, h1, m1, l1}}

\* No action tells sessions apart, or two requests of one kind.
Interchangeable == Permutations(Session) \cup Permutations({t1, t2})
=============================================================================
