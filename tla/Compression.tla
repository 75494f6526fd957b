---------------------------- MODULE Compression ----------------------------
(***************************************************************************)
(* session.TokenCompressor (src/session/compress.go): which messages of a   *)
(* record survive a compaction, and the summary that stands for the others. *)
(* A message is a record with at least a field "chars", the length of       *)
(* everything messageTokens counts (role, tool call id, texts, arguments).  *)
(***************************************************************************)
EXTENDS Integers, Sequences

\* The modules that instantiate this one assume ReserveOutput \in Nat and that
\* SummaryPrefix has at most one message.
CONSTANTS ReserveOutput,        \* tokens kept free for the model's answer
          SummaryPrefix         \* <<the summary message>>, or <<>> when unset

MessageTokens(m) == (m.chars + 3) \div 4

\* Mutant: the reserve for the answer is forgotten.
WholeWindow(window) == window

\* The tokens left for the transcript in a context window.
Limit(window) == window - ReserveOutput

\* Mutant: the newest message is given up too when it does not fit.
KeptOrNothing(messages, limit) ==
  LET n == Len(messages)
      scan[k \in 0 .. n] ==
        IF k = 0 THEN [used |-> 0, kept |-> 0, open |-> TRUE]
        ELSE LET prev == scan[k - 1]
                 used == prev.used + MessageTokens(messages[n - k + 1])
             IN  IF prev.open /\ used <= limit
                 THEN [used |-> used, kept |-> prev.kept + 1, open |-> TRUE]
                 ELSE [prev EXCEPT !.open = FALSE]
  IN  scan[n].kept

\* Mutant: the scan skips a message that does not fit and goes on.
KeptWithGaps(messages, limit) ==
  LET n == Len(messages)
      scan[k \in 0 .. n] ==
        IF k = 0 THEN [used |-> 0, kept |-> 0]
        ELSE LET prev == scan[k - 1]
                 used == prev.used + MessageTokens(messages[n - k + 1])
             IN  IF used > limit /\ prev.kept > 0
                 THEN prev
                 ELSE [used |-> used, kept |-> prev.kept + 1]
  IN  scan[n].kept

\* How many of the newest messages the scan keeps: it walks from the newest
\* to the oldest and stops before the first message that would exceed the
\* limit, unless nothing has been kept yet.
Kept(messages, limit) ==
  LET n == Len(messages)
      scan[k \in 0 .. n] ==
        IF k = 0 THEN [used |-> 0, kept |-> 0, open |-> TRUE]
        ELSE LET prev == scan[k - 1]
                 used == prev.used + MessageTokens(messages[n - k + 1])
             IN  IF prev.open /\ (used <= limit \/ prev.kept = 0)
                 THEN [used |-> used, kept |-> prev.kept + 1, open |-> TRUE]
                 ELSE [prev EXCEPT !.open = FALSE]
  IN  scan[n].kept

Newest(messages, k) == SubSeq(messages, Len(messages) - k + 1, Len(messages))

\* Mutant: the summary is put in front of every transcript.
SummaryAlways(messages, window) ==
  LET k == Kept(messages, Limit(window))
  IN  IF Limit(window) <= 0 THEN messages
      ELSE SummaryPrefix \o Newest(messages, k)

\* Mutant: the kept messages are left in the order of the scan.
Unreversed(messages, window) ==
  LET k == Kept(messages, Limit(window))
      newest == Newest(messages, k)
  IN  IF Limit(window) <= 0 THEN messages
      ELSE [i \in 1 .. k |-> newest[k - i + 1]]

\* A window that does not exceed the reserve turns compaction off.
Compress(messages, window) ==
  LET k == Kept(messages, Limit(window))
  IN  IF Limit(window) <= 0 \/ k = Len(messages) THEN messages
      ELSE SummaryPrefix \o Newest(messages, k)

-----------------------------------------------------------------------------
(* What the scan is meant to compute, said without a scan.                  *)

Tokens(messages) ==
  LET sum[k \in 0 .. Len(messages)] ==
        IF k = 0 THEN 0 ELSE sum[k - 1] + MessageTokens(messages[k])
  IN  sum[Len(messages)]

\* The longest run of newest messages within the limit, and never fewer than
\* the newest message itself.
LongestThatFits(messages, limit) ==
  LET fits == {k \in 0 .. Len(messages) : k <= 1 \/ Tokens(Newest(messages, k)) <= limit}
  IN  CHOOSE k \in fits : \A j \in fits : j <= k
=============================================================================
