---------------------------- MODULE SessionStore ----------------------------
(***************************************************************************)
(* A session's row in the SQL store and the calls that read and write it,   *)
(* one SQL statement at a time (src/session/sqlite.go and postgres.go,      *)
(* which agree statement by statement; session.go; runner.go).              *)
(*                                                                          *)
(* SQLiteStore.Append and ReplaceMessages are a SELECT of the whole row and *)
(* an UPDATE of the whole row, without a transaction; UpdateModel and       *)
(* UpdateThinking are single UPDATEs of one column.  Calls:                 *)
(*   append    POST /v1/sessions/{id}/messages: Service.Append              *)
(*   run       Runner.RunWithEvents: append the user message, read the      *)
(*             record, run the agent, append its trace                      *)
(*   model     UpdateModel                                                  *)
(*   thinking  UpdateThinking                                               *)
(* Rows are independent (WHERE id = ?), so one session is modelled.  Every  *)
(* statement may fail, with or without having taken effect (a busy          *)
(* database, a cancelled context).                                          *)
(***************************************************************************)
EXTENDS Integers, Sequences, SequencesExt

CONSTANTS Call,         \* the calls
          NoCall,       \* stands for the creator of the session
          Kind,         \* [Call -> {"append", "run", "model", "thinking"}]
          TraceLen,     \* lengths of the traces an agent run returns
          Chars,        \* length of every message
          Window,       \* context window of every model; 0 when unknown
          ReserveOutput,
          SummaryPrefix

ASSUME StoreAssumption == /\ NoCall \notin Call
                          /\ Kind \in [Call -> {"append", "run", "model", "thinking"}]
                          /\ TraceLen \subseteq Nat \ {0}
                          /\ \E n \in TraceLen : \A k \in TraceLen : k <= n
                          /\ Chars \in Nat
                          /\ Window \in Nat
                          /\ ReserveOutput \in Nat

\* The summary is one message, of no call, or there is none.
ASSUME SummaryAssumption == \/ SummaryPrefix = <<>>
                            \/ /\ SummaryPrefix = <<SummaryPrefix[1]>>
                               /\ SummaryPrefix[1].chars \in Nat
                               /\ SummaryPrefix[1].by = NoCall

C == INSTANCE Compression

\* The n-th message a call writes.  That of an append and the first of a run
\* is the user's, the others are the trace of the agent.
Msg(c, n) == [by |-> c, n |-> n, chars |-> Chars]

MaxTrace == CHOOSE n \in TraceLen : \A k \in TraceLen : k <= n

Message == {Msg(c, n) : c \in Call, n \in 1 .. 1 + MaxTrace}

VARIABLES row,          \* the row: messages, and who wrote model and thinking
          written,      \* the messages written, in order (history variable)
          pc,           \* the next statement of each call
          todo,         \* the messages of AppendMessages still to be stored
          copy,         \* the Record read last
          kept,         \* what Compress returned
          batch,        \* of a run: is its "user" or its "trace" batch stored
          seen,         \* the messages the agent was started with
          made,         \* how many messages the agent returned (history variable)
          reply         \* what the caller was told

vars == <<row, written, pc, todo, copy, kept, batch, seen, made, reply>>

EmptyRow == [messages |-> <<>>, model |-> NoCall, thinking |-> NoCall]

Init == /\ row = EmptyRow
        /\ written = <<>>
        /\ pc = [c \in Call |-> "idle"]
        /\ todo = [c \in Call |-> <<>>]
        /\ copy = [c \in Call |-> EmptyRow]
        /\ kept = [c \in Call |-> <<>>]
        /\ batch = [c \in Call |-> "user"]
        /\ seen = [c \in Call |-> <<>>]
        /\ made = [c \in Call |-> 0]
        /\ reply = [c \in Call |-> "none"]

\* A call enters AppendMessages with a batch, or goes to its one UPDATE.
Begin(c) ==
  /\ pc[c] = "idle"
  /\ IF Kind[c] \in {"append", "run"}
     THEN /\ pc' = [pc EXCEPT ![c] = "appendGet"]
          /\ todo' = [todo EXCEPT ![c] = <<Msg(c, 1)>>]
     ELSE /\ pc' = [pc EXCEPT ![c] = "update"]
          /\ UNCHANGED todo
  /\ UNCHANGED <<row, written, copy, kept, batch, seen, made, reply>>

-----------------------------------------------------------------------------
(* Store.Append: SELECT, then UPDATE of the row with the message added.     *)

\* The statement of a call that reads the row, with the pc that follows it.
Select(c, at, next) ==
  /\ pc[c] = at
  /\ copy' = [copy EXCEPT ![c] = row]
  /\ pc' = [pc EXCEPT ![c] = next]
  /\ UNCHANGED <<row, written, todo, reply>>

AppendGet(c) == Select(c, "appendGet", "appendPut") /\ UNCHANGED <<kept, batch, seen, made>>

\* What the UPDATE of Append writes.
Appended(c) == [copy[c] EXCEPT !.messages = Append(@, Head(todo[c]))]

AppendPut(c) ==
  /\ pc[c] = "appendPut"
  /\ row' = Appended(c)
  /\ written' = Append(written, Head(todo[c]))
  /\ todo' = [todo EXCEPT ![c] = Tail(@)]
  /\ pc' = [pc EXCEPT ![c] = IF Len(todo[c]) = 1 THEN "compactGet" ELSE "appendGet"]
  /\ UNCHANGED <<copy, kept, batch, seen, made, reply>>

-----------------------------------------------------------------------------
(* Service.compact: Get, Compress, ReplaceMessages (SELECT and UPDATE).     *)

CompactGet(c) ==
  /\ Select(c, "compactGet", "replaceGet")
  /\ kept' = [kept EXCEPT ![c] = C!Compress(row.messages, Window)]
  /\ UNCHANGED <<batch, seen, made>>

ReplaceGet(c) == Select(c, "replaceGet", "replacePut") /\ UNCHANGED <<kept, batch, seen, made>>

\* What the UPDATE of ReplaceMessages writes.
Replaced(c) == [copy[c] EXCEPT !.messages = kept[c]]

Answer(c, r) == /\ reply' = [reply EXCEPT ![c] = r]
                /\ pc' = [pc EXCEPT ![c] = "done"]

\* A run goes on to load the record after its first batch, the user's
\* message; its second batch, the trace, ends it.
BatchStored(c) == IF Kind[c] = "run" /\ batch[c] = "user"
                  THEN pc' = [pc EXCEPT ![c] = "load"] /\ UNCHANGED reply
                  ELSE Answer(c, "ok")

ReplacePut(c) ==
  /\ pc[c] = "replacePut"
  /\ row' = Replaced(c)
  /\ BatchStored(c)
  /\ UNCHANGED <<written, todo, copy, kept, batch, seen, made>>

-----------------------------------------------------------------------------
(* Runner: load the record the agent is started with, run it.               *)

Load(c) == /\ Select(c, "load", "agent")
           /\ seen' = [seen EXCEPT ![c] = row.messages]
           /\ UNCHANGED <<kept, batch, made>>

\* The agent succeeds: its trace is appended in a second batch.
AgentDone(c) ==
  /\ pc[c] = "agent"
  /\ \E n \in TraceLen :
       /\ todo' = [todo EXCEPT ![c] = [i \in 1 .. n |-> Msg(c, 1 + i)]]
       /\ made' = [made EXCEPT ![c] = n]
  /\ batch' = [batch EXCEPT ![c] = "trace"]
  /\ pc' = [pc EXCEPT ![c] = "appendGet"]
  /\ UNCHANGED <<row, written, copy, kept, seen, reply>>

\* The agent fails: the error is returned and no trace is stored.
AgentFails(c) ==
  /\ pc[c] = "agent"
  /\ Answer(c, "error")
  /\ UNCHANGED <<row, written, todo, copy, kept, batch, seen, made>>

-----------------------------------------------------------------------------
(* UpdateModel and UpdateThinking: one UPDATE of one column.                *)

Updated(c) == IF Kind[c] = "model" THEN [row EXCEPT !.model = c]
                                   ELSE [row EXCEPT !.thinking = c]

Update(c) == /\ pc[c] = "update"
             /\ row' = Updated(c)
             /\ Answer(c, "ok")
             /\ UNCHANGED <<written, todo, copy, kept, batch, seen, made>>

-----------------------------------------------------------------------------
(* Failures: the call returns the error of the statement at once.           *)

Statement == {"appendGet", "appendPut", "compactGet", "replaceGet", "replacePut",
              "load", "update"}

\* Mutant: an error of Append ends the loop over the batch, not the call.
AppendBreaks(c) ==
  /\ pc[c] \in Statement
  /\ IF pc[c] \in {"appendGet", "appendPut"}
     THEN pc' = [pc EXCEPT ![c] = "compactGet"] /\ UNCHANGED reply
     ELSE Answer(c, "error")
  /\ UNCHANGED <<row, written, todo, copy, kept, batch, seen, made>>

\* The statement has no effect.
StatementFails(c) == /\ pc[c] \in Statement
                     /\ Answer(c, "error")
                     /\ UNCHANGED <<row, written, todo, copy, kept, batch, seen, made>>

\* Mutant: an UPDATE that reports an error is tried again.
UpdateRetried(c) ==
  /\ pc[c] = "appendPut"
  /\ row' = Appended(c)
  /\ written' = Append(written, Head(todo[c]))
  /\ pc' = [pc EXCEPT ![c] = "appendGet"]
  /\ UNCHANGED <<todo, copy, kept, batch, seen, made, reply>>

\* The UPDATE took effect and reports an error all the same: the context was
\* cancelled while it ran.
UpdateLost(c) ==
  /\ \/ /\ pc[c] = "appendPut"
        /\ row' = Appended(c)
        /\ written' = Append(written, Head(todo[c]))
     \/ /\ pc[c] = "replacePut"
        /\ row' = Replaced(c)
        /\ UNCHANGED written
     \/ /\ pc[c] = "update"
        /\ row' = Updated(c)
        /\ UNCHANGED written
  /\ Answer(c, "error")
  /\ UNCHANGED <<todo, copy, kept, batch, seen, made>>

Step(c) == \/ AppendGet(c)
           \/ AppendPut(c)
           \/ CompactGet(c)
           \/ ReplaceGet(c)
           \/ ReplacePut(c)
           \/ Load(c)
           \/ AgentDone(c)
           \/ AgentFails(c)
           \/ Update(c)
           \/ StatementFails(c)
           \/ UpdateLost(c)

-----------------------------------------------------------------------------
(* Properties.                                                              *)

\* Whatever the calls do to each other, and where they fail or die, the row
\* never holds a message twice, never holds the messages of one call out of
\* order, and holds at most one summary, which comes first, even when a
\* compaction is written back over the appends of another call or the other
\* way round.
RowOrdered ==
  /\ \A i, j \in 1 .. Len(row.messages) :
       i < j /\ row.messages[i].by = row.messages[j].by
         => row.messages[i].n < row.messages[j].n
  /\ \A i \in 1 .. Len(row.messages) : row.messages[i] \in Range(SummaryPrefix) => i = 1

\* An acknowledged message is in the row (with compaction off, when nothing
\* may be forgotten): README.md says the call writes the message.
AckedMessageStored ==
  \A c \in Call : Kind[c] = "append" /\ reply[c] = "ok" => Contains(row.messages, Msg(c, 1))
=============================================================================
