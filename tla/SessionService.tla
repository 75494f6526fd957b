--------------------------- MODULE SessionService ---------------------------
(***************************************************************************)
(* session.Service (src/session/session.go): AppendMessages stores a batch  *)
(* one message at a time and then compacts the record.  One caller at a     *)
(* time; what several do to each other is the subject of SessionStore.      *)
(*                                                                          *)
(* The model of a session, and with it the context window, may be changed   *)
(* between any two of the calls AppendMessages makes to the store           *)
(* (set_model), also between the two of a compaction.  Every call may report *)
(* an error, and may then have taken effect or not; what a change inside of *)
(* a call does is the subject of SessionStore too.                          *)
(***************************************************************************)
EXTENDS Integers, Sequences, SequencesExt

CONSTANTS Role,         \* the roles of written messages
          Chars,        \* the lengths of written messages
          Windows,      \* the context windows of the models; 0 when unknown
          Batches,      \* the sequences of roles a caller writes at once
          MaxHistory,   \* bound on the messages ever written
          ReserveOutput,
          SummaryPrefix

\* A written message; its id is its place in the history.
Message == [id : 1 .. MaxHistory, role : Role, chars : Chars]

ASSUME ServiceAssumption == /\ Chars \subseteq Nat
                            /\ Windows \subseteq Nat
                            /\ Batches \subseteq Seq(Role)
                            /\ MaxHistory \in Nat
                            /\ ReserveOutput \in Nat

\* The summary is one message, of the service, or there is none.
ASSUME SummaryAssumption == \/ SummaryPrefix = <<>>
                            \/ /\ SummaryPrefix = <<SummaryPrefix[1]>>
                               /\ SummaryPrefix[1].chars \in Nat
                               /\ SummaryPrefix[1] \notin Message

C == INSTANCE Compression

VARIABLES log,          \* Record.Messages
          history,      \* everything written, in order (history variable)
          window,       \* Record.Model.ContextWindow
          todo,         \* the roles of the batch that are still to be stored
          pc,           \* "idle", or inside AppendMessages: "append", "compact"
          read,         \* compact: what it needs of the record it has read
          reply,        \* what the last AppendMessages returned
          recent        \* the windows since the batch was stored (history variable)

vars == <<log, history, window, todo, pc, read, reply, recent>>

\* Before a record has been read, and when the one that was is forgotten.
Nothing == [messages |-> <<>>, window |-> 0]

Init == /\ log = <<>>
        /\ history = <<>>
        /\ window \in Windows
        /\ todo = <<>>
        /\ pc = "idle"
        /\ read = Nothing
        /\ reply = "none"
        /\ recent = {}

AppendMessages(batch) ==
  /\ pc = "idle"
  /\ Len(history) + Len(batch) <= MaxHistory
  /\ todo' = batch
  /\ pc' = "append"
  /\ reply' = "none"
  /\ recent' = {window}
  /\ UNCHANGED <<log, history, window, read>>

Return(answer) == /\ todo' = <<>>
                  /\ pc' = "idle"
                  /\ read' = Nothing
                  /\ reply' = answer

\* An error of Append ends the batch, whether the message is stored or not.
StoreAppend ==
  /\ pc = "append"
  /\ todo # <<>>
  /\ \E n \in Chars :
       LET m == [id |-> Len(history) + 1, role |-> Head(todo), chars |-> n]
       IN  /\ log' = Append(log, m)
           /\ history' = Append(history, m)
  /\ \/ todo' = Tail(todo) /\ UNCHANGED <<pc, read, reply>>
     \/ Return("error")
  /\ recent' = {window}
  /\ UNCHANGED window

\* compact: Get.
CompactGet ==
  /\ pc = "append"
  /\ todo = <<>>
  /\ read' = [messages |-> log, window |-> window]
  /\ pc' = "compact"
  /\ UNCHANGED <<log, history, window, todo, reply, recent>>

\* compact: Compress of what was read, and ReplaceMessages.
CompactPut ==
  /\ pc = "compact"
  /\ log' = C!Compress(read.messages, read.window)
  /\ \E answer \in {"ok", "error"} : Return(answer)
  /\ UNCHANGED <<history, window, recent>>

\* Append, Get, Compress or ReplaceMessages fails without an effect: the rest
\* of the batch is given up, and the transcript is not compacted.
CallFails ==
  /\ pc # "idle"
  /\ Return("error")
  /\ UNCHANGED <<log, history, window, recent>>

SetModel(w) ==
  /\ window # w
  /\ window' = w
  /\ recent' = IF pc = "idle" THEN recent ELSE recent \cup {w}
  /\ UNCHANGED <<log, history, todo, pc, read, reply>>

Next == \/ \E batch \in Batches : AppendMessages(batch)
        \/ StoreAppend
        \/ CompactGet
        \/ CompactPut
        \/ CallFails
        \/ \E w \in Windows : SetModel(w)

Spec == Init /\ [][Next]_vars

-----------------------------------------------------------------------------
(* Properties.                                                              *)

\* The loop of Compress computes the longest newest part that fits.
ScanIsLongest == C!Kept(log, C!Limit(window)) = C!LongestThatFits(log, C!Limit(window))

\* Compacting what is compacted changes nothing: the summary the first pass
\* adds, which the limit does not account for, never pushes out a message in
\* the next one.
CompactIdempotent ==
  LET once == C!Compress(log, window) IN C!Compress(once, window) = once

\* The messages of a transcript, its summary aside.
Written(messages) == IF messages # <<>> /\ Head(messages) \notin Message
                     THEN Tail(messages) ELSE messages

\* A transcript leaves the reserve of window w free, or is the newest message
\* alone, or the window is too small for any compaction.
Fits(messages, w) == \/ w <= ReserveOutput
                     \/ Len(Written(messages)) <= 1
                     \/ C!Tokens(Written(messages)) <= w - ReserveOutput

\* When AppendMessages reports success, the transcript fits a window that was
\* in force after the last message of the batch: the present one if no
\* set_model fell into the call since then.  (One that falls between the Get
\* of the compaction and its ReplaceMessages is heeded by the next batch.)
CompactedFits == pc = "idle" /\ reply = "ok" => \E w \in recent : Fits(log, w)

\* The comment on TokenCompressor: the newest turn (the last user message
\* and all that follows it) is never dropped.
NewestTurnKept ==
  \A i \in 1 .. Len(history) :
    history[i].role = "user" /\ (\A j \in i + 1 .. Len(history) : history[j].role # "user")
      => \A j \in i .. Len(history) : Contains(log, history[j])

\* A service with one caller is a transcript: what is stored is what was
\* written last, in order and without a gap, and when anything is missing one
\* summary stands in front of the rest, also after several compactions that
\* each cut off the summary of the one before.
T == INSTANCE Transcript

TranscriptSpec == T!Spec
=============================================================================
