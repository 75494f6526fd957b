------------------------ MODULE NativeSessionProofs ------------------------
(***************************************************************************)
(* A session of the native protocol on the SQL store, for any number of     *)
(* calls and any lengths of traces, windows and summaries.                  *)
(*                                                                          *)
(* NativeInv, the inductive invariant, has three layers:                    *)
(*   CallsOK        what each call has written and has still to write       *)
(*   OrderInv       no transcript in the row, in a copy of it or in what    *)
(*                  Compress returned is out of order, and none is ahead of *)
(*                  what its calls write next; this holds for any callers,  *)
(*                  whatever they overwrite                                 *)
(*   LockHeld and SoleWriterInv  while the session is used through the      *)
(*                  protocol alone, the prompt that has the lock is the     *)
(*                  only one that writes, so that what it has read is       *)
(*                  still what the row holds                                *)
(***************************************************************************)
EXTENDS NativeSession, SequenceTheorems, TLAPS

CP == INSTANCE CompressionProofs

\* What a record may hold: the messages of the calls, and the summary.
Entry == Message \cup {SummaryPrefix[i] : i \in 1 .. Len(SummaryPrefix)}

Row == [messages : Seq(Entry), model : Call \cup {NoCall}, thinking : Call \cup {NoCall}]

Stage == {"idle", "appendGet", "appendPut", "compactGet", "replaceGet", "replacePut",
          "load", "agent", "update", "done"}

TypeOK == /\ row \in Row
          /\ written \in Seq(Message)
          /\ pc \in [Call -> Stage]
          /\ todo \in [Call -> Seq(Message)]
          /\ copy \in [Call -> Row]
          /\ kept \in [Call -> Seq(Entry)]
          /\ batch \in [Call -> {"user", "trace"}]
          /\ seen \in [Call -> Seq(Entry)]
          /\ made \in [Call -> Nat]
          /\ reply \in [Call -> {"none", "ok", "error"}]
          /\ holder \in [{TheSession} -> Prompt \cup {NoCall}]
          /\ workload \subseteq Call

-----------------------------------------------------------------------------
(* What a call has written, and what it has still to write.                 *)

Appending == {"appendGet", "appendPut"}
Compacting == {"compactGet", "replaceGet", "replacePut"}

\* The first k messages of c are written.
Wrote(c, k) == \A i \in 1 .. k : Contains(written, Msg(c, i))

\* When the batch of c is stored, n messages of c are written.
BatchEnd(c, n) == IF batch[c] = "user" THEN n = 1
                                       ELSE n = 1 + made[c] /\ made[c] \in TraceLen

\* k of n messages are written, the others are to be stored next.
Rest(c, k, n) == /\ Wrote(c, k)
                 /\ Len(todo[c]) = n - k
                 /\ \A j \in 1 .. n - k : todo[c][j] = Msg(c, k + j)

CallOK(c) ==
  /\ pc[c] = "idle" => batch[c] = "user"
  /\ pc[c] = "update" => Kind[c] \in {"model", "thinking"}
  /\ pc[c] \in Appending \cup Compacting => Kind[c] \in {"append", "run"}
  /\ pc[c] \in Appending =>
       \E n \in Nat : \E k \in 0 .. n - 1 :
         BatchEnd(c, n) /\ Rest(c, k, n) /\ (batch[c] = "trace" => k >= 1)
  /\ pc[c] \in Compacting => \E n \in Nat : BatchEnd(c, n) /\ Wrote(c, n)
  /\ pc[c] \in {"load", "agent"} => Kind[c] = "run" /\ batch[c] = "user" /\ Wrote(c, 1)
  /\ batch[c] = "trace" => Kind[c] = "run"
  /\ pc[c] # "done" => reply[c] = "none"
  /\ reply[c] = "ok" /\ Kind[c] = "run" => made[c] \in TraceLen /\ Wrote(c, 1 + made[c])

CallsOK == TypeOK /\ \A c \in Call : CallOK(c)

-----------------------------------------------------------------------------
\* Compress is that of CompressionProofs, and its theorems apply.
LEMMA SameOperators ==
  /\ \A m, w : C!Compress(m, w) = CP!Compress(m, w)
  /\ \A w : C!Limit(w) = CP!Limit(w) /\ CP!Limit(w) = w - ReserveOutput
BY DEF C!Compress, CP!Compress, C!Kept, CP!Kept, C!Limit, CP!Limit, C!Newest, CP!Newest,
       C!MessageTokens, CP!MessageTokens

\* One element is a sequence.
LEMMA OneInSeq == ASSUME NEW S, NEW x \in S PROVE <<x>> \in Seq(S)
OBVIOUS

\* The messages of the calls, and whose they are.
LEMMA Messages ==
  /\ \A c \in Call, k \in TraceLen : \A n \in 1 .. 1 + k : Msg(c, n) \in Message
  /\ \A c \in Call : Msg(c, 1) \in Message
  /\ \A m \in Message : m.by \in Call /\ m.n \in Nat /\ m.n > 0 /\ m = Msg(m.by, m.n)
<1>1. PICK max \in TraceLen : \A k \in TraceLen : k <= max
  BY StoreAssumption
<1>2. MaxTrace \in TraceLen /\ \A k \in TraceLen : k <= MaxTrace
  BY <1>1 DEF MaxTrace
<1>3. MaxTrace \in Nat /\ MaxTrace > 0 /\ TraceLen \subseteq Nat
  BY <1>2, StoreAssumption
<1>4. ASSUME NEW c \in Call, NEW k \in TraceLen, NEW n \in 1 .. 1 + k PROVE Msg(c, n) \in Message
  <2>1. n \in 1 .. 1 + MaxTrace
    BY <1>2, <1>3
  <2>. QED  BY <2>1 DEF Message
<1>5. ASSUME NEW c \in Call PROVE Msg(c, 1) \in Message
  <2>1. 1 \in 1 .. 1 + MaxTrace
    BY <1>3
  <2>. QED  BY <2>1 DEF Message
<1>6. ASSUME NEW m \in Message PROVE m.by \in Call /\ m.n \in Nat /\ m.n > 0 /\ m = Msg(m.by, m.n)
  <2>1. PICK c \in Call, n \in 1 .. 1 + MaxTrace : m = Msg(c, n)
    BY DEF Message
  <2>2. n \in Nat /\ n > 0
    BY <1>3
  <2>. QED  BY <2>1, <2>2 DEF Msg
<1>. QED  BY <1>4, <1>5, <1>6

\* The summary may stand in a transcript, and is of no call.
LEMMA Entries ==
  /\ CP!Sized(Entry)
  /\ SummaryPrefix \in Seq(Entry)
  /\ Len(SummaryPrefix) \in {0, 1}
  /\ \A i \in 1 .. Len(SummaryPrefix) : SummaryPrefix[i].by = NoCall
<1>1. \A m \in Message : m.chars \in Nat
  BY StoreAssumption DEF Message, Msg
<1>2. CASE SummaryPrefix = <<>>
  BY <1>1, <1>2 DEF CP!Sized, Entry
<1>3. CASE SummaryPrefix # <<>>
  <2>. DEFINE m == SummaryPrefix[1]
  <2>1. m.chars \in Nat /\ m.by = NoCall /\ SummaryPrefix = <<m>>
    BY <1>3, SummaryAssumption
  <2>. HIDE DEF m
  <2>2. Len(SummaryPrefix) = 1 /\ SummaryPrefix[1] = m
    BY <2>1
  <2>3. Entry = Message \cup {m}
    BY <2>2 DEF Entry
  <2>4. SummaryPrefix \in Seq(Entry)
    BY <2>1, <2>3
  <2>. QED  BY <1>1, <2>1, <2>2, <2>3, <2>4 DEF CP!Sized
<1>. QED  BY <1>2, <1>3

\* A compaction cuts a transcript, or leaves it.
LEMMA Compressed ==
  ASSUME NEW s \in Seq(Entry)
  PROVE  /\ C!Compress(s, Window) \in Seq(Entry)
         /\ \/ C!Compress(s, Window) = s
            \/ \E k \in 1 .. Len(s) - 1 :
                 C!Compress(s, Window) = SummaryPrefix \o SubSeq(s, Len(s) - k + 1, Len(s))
<1>1. Window \in Int /\ ReserveOutput \in Int
  BY StoreAssumption
<1>2. /\ CP!Compress(s, Window) \in Seq(Entry)
      /\ \/ CP!Compress(s, Window) = s
         \/ \E k \in 1 .. Len(s) - 1 :
              CP!Compress(s, Window) = SummaryPrefix \o CP!Newest(s, k)
  BY <1>1, CP!CompressCuts, Entries
<1>. QED  BY <1>2, SameOperators DEF CP!Newest

-----------------------------------------------------------------------------
(* What a step does to a call.                                              *)

\* A call is as it was when its own state is and nothing is unwritten.
LEMMA CallKept ==
  ASSUME NEW c \in Call, CallOK(c),
         pc'[c] = pc[c], todo'[c] = todo[c], batch'[c] = batch[c], reply'[c] = reply[c],
         made'[c] = made[c],
         \A m : Contains(written, m) => Contains(written', m)
  PROVE  CallOK(c)'
BY DEF CallOK, BatchEnd, Rest, Wrote

\* A call that was started and is done, and was not answered anew, is as it was.
LEMMA CallEnds ==
  ASSUME NEW c \in Call, CallOK(c),
         pc'[c] = "done", batch'[c] = batch[c], made'[c] = made[c], reply'[c] \in {reply[c], "error"},
         \A m : Contains(written, m) => Contains(written', m)
  PROVE  CallOK(c)'
BY DEF CallOK, BatchEnd, Rest, Wrote, Appending, Compacting

\* One more message in a sequence of messages.
LEMMA WrittenMore ==
  ASSUME NEW s \in Seq(Message), NEW m \in Message
  PROVE  /\ Append(s, m) \in Seq(Message)
         /\ \A x : Contains(Append(s, m), x) <=> Contains(s, x) \/ x = m
<1>1. /\ Append(s, m) \in Seq(Message) /\ Len(Append(s, m)) = Len(s) + 1
      /\ \A i \in 1 .. Len(s) : Append(s, m)[i] = s[i]
      /\ Append(s, m)[Len(s) + 1] = m /\ Len(s) \in Nat
  OBVIOUS
<1>2. 1 .. Len(s) + 1 = (1 .. Len(s)) \cup {Len(s) + 1}
  BY <1>1
<1>. QED  BY <1>1, <1>2 DEF Contains

\* The message an append is about.
LEMMA NextMessage ==
  ASSUME TypeOK, NEW c \in Call, CallOK(c), pc[c] \in Appending
  PROVE  \E n \in Nat : \E k \in 0 .. n - 1 :
           /\ BatchEnd(c, n) /\ Rest(c, k, n)
           /\ batch[c] = "trace" => k >= 1
           /\ Len(todo[c]) = n - k
           /\ todo[c] # <<>>
           /\ Head(todo[c]) = Msg(c, k + 1)
           /\ Msg(c, k + 1) \in Message
           /\ Tail(todo[c]) \in Seq(Message)
           /\ Len(Tail(todo[c])) = n - k - 1
           /\ \A j \in 1 .. n - k - 1 : Tail(todo[c])[j] = Msg(c, k + 1 + j)
<1>1. PICK n \in Nat : \E k \in 0 .. n - 1 :
         BatchEnd(c, n) /\ Rest(c, k, n) /\ (batch[c] = "trace" => k >= 1)
  BY DEF CallOK
<1>2. PICK k \in 0 .. n - 1 : BatchEnd(c, n) /\ Rest(c, k, n) /\ (batch[c] = "trace" => k >= 1)
  BY <1>1
<1>. DEFINE t == todo[c]
<1>3. t \in Seq(Message) /\ Len(t) = n - k /\ \A j \in 1 .. n - k : t[j] = Msg(c, k + j)
  BY <1>2 DEF TypeOK, Rest
<1>. HIDE DEF t
<1>4. t # <<>> /\ Len(t) > 0
  BY <1>3
<1>5. /\ Head(t) = t[1] /\ Tail(t) \in Seq(Message) /\ Len(Tail(t)) = n - k - 1
      /\ \A j \in 1 .. n - k - 1 : Tail(t)[j] = t[j + 1]
  BY <1>3, <1>4, HeadTailProperties
<1>6. t[1] = Msg(c, k + 1) /\ t[1] \in Message
  BY <1>3, <1>4
<1>7. ASSUME NEW j \in 1 .. n - k - 1 PROVE Tail(t)[j] = Msg(c, k + 1 + j)
  <2>1. j + 1 \in 1 .. n - k /\ k + (j + 1) = k + 1 + j
    OBVIOUS
  <2>. QED  BY <1>3, <1>5, <2>1
<1>. QED  BY <1>2, <1>3, <1>4, <1>5, <1>6, <1>7 DEF t

\* The row that an append, a replacement or an update leaves.
LEMMA Rows ==
  ASSUME TypeOK, NEW c \in Call
  PROVE  /\ row.messages \in Seq(Entry) /\ copy[c].messages \in Seq(Entry)
         /\ Replaced(c) \in Row /\ Replaced(c).messages = kept[c]
         /\ Updated(c) \in Row /\ Updated(c).messages = row.messages
         /\ Head(todo[c]) \in Message =>
              /\ Appended(c) \in Row
              /\ Appended(c).messages = Append(copy[c].messages, Head(todo[c]))
<1>1. row \in Row /\ copy[c] \in Row /\ kept[c] \in Seq(Entry)
  BY DEF TypeOK
<1>2. row.messages \in Seq(Entry) /\ copy[c].messages \in Seq(Entry)
  BY <1>1 DEF Row
<1>3. Replaced(c) \in Row /\ Replaced(c).messages = kept[c]
  BY <1>1 DEF Row, Replaced
<1>4. Updated(c) \in Row /\ Updated(c).messages = row.messages
  BY <1>1 DEF Row, Updated
<1>5. ASSUME Head(todo[c]) \in Message
      PROVE  /\ Appended(c) \in Row
             /\ Appended(c).messages = Append(copy[c].messages, Head(todo[c]))
  <2>1. Append(copy[c].messages, Head(todo[c])) \in Seq(Entry)
    BY <1>2, <1>5 DEF Entry
  <2>2. Appended(c) = [copy[c] EXCEPT !.messages = Append(copy[c].messages, Head(todo[c]))]
    BY DEF Appended
  <2>. QED  BY <1>1, <2>1, <2>2 DEF Row
<1>. QED  BY <1>2, <1>3, <1>4, <1>5

\* A step of one call leaves the state of the others alone.
LEMMA OthersKept ==
  ASSUME TypeOK, NEW c \in Call, Begin(c) \/ Step(c), NEW d \in Call, d # c
  PROVE  /\ pc'[d] = pc[d] /\ todo'[d] = todo[d] /\ copy'[d] = copy[d] /\ kept'[d] = kept[d]
         /\ batch'[d] = batch[d] /\ seen'[d] = seen[d] /\ made'[d] = made[d] /\ reply'[d] = reply[d]
<1>. USE DEF TypeOK
<1>1. CASE Begin(c)  BY <1>1 DEF Begin
<1>2. CASE AppendGet(c)  BY <1>2 DEF AppendGet, Select
<1>3. CASE AppendPut(c)  BY <1>3 DEF AppendPut
<1>4. CASE CompactGet(c)  BY <1>4 DEF CompactGet, Select
<1>5. CASE ReplaceGet(c)  BY <1>5 DEF ReplaceGet, Select
<1>6. CASE ReplacePut(c)  BY <1>6 DEF ReplacePut, BatchStored, Answer
<1>7. CASE Load(c)  BY <1>7 DEF Load, Select
<1>8. CASE AgentDone(c)  BY <1>8 DEF AgentDone
<1>9. CASE AgentFails(c) \/ Update(c) \/ StatementFails(c) \/ UpdateLost(c)
  BY <1>9 DEF AgentFails, Update, StatementFails, UpdateLost, Answer
<1>. QED  BY <1>1, <1>2, <1>3, <1>4, <1>5, <1>6, <1>7, <1>8, <1>9 DEF Step

\* Nothing that is written is taken back.
LEMMA WrittenStays ==
  ASSUME TypeOK, NEW c \in Call, CallOK(c), Begin(c) \/ Step(c)
  PROVE  /\ written' \in Seq(Message)
         /\ \A m : Contains(written, m) => Contains(written', m)
         /\ \/ written' = written
            \/ /\ pc[c] = "appendPut"
               /\ Head(todo[c]) \in Message
               /\ Head(todo[c]).by = c
               /\ written' = Append(written, Head(todo[c]))
               /\ row' = Appended(c)
               /\ AppendPut(c) \/ UpdateLost(c)
<1>1. pc[c] = "appendPut" => Head(todo[c]) \in Message /\ Head(todo[c]).by = c
  <2>. SUFFICES ASSUME pc[c] = "appendPut" PROVE Head(todo[c]) \in Message /\ Head(todo[c]).by = c
    OBVIOUS
  <2>1. pc[c] \in Appending
    BY DEF Appending
  <2>2. \E k : Head(todo[c]) = Msg(c, k + 1) /\ Msg(c, k + 1) \in Message
    BY <2>1, NextMessage
  <2>. QED  BY <2>2 DEF Msg
<1>2. written' = written \/ AppendPut(c) \/ UpdateLost(c)
  BY DEF Begin, Step, AppendGet, CompactGet, ReplaceGet, Load, Select, ReplacePut, AgentDone,
         AgentFails, Update, StatementFails
<1>3. AppendPut(c) => pc[c] = "appendPut" /\ written' = Append(written, Head(todo[c])) /\ row' = Appended(c)
  BY DEF AppendPut
<1>4. UpdateLost(c) => \/ written' = written
                       \/ pc[c] = "appendPut" /\ written' = Append(written, Head(todo[c])) /\ row' = Appended(c)
  BY DEF UpdateLost
<1>5. written \in Seq(Message)
  BY DEF TypeOK
<1>6. ASSUME Head(todo[c]) \in Message, written' = Append(written, Head(todo[c]))
      PROVE  written' \in Seq(Message) /\ \A m : Contains(written, m) => Contains(written', m)
  <2>. DEFINE m == Head(todo[c])
  <2>1. m \in Message /\ written' = Append(written, m)
    BY <1>6
  <2>. HIDE DEF m
  <2>2. Append(written, m) \in Seq(Message) /\ \A x : Contains(Append(written, m), x) <=> Contains(written, x) \/ x = m
    BY <1>5, <2>1, WrittenMore
  <2>. QED  BY <2>1, <2>2, Zenon
<1>. QED  BY <1>1, <1>2, <1>3, <1>4, <1>5, <1>6, Zenon

\* The types of the store after a step of a call.
LEMMA StoreTypes ==
  ASSUME TypeOK, NEW c \in Call, CallOK(c), Begin(c) \/ Step(c),
         holder' \in [{TheSession} -> Prompt \cup {NoCall}], workload' = workload
  PROVE  TypeOK'
<1>1. written' \in Seq(Message)
  BY WrittenStays
<1>2. row' \in Row
  <2>1. pc[c] = "appendPut" => Head(todo[c]) \in Message
    <3>1. pc[c] = "appendPut" => pc[c] \in Appending
      BY DEF Appending
    <3>. QED  BY <3>1, NextMessage
  <2>2. row' = row \/ (pc[c] = "appendPut" /\ row' = Appended(c)) \/ row' = Replaced(c) \/ row' = Updated(c)
    BY DEF Begin, Step, AppendGet, AppendPut, CompactGet, ReplaceGet, Load, Select, ReplacePut,
           AgentDone, AgentFails, Update, StatementFails, UpdateLost
  <2>. QED  BY <2>1, <2>2, Rows DEF TypeOK
<1>3. pc' \in [Call -> Stage] /\ reply' \in [Call -> {"none", "ok", "error"}]
  <2>. USE DEF TypeOK, Stage
  <2>1. CASE Begin(c)  BY <2>1 DEF Begin
  <2>2. CASE AppendGet(c) \/ CompactGet(c) \/ ReplaceGet(c) \/ Load(c)
    BY <2>2 DEF AppendGet, CompactGet, ReplaceGet, Load, Select
  <2>3. CASE AppendPut(c)  BY <2>3 DEF AppendPut
  <2>4. CASE ReplacePut(c)  BY <2>4 DEF ReplacePut, BatchStored, Answer
  <2>5. CASE AgentDone(c)  BY <2>5 DEF AgentDone
  <2>6. CASE AgentFails(c) \/ Update(c) \/ StatementFails(c) \/ UpdateLost(c)
    BY <2>6 DEF AgentFails, Update, StatementFails, UpdateLost, Answer
  <2>. QED  BY <2>1, <2>2, <2>3, <2>4, <2>5, <2>6 DEF Step
<1>4. copy' \in [Call -> Row] /\ seen' \in [Call -> Seq(Entry)] /\ kept' \in [Call -> Seq(Entry)]
  <2>1. C!Compress(row.messages, Window) \in Seq(Entry) /\ row.messages \in Seq(Entry)
    BY Rows, Compressed
  <2>. USE DEF TypeOK
  <2>2. CASE AppendGet(c) \/ ReplaceGet(c)
    <3>1. copy' = [copy EXCEPT ![c] = row] /\ seen' = seen /\ kept' = kept
      BY <2>2 DEF AppendGet, ReplaceGet, Select
    <3>. QED  BY <3>1
  <2>3. CASE CompactGet(c)  BY <2>1, <2>3 DEF CompactGet, Select
  <2>4. CASE Load(c)  BY <2>1, <2>4 DEF Load, Select
  <2>5. CASE UNCHANGED <<copy, seen, kept>>
    BY <2>5
  <2>. QED  BY <2>2, <2>3, <2>4, <2>5 DEF Begin, Step, AppendPut, ReplacePut, AgentDone, AgentFails,
            Update, StatementFails, UpdateLost
<1>6. made' \in [Call -> Nat]
  <2>1. made' = made \/ \E n \in TraceLen : made' = [made EXCEPT ![c] = n]
    BY DEF Begin, Step, AppendGet, AppendPut, CompactGet, ReplaceGet, Load, Select, ReplacePut, AgentDone,
           AgentFails, Update, StatementFails, UpdateLost
  <2>. QED  BY <2>1, StoreAssumption DEF TypeOK
<1>5. todo' \in [Call -> Seq(Message)] /\ batch' \in [Call -> {"user", "trace"}]
  <2>. USE DEF TypeOK
  <2>1. CASE Begin(c)
    <3>1. PICK m \in Message : m = Msg(c, 1)
      BY Messages, Zenon
    <3>2. PICK first \in Seq(Message) : first = <<m>>
      BY OneInSeq
    <3>3. batch' = batch /\ (todo' = [todo EXCEPT ![c] = first] \/ todo' = todo)
      BY <2>1, <3>1, <3>2 DEF Begin
    <3>. QED  BY <3>3
  <2>2. CASE AppendPut(c)
    <3>1. pc[c] \in Appending
      BY <2>2 DEF AppendPut, Appending
    <3>2. Tail(todo[c]) \in Seq(Message)
      BY <3>1, NextMessage
    <3>. QED  BY <2>2, <3>2 DEF AppendPut
  <2>3. CASE AgentDone(c)
    <3>1. PICK n \in TraceLen : todo' = [todo EXCEPT ![c] = [i \in 1 .. n |-> Msg(c, 1 + i)]]
      BY <2>3 DEF AgentDone
    <3>2. \A i \in 1 .. n : Msg(c, 1 + i) \in Message
      <4>1. \A i \in 1 .. n : 1 + i \in 1 .. 1 + n
        BY StoreAssumption
      <4>. QED  BY <4>1, Messages
    <3>3. [i \in 1 .. n |-> Msg(c, 1 + i)] \in Seq(Message)
      BY <3>2, StoreAssumption
    <3>. QED  BY <2>3, <3>1, <3>3 DEF AgentDone
  <2>4. CASE UNCHANGED <<todo, batch>>
    BY <2>4
  <2>. QED  BY <2>1, <2>2, <2>3, <2>4 DEF Step, AppendGet, CompactGet, ReplaceGet, Load, Select, ReplacePut,
            AgentFails, Update, StatementFails, UpdateLost
<1>. QED  BY <1>1, <1>2, <1>3, <1>4, <1>5, <1>6 DEF TypeOK

-----------------------------------------------------------------------------
(* Each step of a call keeps CallOK of that call.                           *)

LEMMA StepKeepsCall ==
  ASSUME TypeOK, NEW c \in Call, CallOK(c), Begin(c) \/ Step(c)
  PROVE  CallOK(c)'
<1>. USE DEF TypeOK
<1>0. \A m : Contains(written, m) => Contains(written', m)
  BY WrittenStays
<1>1. CASE Begin(c)
  <2>1. /\ pc[c] = "idle" /\ batch[c] = "user" /\ batch'[c] = "user" /\ reply'[c] = reply[c] /\ written' = written
        /\ made' = made
        /\ \/ pc'[c] = "appendGet" /\ Kind[c] \in {"append", "run"} /\ todo'[c] = <<Msg(c, 1)>>
           \/ pc'[c] = "update" /\ Kind[c] \notin {"append", "run"}
    BY <1>1 DEF Begin, CallOK
  <2>2. Kind[c] \in {"append", "run", "model", "thinking"}
    BY StoreAssumption
  <2>3. CASE pc'[c] = "appendGet"
    <3>1. Len(todo'[c]) = 1 - 0 /\ \A j \in 1 .. 1 - 0 : todo'[c][j] = Msg(c, 0 + j)
      <4>1. todo'[c] = <<Msg(c, 1)>> /\ \A j \in 1 .. 1 - 0 : j = 1 /\ 0 + j = 1
        BY <2>1, <2>3
      <4>. QED  BY <4>1
    <3>2. BatchEnd(c, 1)' /\ Rest(c, 0, 1)' /\ 0 \in 0 .. 1 - 1
      BY <2>1, <3>1 DEF BatchEnd, Rest, Wrote
    <3>. QED  BY <2>1, <2>3, <3>2 DEF CallOK, Appending, Compacting, Wrote
  <2>4. CASE pc'[c] = "update"
    BY <2>1, <2>2, <2>4 DEF CallOK, Appending, Compacting, Wrote
  <2>. QED  BY <2>1, <2>3, <2>4
<1>2. CASE AppendGet(c)
  <2>1. /\ pc[c] = "appendGet" /\ pc'[c] = "appendPut" /\ todo' = todo /\ batch' = batch /\ reply' = reply
        /\ written' = written /\ made' = made
    BY <1>2 DEF AppendGet, Select
  <2>. QED  BY <2>1 DEF CallOK, Appending, Compacting, BatchEnd, Rest, Wrote
<1>3. CASE AppendPut(c)
  <2>1. pc[c] = "appendPut" /\ pc[c] \in Appending
    BY <1>3 DEF AppendPut, Appending
  <2>2. PICK n \in Nat : \E k \in 0 .. n - 1 :
           /\ BatchEnd(c, n) /\ Rest(c, k, n) /\ Len(todo[c]) = n - k
           /\ Head(todo[c]) = Msg(c, k + 1) /\ Msg(c, k + 1) \in Message
           /\ Len(Tail(todo[c])) = n - k - 1
           /\ \A j \in 1 .. n - k - 1 : Tail(todo[c])[j] = Msg(c, k + 1 + j)
    BY <2>1, NextMessage
  <2>3. PICK k \in 0 .. n - 1 :
           /\ BatchEnd(c, n) /\ Rest(c, k, n) /\ Len(todo[c]) = n - k
           /\ Head(todo[c]) = Msg(c, k + 1) /\ Msg(c, k + 1) \in Message
           /\ Len(Tail(todo[c])) = n - k - 1
           /\ \A j \in 1 .. n - k - 1 : Tail(todo[c])[j] = Msg(c, k + 1 + j)
    BY <2>2
  <2>4. /\ written' = Append(written, Head(todo[c])) /\ todo'[c] = Tail(todo[c])
        /\ batch' = batch /\ reply' = reply /\ made' = made
        /\ pc'[c] = IF Len(todo[c]) = 1 THEN "compactGet" ELSE "appendGet"
    BY <1>3 DEF AppendPut
  <2>5. \A m : Contains(written', m) <=> Contains(written, m) \/ m = Msg(c, k + 1)
    BY <2>3, <2>4, WrittenMore
  <2>6. Wrote(c, k + 1)'
    <3>1. \A i \in 1 .. k : Contains(written, Msg(c, i))
      BY <2>3 DEF Rest, Wrote
    <3>2. \A i \in 1 .. k + 1 : i \in 1 .. k \/ i = k + 1
      OBVIOUS
    <3>3. \A i \in 1 .. k + 1 : Contains(written', Msg(c, i))
      BY <2>5, <3>1, <3>2
    <3>. QED  BY <3>3 DEF Wrote, Msg
  <2>7. BatchEnd(c, n)' /\ Kind[c] \in {"append", "run"} /\ (batch[c] = "trace" => Kind[c] = "run")
    BY <2>1, <2>3, <2>4 DEF BatchEnd, CallOK
  <2>8. reply'[c] = "none"
    BY <2>1, <2>4 DEF CallOK
  <2>9. CASE n - k = 1
    <3>1. k + 1 = n /\ pc'[c] = "compactGet"
      BY <2>3, <2>4, <2>9
    <3>. QED  BY <2>4, <2>6, <2>7, <2>8, <3>1 DEF CallOK, Appending, Compacting
  <2>10. CASE n - k # 1
    <3>1. k + 1 \in 0 .. n - 1 /\ k + 1 >= 1 /\ n - (k + 1) = n - k - 1 /\ pc'[c] = "appendGet"
      BY <2>3, <2>4, <2>10
    <3>2. Rest(c, k + 1, n)'
      BY <2>3, <2>4, <2>6, <3>1 DEF Rest, Msg
    <3>. QED  BY <2>4, <2>7, <2>8, <3>1, <3>2 DEF CallOK, Appending, Compacting
  <2>. QED  BY <2>9, <2>10
<1>4. CASE CompactGet(c) \/ ReplaceGet(c)
  <2>1. /\ pc[c] \in Compacting /\ pc'[c] \in Compacting /\ batch' = batch /\ reply' = reply
        /\ written' = written /\ made' = made
    BY <1>4 DEF CompactGet, ReplaceGet, Select, Compacting
  <2>2. pc'[c] \notin {"idle", "update", "load", "agent"} \cup Appending
    BY <2>1 DEF Compacting, Appending
  <2>3. reply'[c] = "none"
    BY <2>1 DEF CallOK, Compacting
  <2>4. \E n \in Nat : BatchEnd(c, n)' /\ Wrote(c, n)'
    BY <2>1 DEF CallOK, BatchEnd, Wrote
  <2>. QED  BY <2>1, <2>2, <2>3, <2>4 DEF CallOK
<1>5. CASE ReplacePut(c)
  <2>1. /\ pc[c] \in Compacting /\ batch' = batch /\ written' = written /\ made' = made
        /\ \/ pc'[c] = "load" /\ Kind[c] = "run" /\ batch[c] = "user" /\ reply' = reply
           \/ pc'[c] = "done" /\ reply'[c] = "ok" /\ ~(Kind[c] = "run" /\ batch[c] = "user")
    BY <1>5 DEF ReplacePut, BatchStored, Answer, Compacting
  <2>2. PICK n \in Nat : BatchEnd(c, n) /\ Wrote(c, n)
    BY <2>1 DEF CallOK
  <2>3. CASE pc'[c] = "load"
    <3>1. Wrote(c, 1)'
      BY <2>1, <2>2, <2>3 DEF BatchEnd, Wrote
    <3>. QED  BY <2>1, <2>3, <3>1 DEF CallOK, Appending, Compacting, Wrote
  <2>4. CASE pc'[c] = "done"
    <3>1. Kind[c] = "run" => batch[c] = "trace"
      BY <2>1, <2>4
    <3>2. Kind[c] = "run" => n = 1 + made[c] /\ made[c] \in TraceLen
      BY <2>2, <3>1 DEF BatchEnd
    <3>3. Kind[c] = "run" => made'[c] \in TraceLen /\ Wrote(c, 1 + made[c])'
      BY <2>1, <2>2, <3>2 DEF Wrote
    <3>4. batch'[c] = "trace" => Kind[c] = "run"
      BY <2>1 DEF CallOK
    <3>. QED  BY <2>4, <3>2, <3>3, <3>4 DEF CallOK, Appending, Compacting
  <2>. QED  BY <2>1, <2>3, <2>4
<1>6. CASE Load(c)
  <2>1. /\ pc[c] = "load" /\ pc'[c] = "agent" /\ batch' = batch /\ reply' = reply /\ written' = written
        /\ made' = made
    BY <1>6 DEF Load, Select
  <2>. QED  BY <2>1 DEF CallOK, Appending, Compacting, Wrote
<1>7. CASE AgentDone(c)
  <2>1. /\ pc[c] = "agent" /\ pc'[c] = "appendGet" /\ batch'[c] = "trace" /\ reply' = reply
        /\ written' = written
    BY <1>7 DEF AgentDone
  <2>2. PICK n \in TraceLen : todo'[c] = [i \in 1 .. n |-> Msg(c, 1 + i)] /\ made'[c] = n
    BY <1>7 DEF AgentDone
  <2>3. n \in Nat /\ n > 0 /\ 1 + n \in Nat /\ 1 \in 0 .. 1 + n - 1 /\ 1 + n - 1 = n
    BY StoreAssumption
  <2>4. Kind[c] = "run" /\ Wrote(c, 1)'
    BY <2>1 DEF CallOK, Wrote
  <2>5. Len(todo'[c]) = 1 + n - 1 /\ \A j \in 1 .. 1 + n - 1 : todo'[c][j] = Msg(c, 1 + j)
    BY <2>2, <2>3
  <2>6. Rest(c, 1, 1 + n)' /\ BatchEnd(c, 1 + n)'
    BY <2>1, <2>2, <2>3, <2>4, <2>5 DEF Rest, BatchEnd, Msg
  <2>7. reply'[c] = "none"
    BY <2>1 DEF CallOK
  <2>. QED  BY <2>1, <2>3, <2>4, <2>6, <2>7 DEF CallOK, Appending, Compacting
<1>8. CASE AgentFails(c) \/ StatementFails(c)
  <2>1. pc'[c] = "done" /\ reply'[c] = "error" /\ batch' = batch /\ made' = made
    BY <1>8 DEF AgentFails, StatementFails, Answer
  <2>. QED  BY <2>1, <1>0, CallEnds
<1>9. CASE Update(c)
  <2>1. pc[c] = "update" /\ pc'[c] = "done" /\ reply'[c] = "ok" /\ batch' = batch /\ made' = made
    BY <1>9 DEF Update, Answer
  <2>2. Kind[c] # "run" /\ batch[c] # "trace"
    BY <2>1 DEF CallOK
  <2>. QED  BY <2>1, <2>2 DEF CallOK, Appending, Compacting
<1>10. CASE UpdateLost(c)
  <2>1. pc'[c] = "done" /\ reply'[c] = "error" /\ batch' = batch /\ made' = made
    BY <1>10 DEF UpdateLost, Answer
  <2>. QED  BY <2>1, <1>0, CallEnds
<1>. QED  BY <1>1, <1>2, <1>3, <1>4, <1>5, <1>6, <1>7, <1>8, <1>9, <1>10 DEF Step

-----------------------------------------------------------------------------
(* The steps of the whole system.                                           *)

\* A step is one of a call, the end of calls by a refusal or a crash, or one
\* of the lock alone.
LEMMA Moves ==
  ASSUME TypeOK, [NativeNext]_nativeVars
  PROVE  \/ \E c \in Call :
              /\ Begin(c) \/ Step(c)
              /\ c \in workload
              /\ Begin(c) => Kind[c] # "run" \/ (holder[TheSession] = NoCall /\ holder'[TheSession] = c)
              /\ Kind[c] # "run" \/ Step(c) => holder' = holder
              /\ holder' \in [{TheSession} -> Prompt \cup {NoCall}]
              /\ workload' = workload
         \/ \E c \in Call :
              /\ pc[c] = "idle" /\ Answer(c, "error")
              /\ UNCHANGED <<row, written, todo, copy, kept, batch, seen, made, holder, workload>>
         \/ /\ pc' = [c \in Call |-> IF pc[c] = "idle" THEN "idle" ELSE "done"]
            /\ holder' \in [{TheSession} -> Prompt \cup {NoCall}]
            /\ UNCHANGED <<row, written, todo, copy, kept, batch, seen, made, reply, workload>>
         \/ /\ holder' = holder \/ \E p \in Prompt : pc[p] = "done" /\ holder[TheSession] = p
            /\ holder' \in [{TheSession} -> Prompt \cup {NoCall}]
            /\ UNCHANGED <<vars, workload>>
<1>. USE DEF TypeOK
<1>1. ASSUME NEW p \in Prompt \cap workload, StartPrompt(p)
      PROVE  /\ Begin(p) /\ p \in Call /\ p \in workload /\ Kind[p] = "run"
             /\ holder[TheSession] = NoCall /\ holder'[TheSession] = p
             /\ holder' \in [{TheSession} -> Prompt \cup {NoCall}] /\ workload' = workload
  BY <1>1 DEF StartPrompt, Lock!Acquire, Prompt
<1>2. ASSUME NEW p \in Prompt \cap workload, RefusePrompt(p)
      PROVE  /\ p \in Call /\ pc[p] = "idle" /\ Answer(p, "error")
             /\ UNCHANGED <<row, written, todo, copy, kept, batch, seen, made, holder, workload>>
  BY <1>2 DEF RefusePrompt, lockState, Prompt
<1>3. ASSUME NEW p \in Prompt \cap workload, ReleasePrompt(p)
      PROVE  /\ p \in Prompt /\ pc[p] = "done" /\ holder[TheSession] = p
             /\ holder' \in [{TheSession} -> Prompt \cup {NoCall}]
             /\ UNCHANGED <<vars, workload>>
  BY <1>3 DEF ReleasePrompt, Lock!Release, Prompt
<1>4. ASSUME NEW c \in workload, StartUnguarded(c)
      PROVE  Begin(c) /\ c \in Call /\ Kind[c] # "run" /\ UNCHANGED <<holder, workload>>
  BY <1>4 DEF StartUnguarded, lockState
<1>5. ASSUME NEW c \in workload, StoreStep(c)
      PROVE  Step(c) /\ c \in Call /\ UNCHANGED <<holder, workload>>
  BY <1>5 DEF StoreStep, lockState
<1>6. ASSUME StopPrompt PROVE UNCHANGED <<vars, holder, workload>>
  BY <1>6 DEF StopPrompt, Lock!Stop
<1>7. ASSUME Crash
      PROVE  /\ pc' = [c \in Call |-> IF pc[c] = "idle" THEN "idle" ELSE "done"]
             /\ holder' \in [{TheSession} -> Prompt \cup {NoCall}]
             /\ UNCHANGED <<row, written, todo, copy, kept, batch, seen, made, reply, workload>>
  BY <1>7 DEF Crash
<1>8. ASSUME UNCHANGED nativeVars PROVE UNCHANGED <<vars, holder, workload>>
  BY <1>8 DEF nativeVars
<1>9. \A c : ~(Begin(c) /\ Step(c))
  BY DEF Begin, Step, AppendGet, AppendPut, CompactGet, ReplaceGet, ReplacePut, Load, Select, AgentDone,
         AgentFails, Update, StatementFails, Statement, UpdateLost
<1>. QED
  <2>1. CASE \E p \in Prompt \cap workload : StartPrompt(p)
    <3>1. PICK p \in Prompt \cap workload : StartPrompt(p)
      BY <2>1
    <3>. QED  BY <1>1, <1>9, <3>1
  <2>2. CASE \E p \in Prompt \cap workload : RefusePrompt(p)
    BY <1>2, <2>2
  <2>3. CASE \E p \in Prompt \cap workload : ReleasePrompt(p)
    BY <1>3, <2>3
  <2>4. CASE \E c \in workload : StartUnguarded(c)
    BY <1>4, <2>4
  <2>5. CASE \E c \in workload : StoreStep(c)
    <3>1. PICK c \in workload : StoreStep(c)
      BY <2>5
    <3>. QED  BY <1>5, <1>9, <3>1
  <2>6. CASE StopPrompt \/ UNCHANGED nativeVars
    BY <1>6, <1>8, <2>6
  <2>7. CASE Crash
    BY <1>7, <2>7
  <2>. QED  BY <2>1, <2>2, <2>3, <2>4, <2>5, <2>6, <2>7 DEF NativeNext

\* The invariant of the calls.
LEMMA CallsStep == CallsOK /\ [NativeNext]_nativeVars => CallsOK'
<1>. SUFFICES ASSUME CallsOK, [NativeNext]_nativeVars PROVE CallsOK'
  OBVIOUS
<1>. USE DEF CallsOK
<1>1. ASSUME NEW c \in Call, Begin(c) \/ Step(c),
             holder' \in [{TheSession} -> Prompt \cup {NoCall}], workload' = workload
      PROVE  CallsOK'
  <2>1. TypeOK'
    BY <1>1, StoreTypes
  <2>2. CallOK(c)'
    BY <1>1, StepKeepsCall
  <2>3. ASSUME NEW d \in Call, d # c PROVE CallOK(d)'
    <3>1. /\ pc'[d] = pc[d] /\ todo'[d] = todo[d] /\ batch'[d] = batch[d] /\ reply'[d] = reply[d]
          /\ made'[d] = made[d]
      BY <1>1, <2>3, OthersKept
    <3>2. \A m : Contains(written, m) => Contains(written', m)
      BY <1>1, WrittenStays
    <3>. QED  BY <3>1, <3>2, CallKept
  <2>. QED  BY <2>1, <2>2, <2>3
<1>2. ASSUME NEW c \in Call, Answer(c, "error"),
             UNCHANGED <<row, written, todo, copy, kept, batch, seen, made, holder, workload>>
      PROVE  CallsOK'
  <2>1. TypeOK'
    BY <1>2 DEF TypeOK, Answer, Stage
  <2>2. ASSUME NEW d \in Call PROVE CallOK(d)'
    <3>1. d # c => pc'[d] = pc[d] /\ reply'[d] = reply[d]
      BY <1>2 DEF TypeOK, Answer
    <3>2. d = c => pc'[d] = "done" /\ reply'[d] = "error"
      BY <1>2 DEF TypeOK, Answer
    <3>3. todo'[d] = todo[d] /\ batch'[d] = batch[d] /\ made'[d] = made[d] /\ written' = written
      BY <1>2
    <3>. QED  BY <3>1, <3>2, <3>3, CallKept, CallEnds
  <2>. QED  BY <2>1, <2>2
<1>3. ASSUME pc' = [c \in Call |-> IF pc[c] = "idle" THEN "idle" ELSE "done"],
             holder' \in [{TheSession} -> Prompt \cup {NoCall}],
             UNCHANGED <<row, written, todo, copy, kept, batch, seen, made, reply, workload>>
      PROVE  CallsOK'
  <2>1. TypeOK'
    BY <1>3 DEF TypeOK, Stage
  <2>2. ASSUME NEW d \in Call PROVE CallOK(d)'
    <3>1. pc'[d] = pc[d] \/ pc'[d] = "done"
      BY <1>3
    <3>2. /\ todo'[d] = todo[d] /\ batch'[d] = batch[d] /\ made'[d] = made[d]
          /\ reply'[d] = reply[d] /\ written' = written
      BY <1>3
    <3>. QED  BY <3>1, <3>2, CallKept, CallEnds
  <2>. QED  BY <2>1, <2>2
<1>4. ASSUME holder' \in [{TheSession} -> Prompt \cup {NoCall}], UNCHANGED <<vars, workload>>
      PROVE  CallsOK'
  <2>1. TypeOK'
    BY <1>4 DEF TypeOK, vars
  <2>2. ASSUME NEW d \in Call PROVE CallOK(d)'
    BY <1>4, CallKept DEF vars
  <2>. QED  BY <2>1, <2>2
<1>. QED  BY <1>1, <1>2, <1>3, <1>4, Moves

-----------------------------------------------------------------------------
(* The transcripts.                                                         *)

\* A summary is only first, and the messages of a call are in their order.
Ordered(s) == /\ \A i \in 2 .. Len(s) : s[i] \in Message
              /\ \A i, j \in 1 .. Len(s) : i < j /\ s[i].by = s[j].by => s[i].n < s[j].n

AllOrdered == /\ Ordered(row.messages)
              /\ \A c \in Call : Ordered(copy[c].messages) /\ Ordered(kept[c])

\* Message m is in the row or may get there from a copy.
Held(m) == \/ Contains(row.messages, m)
           \/ \E c \in Call : Contains(copy[c].messages, m) \/ Contains(kept[c], m)

\* What a call will write comes after all that is held of it.
Behind(c) == \A m \in Message : Held(m) /\ m.by = c =>
               /\ pc[c] # "idle"
               /\ batch[c] = "user" => m.n <= 1
               /\ pc[c] \in Appending => \A j \in 1 .. Len(todo[c]) : m.n < todo[c][j].n

OrderInv == CallsOK /\ AllOrdered /\ \A c \in Call : Behind(c)

\* An entry is a message of a call or the summary.
LEMMA EntryCases ==
  /\ \A m \in Entry : m \in Message \/ m.by = NoCall
  /\ \A m \in Message : m \in Entry /\ m.by # NoCall /\ m.by \in Call
  /\ \A i \in 1 .. Len(SummaryPrefix) : SummaryPrefix[i] \notin Message
BY Entries, Messages, StoreAssumption DEF Entry

\* A message that comes after all of its call keeps a transcript in order.
LEMMA OrderedAppend ==
  ASSUME NEW s \in Seq(Entry), Ordered(s), NEW m \in Message,
         \A x \in Message : Contains(s, x) /\ x.by = m.by => x.n < m.n
  PROVE  /\ Ordered(Append(s, m))
         /\ \A x : Contains(Append(s, m), x) => Contains(s, x) \/ x = m
<1>1. /\ Len(Append(s, m)) = Len(s) + 1 /\ Len(s) \in Nat
      /\ \A i \in 1 .. Len(s) : Append(s, m)[i] = s[i] /\ s[i] \in Entry
      /\ Append(s, m)[Len(s) + 1] = m
  BY EntryCases
<1>. DEFINE t == Append(s, m)
<1>2. ASSUME NEW i \in 1 .. Len(t)
      PROVE  \/ i \in 1 .. Len(s) /\ t[i] = s[i] /\ s[i] \in Entry
             \/ i = Len(s) + 1 /\ t[i] = m
  <2>1. i \in 1 .. Len(s) \/ i = Len(s) + 1
    BY <1>1
  <2>. QED  BY <1>1, <2>1
<1>. HIDE DEF t
<1>3. \A x : Contains(t, x) => Contains(s, x) \/ x = m
  BY <1>2 DEF Contains
<1>4. \A i \in 2 .. Len(t) : t[i] \in Message
  <2>1. \A i \in 2 .. Len(t) : i \in 1 .. Len(t) /\ (i \in 1 .. Len(s) => i \in 2 .. Len(s))
    BY <1>1 DEF t
  <2>. QED  BY <1>2, <2>1 DEF Ordered
<1>5. ASSUME NEW i \in 1 .. Len(t), NEW j \in 1 .. Len(t), i < j, t[i].by = t[j].by
      PROVE  t[i].n < t[j].n
  <2>1. i \in 1 .. Len(s) /\ t[i] = s[i] /\ s[i] \in Entry
    BY <1>1, <1>2, <1>5 DEF t
  <2>2. CASE j \in 1 .. Len(s) /\ t[j] = s[j]
    BY <1>5, <2>1, <2>2 DEF Ordered
  <2>3. CASE j = Len(s) + 1 /\ t[j] = m
    <3>1. s[i].by = m.by /\ s[i] \in Message
      BY <1>5, <2>1, <2>3, EntryCases
    <3>2. Contains(s, s[i])
      BY <2>1 DEF Contains
    <3>. QED  BY <2>1, <2>3, <3>1, <3>2
  <2>. QED  BY <1>2, <2>2, <2>3
<1>. QED  BY <1>3, <1>4, <1>5 DEF Ordered, t

\* A compaction keeps a transcript in order, its last message, and invents none.
LEMMA OrderedCompress ==
  ASSUME NEW s \in Seq(Entry), Ordered(s)
  PROVE  /\ Ordered(C!Compress(s, Window))
         /\ \A x \in Message : Contains(C!Compress(s, Window), x) => Contains(s, x)
         /\ s # <<>> => C!Compress(s, Window) # <<>> /\ Last(C!Compress(s, Window)) = Last(s)
<1>1. CASE C!Compress(s, Window) = s
  BY <1>1
<1>2. ASSUME NEW k \in 1 .. Len(s) - 1,
             C!Compress(s, Window) = SummaryPrefix \o SubSeq(s, Len(s) - k + 1, Len(s))
      PROVE  /\ Ordered(C!Compress(s, Window))
             /\ \A x \in Message : Contains(C!Compress(s, Window), x) => Contains(s, x)
             /\ C!Compress(s, Window) # <<>> /\ Last(C!Compress(s, Window)) = Last(s)
  <2>. DEFINE part == SubSeq(s, Len(s) - k + 1, Len(s))
              t == C!Compress(s, Window)
              l == Len(SummaryPrefix)
  <2>1. /\ part \in Seq(Entry) /\ Len(part) = k
        /\ \A i \in 1 .. k : part[i] = s[Len(s) - k + i]
    BY CP!NewestPart DEF CP!Newest
  <2>2. t = SummaryPrefix \o part /\ SummaryPrefix \in Seq(Entry) /\ l \in {0, 1}
    BY <1>2, Entries
  <2>. HIDE DEF part, t
  <2>3. /\ Len(t) = l + k
        /\ \A i \in 1 .. l + k : t[i] = IF i <= l THEN SummaryPrefix[i] ELSE part[i - l]
    BY <2>1, <2>2, ConcatProperties
  <2>. HIDE DEF l
  <2>4. \A i \in 1 .. l + k : \/ i = 1 /\ l = 1 /\ t[i] = SummaryPrefix[1]
                              \/ i - l \in 1 .. k /\ t[i] = s[Len(s) - k + (i - l)]
    <3>1. ASSUME NEW i \in 1 .. l + k, i <= l PROVE i = 1 /\ l = 1 /\ t[i] = SummaryPrefix[1]
      BY <2>2, <2>3, <3>1
    <3>2. ASSUME NEW i \in 1 .. l + k, ~(i <= l)
          PROVE  i - l \in 1 .. k /\ t[i] = s[Len(s) - k + (i - l)]
      <4>1. i - l \in 1 .. k
        BY <2>2, <3>2
      <4>. QED  BY <2>1, <2>3, <3>2, <4>1
    <3>. QED  BY <3>1, <3>2
  <2>5. \A i \in 1 .. k : Len(s) - k + i \in 2 .. Len(s) /\ s[Len(s) - k + i] \in Message
    BY DEF Ordered
  <2>6. l = 1 => SummaryPrefix[1].by = NoCall /\ SummaryPrefix[1] \notin Message
    BY Entries, EntryCases DEF l
  <2>7. ASSUME NEW i \in 2 .. Len(t) PROVE i - l \in 1 .. k /\ t[i] = s[Len(s) - k + (i - l)] /\ t[i] \in Message
    <3>1. i \in 1 .. l + k /\ i # 1
      BY <2>2, <2>3
    <3>2. i - l \in 1 .. k /\ t[i] = s[Len(s) - k + (i - l)]
      BY <2>4, <3>1
    <3>. QED  BY <2>5, <3>2
  <2>8. ASSUME NEW i \in 1 .. Len(t), NEW j \in 1 .. Len(t), i < j, t[i].by = t[j].by
        PROVE  t[i].n < t[j].n
    <3>1. j \in 2 .. Len(t) /\ j - l \in 1 .. k /\ t[j] = s[Len(s) - k + (j - l)] /\ t[j] \in Message
      <4>1. j \in 2 .. Len(t)
        BY <2>3, <2>8
      <4>. QED  BY <2>7, <4>1
    <3>2. ~(i = 1 /\ l = 1 /\ t[i] = SummaryPrefix[1])
      BY <2>6, <2>8, <3>1, EntryCases
    <3>3. /\ i - l \in 1 .. k /\ t[i] = s[Len(s) - k + (i - l)]
          /\ j - l \in 1 .. k /\ t[j] = s[Len(s) - k + (j - l)]
      <4>1. i \in 1 .. l + k
        BY <2>3
      <4>. QED  BY <2>4, <3>1, <3>2, <4>1
    <3>4. /\ Len(s) - k + (i - l) \in 1 .. Len(s) /\ Len(s) - k + (j - l) \in 1 .. Len(s)
          /\ Len(s) - k + (i - l) < Len(s) - k + (j - l)
      <4>1. i - l < j - l
        BY <2>2, <2>8
      <4>2. Len(s) \in Nat /\ k \in Nat /\ k < Len(s)
        OBVIOUS
      <4>3. \A a, b \in 1 .. k : a < b =>
              /\ Len(s) - k + a \in 1 .. Len(s) /\ Len(s) - k + b \in 1 .. Len(s)
              /\ Len(s) - k + a < Len(s) - k + b
        BY <4>2
      <4>. QED  BY <3>3, <4>1, <4>3
    <3>. QED  BY <2>8, <3>3, <3>4 DEF Ordered
  <2>9. ASSUME NEW x \in Message, Contains(t, x) PROVE Contains(s, x)
    <3>1. PICK i \in 1 .. l + k : t[i] = x
      BY <2>3, <2>9 DEF Contains
    <3>2. i - l \in 1 .. k /\ t[i] = s[Len(s) - k + (i - l)]
      BY <2>4, <2>6, <3>1
    <3>3. Len(s) - k + (i - l) \in 1 .. Len(s)
      <4>1. \A a \in 1 .. k : Len(s) - k + a \in 1 .. Len(s)
        BY <2>2
      <4>. QED  BY <3>2, <4>1
    <3>. QED  BY <3>1, <3>2, <3>3 DEF Contains
  <2>10. t # <<>> /\ Last(t) = Last(s)
    <3>1. Len(t) = l + k /\ l + k \in 1 .. l + k /\ Len(s) - k + (l + k - l) = Len(s)
      <4>1. l \in Nat /\ k \in Nat \ {0} /\ Len(s) \in Nat
        BY <2>2
      <4>2. \A a, d \in Nat, b \in Nat \ {0} : a + b \in 1 .. a + b /\ d - b + (a + b - a) = d
        OBVIOUS
      <4>3. l + k \in 1 .. l + k /\ Len(s) - k + (l + k - l) = Len(s)
        BY <4>1, <4>2, Zenon
      <4>. QED  BY <2>3, <4>3
    <3>2. ~(l + k = 1 /\ l = 1) /\ l + k # 0
      BY <2>2
    <3>3. t[Len(t)] = s[Len(s)]
      <4>1. PICK i \in 1 .. l + k : i = l + k
        BY <3>1
      <4>2. t[i] = s[Len(s) - k + (i - l)]
        BY <2>4, <3>2, <4>1
      <4>3. Len(s) - k + (i - l) = Len(s) /\ i = Len(t)
        BY <2>2, <3>1, <4>1
      <4>. QED  BY <4>2, <4>3
    <3>4. t # <<>>
      <4>1. Len(<<>>) = 0
        OBVIOUS
      <4>. QED  BY <3>1, <3>2, <4>1
    <3>. QED  BY <3>3, <3>4 DEF Last
  <2>. QED  BY <2>7, <2>8, <2>9, <2>10 DEF Ordered, t
<1>. QED  BY <1>1, <1>2, Compressed

\* A step of c brings nothing into the store but the message c appends, and
\* leaves every transcript ordered.
LEMMA HeldAfter ==
  ASSUME OrderInv, NEW c \in Call, Begin(c) \/ Step(c)
  PROVE  /\ AllOrdered'
         /\ \A m \in Message : Held(m)' =>
              \/ Held(m)
              \/ pc[c] = "appendPut" /\ m = Head(todo[c]) /\ m.by = c /\ (AppendPut(c) \/ UpdateLost(c))
<1>. USE DEF OrderInv, CallsOK
<1>1. CASE UNCHANGED <<row, copy, kept>>
  BY <1>1 DEF AllOrdered, Held
<1>2. CASE UNCHANGED <<row, kept>> /\ copy' = [copy EXCEPT ![c] = row]
  <2>1. \A d \in Call : copy'[d] = copy[d] \/ copy'[d] = row
    BY <1>2 DEF TypeOK
  <2>2. AllOrdered'
    BY <1>2, <2>1 DEF AllOrdered
  <2>3. \A m \in Message : Held(m)' => Held(m)
    BY <1>2, <2>1 DEF Held
  <2>. QED  BY <2>2, <2>3
<1>3. CASE CompactGet(c)
  <2>1. row' = row /\ copy' = [copy EXCEPT ![c] = row]
        /\ kept' = [kept EXCEPT ![c] = C!Compress(row.messages, Window)]
    BY <1>3 DEF CompactGet, Select
  <2>2. \A d \in Call : /\ copy'[d] \in {copy[d], row}
                        /\ kept'[d] \in {kept[d], C!Compress(row.messages, Window)}
    BY <2>1 DEF TypeOK
  <2>3. /\ Ordered(C!Compress(row.messages, Window))
        /\ \A m \in Message : Contains(C!Compress(row.messages, Window), m) => Contains(row.messages, m)
    <3>1. row.messages \in Seq(Entry) /\ Ordered(row.messages)
      BY Rows DEF AllOrdered
    <3>. QED  BY <3>1, OrderedCompress
  <2>4. AllOrdered'
    BY <2>1, <2>2, <2>3 DEF AllOrdered
  <2>5. \A m \in Message : Held(m)' => Held(m)
    BY <2>1, <2>2, <2>3 DEF Held
  <2>. QED  BY <2>4, <2>5
<1>4. CASE UNCHANGED <<copy, kept>> /\ (row' = Replaced(c) \/ row' = Updated(c))
  <2>1. row'.messages = kept[c] \/ row'.messages = row.messages
    BY <1>4, Rows
  <2>2. AllOrdered'
    BY <1>4, <2>1 DEF AllOrdered
  <2>3. \A m \in Message : Held(m)' => Held(m)
    BY <1>4, <2>1 DEF Held
  <2>. QED  BY <2>2, <2>3
<1>5. ASSUME UNCHANGED <<copy, kept>>, pc[c] = "appendPut", row' = Appended(c)
      PROVE  /\ AllOrdered'
             /\ \A m \in Message : Held(m)' => Held(m) \/ (m = Head(todo[c]) /\ m.by = c)
  <2>1. pc[c] \in Appending
    BY <1>5 DEF Appending
  <2>2. \E k : Head(todo[c]) = Msg(c, k + 1) /\ Msg(c, k + 1) \in Message /\ todo[c] # <<>>
    BY <2>1, NextMessage
  <2>. DEFINE h == Head(todo[c])
  <2>3. h \in Message /\ h.by = c /\ todo[c] \in Seq(Message) /\ h = todo[c][1] /\ 1 \in 1 .. Len(todo[c])
    BY <2>2 DEF Msg, TypeOK
  <2>4. copy[c].messages \in Seq(Entry) /\ row'.messages = Append(copy[c].messages, h)
    BY <1>5, <2>3, Rows
  <2>5. \A m \in Message : Contains(copy[c].messages, m) /\ m.by = h.by => m.n < h.n
    BY <2>1, <2>3 DEF Held, Behind
  <2>. HIDE DEF h
  <2>6. /\ Ordered(row'.messages)
        /\ \A m : Contains(row'.messages, m) => Contains(copy[c].messages, m) \/ m = h
    <3>1. Ordered(copy[c].messages)
      BY DEF AllOrdered
    <3>. QED  BY <2>3, <2>4, <2>5, <3>1, OrderedAppend
  <2>7. AllOrdered'
    BY <1>5, <2>6 DEF AllOrdered
  <2>8. \A m \in Message : Held(m)' => Held(m) \/ m = h
    BY <1>5, <2>6 DEF Held
  <2>. QED  BY <2>3, <2>7, <2>8 DEF h
<1>6. \/ UNCHANGED <<row, copy, kept>>
      \/ UNCHANGED <<row, kept>> /\ copy' = [copy EXCEPT ![c] = row]
      \/ CompactGet(c)
      \/ UNCHANGED <<copy, kept>> /\ (row' = Replaced(c) \/ row' = Updated(c))
      \/ /\ UNCHANGED <<copy, kept>> /\ pc[c] = "appendPut" /\ row' = Appended(c)
         /\ AppendPut(c) \/ UpdateLost(c)
  BY DEF Begin, Step, AppendGet, AppendPut, ReplaceGet, ReplacePut, Load, Select, AgentDone,
         AgentFails, Update, StatementFails, UpdateLost
<1>. QED  BY <1>1, <1>2, <1>3, <1>4, <1>5, <1>6

\* What a step of c does to the order of the messages of c.
LEMMA StepKeepsBehind ==
  ASSUME OrderInv, NEW c \in Call, Begin(c) \/ Step(c)
  PROVE  Behind(c)'
<1>. USE DEF OrderInv, CallsOK
<1>. SUFFICES ASSUME NEW m \in Message, Held(m)', m.by = c
     PROVE  /\ pc'[c] # "idle"
            /\ batch'[c] = "user" => m.n <= 1
            /\ pc'[c] \in Appending => \A j \in 1 .. Len(todo'[c]) : m.n < todo'[c][j].n
  BY DEF Behind
<1>1. pc'[c] # "idle"
  BY DEF TypeOK, Begin, Step, AppendGet, AppendPut, CompactGet, ReplaceGet, ReplacePut, BatchStored, Load, Select,
         AgentDone, AgentFails, Update, StatementFails, UpdateLost, Answer
<1>2. CASE AppendPut(c) \/ (UpdateLost(c) /\ pc[c] = "appendPut")
  <2>1. pc[c] = "appendPut" /\ pc[c] \in Appending
    BY <1>2 DEF AppendPut, Appending
  <2>2. PICK n \in Nat : \E k \in 0 .. n - 1 :
           /\ BatchEnd(c, n) /\ Rest(c, k, n)
           /\ Head(todo[c]) = Msg(c, k + 1)
           /\ todo[c] # <<>>
           /\ Len(Tail(todo[c])) = n - k - 1
           /\ \A j \in 1 .. n - k - 1 : Tail(todo[c])[j] = Msg(c, k + 1 + j)
    BY <2>1, NextMessage
  <2>3. PICK k \in 0 .. n - 1 :
           /\ BatchEnd(c, n) /\ Rest(c, k, n)
           /\ Head(todo[c]) = Msg(c, k + 1)
           /\ todo[c] # <<>>
           /\ Len(Tail(todo[c])) = n - k - 1
           /\ \A j \in 1 .. n - k - 1 : Tail(todo[c])[j] = Msg(c, k + 1 + j)
    BY <2>2
  <2>4. m.n <= k + 1
    <3>1. CASE Held(m)
      <4>1. 1 \in 1 .. Len(todo[c]) /\ todo[c][1] = Msg(c, k + 1)
        BY <2>3 DEF Rest
      <4>2. m.n < Msg(c, k + 1).n
        BY <2>1, <3>1, <4>1 DEF Behind
      <4>3. m.n < k + 1 /\ m.n \in Nat
        BY <4>2, Messages DEF Msg
      <4>. QED  BY <4>3
    <3>2. CASE m = Head(todo[c])
      BY <2>3, <3>2 DEF Msg
    <3>. QED  BY <3>1, <3>2, HeldAfter
  <2>5. batch'[c] = batch[c] /\ (pc'[c] \in Appending => todo'[c] = Tail(todo[c]))
    BY <1>2 DEF AppendPut, UpdateLost, Answer, TypeOK, Appending
  <2>6. batch[c] = "user" => m.n <= 1
    BY <2>3, <2>4, Messages DEF BatchEnd
  <2>7. \A j \in 1 .. n - k - 1 : m.n < Msg(c, k + 1 + j).n
    <3>1. m.n \in Nat
      BY Messages
    <3>2. \A j \in 1 .. n - k - 1 : m.n < k + 1 + j
      BY <2>4, <3>1
    <3>. QED  BY <3>2 DEF Msg
  <2>8. batch'[c] = "user" => m.n <= 1
    BY <2>5, <2>6
  <2>9. pc'[c] \in Appending => \A j \in 1 .. Len(todo'[c]) : m.n < todo'[c][j].n
    <3>1. \A j \in 1 .. Len(Tail(todo[c])) : m.n < Tail(todo[c])[j].n
      BY <2>3, <2>7
    <3>. QED  BY <2>5, <3>1, Zenon
  <2>. QED  BY <1>1, <2>8, <2>9, Zenon
<1>3. CASE ~(AppendPut(c) \/ (UpdateLost(c) /\ pc[c] = "appendPut"))
  <2>1. Held(m)
    BY <1>3, HeldAfter
  <2>2. pc[c] # "idle" /\ (batch[c] = "user" => m.n <= 1)
    BY <2>1 DEF Behind
  <2>3. CASE AgentDone(c)
    <3>1. pc[c] = "agent" /\ batch[c] = "user"
      BY <2>3 DEF AgentDone, CallOK
    <3>2. PICK n \in TraceLen : todo'[c] = [i \in 1 .. n |-> Msg(c, 1 + i)]
      BY <2>3 DEF AgentDone, TypeOK
    <3>3. n \in Nat /\ m.n \in Nat /\ m.n <= 1
      BY <2>2, <3>1, StoreAssumption, Messages
    <3>4. ASSUME NEW j \in 1 .. Len(todo'[c]) PROVE m.n < todo'[c][j].n
      <4>1. j \in 1 .. n /\ todo'[c][j] = Msg(c, 1 + j)
        BY <3>2, <3>3
      <4>. QED  BY <3>3, <4>1 DEF Msg
    <3>5. batch'[c] = "trace"
      BY <2>3 DEF AgentDone, TypeOK
    <3>. QED  BY <1>1, <3>4, <3>5
  <2>4. CASE ~AgentDone(c)
    <3>1. batch'[c] = batch[c] /\ (pc'[c] \in Appending => pc[c] \in Appending /\ todo'[c] = todo[c])
      BY <1>3, <2>2, <2>4 DEF TypeOK, Begin, Step, AppendGet, CompactGet, ReplaceGet, ReplacePut, BatchStored,
           Load, Select, AgentFails, Update, StatementFails, UpdateLost, Answer, Appending
    <3>2. pc[c] \in Appending => \A j \in 1 .. Len(todo[c]) : m.n < todo[c][j].n
      BY <2>1 DEF Behind
    <3>. QED  BY <1>1, <2>2, <3>1, <3>2
  <2>. QED  BY <2>3, <2>4
<1>. QED  BY <1>2, <1>3

\* The order of all transcripts is kept, whoever calls.
LEMMA OrderStep == OrderInv /\ [NativeNext]_nativeVars => OrderInv'
<1>. SUFFICES ASSUME OrderInv, [NativeNext]_nativeVars PROVE OrderInv'
  OBVIOUS
<1>0. CallsOK'
  BY CallsStep DEF OrderInv
<1>1. ASSUME NEW c \in Call, Begin(c) \/ Step(c) PROVE OrderInv'
  <2>1. AllOrdered'
    BY <1>1, HeldAfter
  <2>2. ASSUME NEW d \in Call, d # c PROVE Behind(d)'
    <3>1. pc'[d] = pc[d] /\ todo'[d] = todo[d] /\ batch'[d] = batch[d]
      BY <1>1, <2>2, OthersKept DEF OrderInv, CallsOK
    <3>2. \A m \in Message : Held(m)' /\ m.by = d => Held(m)
      BY <1>1, <2>2, HeldAfter
    <3>. QED  BY <3>1, <3>2 DEF OrderInv, Behind
  <2>3. Behind(c)'
    BY <1>1, StepKeepsBehind
  <2>. QED  BY <1>0, <2>1, <2>2, <2>3 DEF OrderInv
<1>2. ASSUME UNCHANGED <<row, todo, copy, kept, batch>>,
             \A c \in Call : pc'[c] = pc[c] \/ pc'[c] = "done"
      PROVE  OrderInv'
  <2>1. AllOrdered'
    BY <1>2 DEF OrderInv, AllOrdered
  <2>2. ASSUME NEW c \in Call PROVE Behind(c)'
    BY <1>2 DEF OrderInv, Behind, Held, Appending
  <2>. QED  BY <1>0, <2>1, <2>2 DEF OrderInv
<1>3. ASSUME NEW c \in Call, Answer(c, "error") PROVE \A d \in Call : pc'[d] = pc[d] \/ pc'[d] = "done"
  BY <1>3 DEF Answer, OrderInv, CallsOK, TypeOK
<1>. QED  BY <1>1, <1>2, <1>3, Moves DEF OrderInv, CallsOK, vars

-----------------------------------------------------------------------------
(* What holds as long as the session is not used over HTTP as well: the     *)
(* prompt that has the lock is the only one that writes.                    *)

Active(c) == pc[c] \notin {"idle", "done"}

\* Only the prompt that holds the lock is under way.
LockHeld == \A p \in Prompt : Active(p) => holder[TheSession] = p

\* What a prompt has read is what the row still holds, and until its agent is
\* started the row ends in its message.
CopyCurrent(p) ==
  /\ pc[p] = "appendPut" => copy[p].messages = row.messages
  /\ pc[p] \in {"replaceGet", "replacePut"} => kept[p] = C!Compress(row.messages, Window)
  /\ pc[p] \in Compacting \cup {"load"} /\ batch[p] = "user" =>
       row.messages # <<>> /\ Last(row.messages) = Msg(p, 1)
  /\ seen[p] # <<>> => Last(seen[p]) = Msg(p, 1)

\* A prompt that has not written has no message in the history, and one that
\* is writing has written the last.
Silent(p) == pc[p] = "idle" \/ (pc[p] \in Appending /\ batch[p] = "user")

TurnCurrent(p) ==
  /\ Silent(p) => \A i \in 1 .. Len(written) : written[i].by # p
  /\ Active(p) /\ ~Silent(p) => written # <<>> /\ Last(written).by = p

Contiguous(s) == \A i, j, k \in 1 .. Len(s) :
                   i < j /\ j < k /\ s[i].by = s[k].by => s[j].by = s[i].by

SoleWriterInv == ~OverHttp => /\ Contiguous(written)
                              /\ \A p \in Prompt : CopyCurrent(p) /\ TurnCurrent(p)

NativeInv == OrderInv /\ LockHeld /\ SoleWriterInv

\* Lock: of two prompts only one is under way.
LEMMA LockStep == OrderInv /\ LockHeld /\ [NativeNext]_nativeVars => LockHeld'
<1>. SUFFICES ASSUME OrderInv, LockHeld, [NativeNext]_nativeVars, NEW p \in Prompt, Active(p)'
     PROVE  holder'[TheSession] = p
  BY DEF LockHeld, Prompt
<1>. USE DEF OrderInv, CallsOK, LockHeld, Active, Prompt
<1>1. ASSUME NEW c \in Call, Begin(c) \/ Step(c),
             Begin(c) => Kind[c] # "run" \/ (holder[TheSession] = NoCall /\ holder'[TheSession] = c),
             Kind[c] # "run" \/ Step(c) => holder' = holder
      PROVE  holder'[TheSession] = p
  <2>1. CASE c = p
    <3>1. CASE Begin(p)
      BY <1>1, <2>1, <3>1
    <3>2. CASE Step(p)
      <4>1. Active(p)
        BY <3>2 DEF Step, AppendGet, AppendPut, CompactGet, ReplaceGet, ReplacePut, Load, Select, AgentDone,
             AgentFails, Update, StatementFails, Statement, UpdateLost
      <4>. QED  BY <1>1, <2>1, <3>2, <4>1
    <3>. QED  BY <1>1, <2>1, <3>1, <3>2
  <2>2. CASE c # p
    <3>1. pc'[p] = pc[p]
      BY <1>1, <2>2, OthersKept
    <3>2. holder[TheSession] = p /\ p # NoCall
      BY <3>1, StoreAssumption
    <3>. QED  BY <1>1, <3>2
  <2>. QED  BY <2>1, <2>2
<1>2. ASSUME NEW c \in Call, pc[c] = "idle", Answer(c, "error"), holder' = holder PROVE holder'[TheSession] = p
  BY <1>2 DEF Answer, TypeOK
<1>3. ~(pc' = [c \in Call |-> IF pc[c] = "idle" THEN "idle" ELSE "done"])
  OBVIOUS
<1>4. ASSUME holder' = holder \/ \E q \in Prompt : pc[q] = "done" /\ holder[TheSession] = q,
             UNCHANGED vars
      PROVE  holder'[TheSession] = p
  BY <1>4 DEF vars
<1>. QED  BY <1>1, <1>2, <1>3, <1>4, Moves

\* While a prompt is under way nobody else changes the transcript.
LEMMA SoleWriter ==
  ASSUME NativeInv, ~OverHttp, NEW c \in workload, Begin(c) \/ Step(c),
         NEW p \in Prompt, p # c, Active(p) \/ c \notin Prompt
  PROVE  row'.messages = row.messages /\ written' = written
<1>. USE DEF NativeInv, OrderInv, CallsOK
<1>1. CASE Begin(c)
  BY <1>1 DEF Begin
<1>2. CASE Step(c)
  <2>1. c \in Call /\ Kind[c] # "append" /\ Kind[c] \in {"append", "run", "model", "thinking"}
    BY StoreAssumption DEF TypeOK, OverHttp
  <2>2. Kind[c] # "run"
    <3>1. Active(c)
      BY <1>2 DEF Active, Step, AppendGet, AppendPut, CompactGet, ReplaceGet, ReplacePut, Load, Select,
           AgentDone, AgentFails, Update, StatementFails, Statement, UpdateLost
    <3>2. c \in Prompt => holder[TheSession] = c
      BY <3>1 DEF LockHeld
    <3>3. Active(p) => holder[TheSession] = p
      BY DEF LockHeld
    <3>. QED  BY <2>1, <3>2, <3>3 DEF Prompt
  <2>3. pc[c] \notin Appending \cup Compacting \cup {"load", "agent"}
    BY <2>1, <2>2 DEF CallOK
  <2>4. row' = row \/ row' = Updated(c)
    BY <1>2, <2>3 DEF Appending, Compacting, Step, AppendGet, AppendPut, CompactGet, ReplaceGet,
       ReplacePut, Load, Select, AgentDone, AgentFails, Update, StatementFails, UpdateLost
  <2>5. written' = written
    BY <1>2, <2>3 DEF Appending, Compacting, Step, AppendGet, AppendPut, CompactGet, ReplaceGet,
       ReplacePut, Load, Select, AgentDone, AgentFails, Update, StatementFails, UpdateLost
  <2>. QED  BY <2>1, <2>4, <2>5, Rows
<1>. QED  BY <1>1, <1>2

\* The last message after a message is written.
LEMMA LastWritten ==
  ASSUME NEW S, NEW s \in Seq(S), NEW m \in S
  PROVE  Append(s, m) # <<>> /\ Last(Append(s, m)) = m
<1>1. Len(Append(s, m)) = Len(s) + 1 /\ Append(s, m)[Len(s) + 1] = m /\ Len(s) \in Nat
  OBVIOUS
<1>2. Len(<<>>) = 0
  OBVIOUS
<1>. QED  BY <1>1, <1>2 DEF Last

\* What a step of a prompt does to what it has read.
LEMMA CopyStep ==
  ASSUME NativeInv, ~OverHttp, NEW p \in Prompt, Begin(p) \/ Step(p)
  PROVE  CopyCurrent(p)'
<1>. USE DEF NativeInv, OrderInv, CallsOK
<1>0. p \in Call /\ CopyCurrent(p) /\ CallOK(p) /\ Kind[p] = "run"
  BY DEF Prompt, SoleWriterInv
<1>1. CASE Begin(p)
  BY <1>0, <1>1 DEF Begin, CopyCurrent, TypeOK, Compacting
<1>2. CASE AppendGet(p)
  BY <1>0, <1>2 DEF AppendGet, Select, CopyCurrent, TypeOK, Compacting
<1>3. CASE AppendPut(p)
  <2>1. /\ pc[p] = "appendPut" /\ row' = Appended(p) /\ batch' = batch /\ seen' = seen
        /\ pc'[p] = IF Len(todo[p]) = 1 THEN "compactGet" ELSE "appendGet"
    BY <1>0, <1>3 DEF AppendPut, TypeOK
  <2>2. pc[p] \in Appending
    BY <2>1 DEF Appending
  <2>3. PICK n \in Nat : \E k \in 0 .. n - 1 :
           /\ BatchEnd(p, n) /\ Len(todo[p]) = n - k
           /\ Head(todo[p]) = Msg(p, k + 1) /\ Msg(p, k + 1) \in Message
    BY <1>0, <2>2, NextMessage
  <2>4. PICK k \in 0 .. n - 1 :
           /\ BatchEnd(p, n) /\ Len(todo[p]) = n - k
           /\ Head(todo[p]) = Msg(p, k + 1) /\ Msg(p, k + 1) \in Message
    BY <2>3
  <2>5. batch[p] = "user" => Head(todo[p]) = Msg(p, 1)
    <3>1. batch[p] = "user" => k + 1 = 1
      BY <2>4 DEF BatchEnd
    <3>. QED  BY <2>4, <3>1
  <2>6. row'.messages # <<>> /\ Last(row'.messages) = Head(todo[p])
    <3>1. copy[p].messages \in Seq(Entry) /\ Head(todo[p]) \in Entry
      BY <1>0, <2>4, Rows, EntryCases
    <3>2. row'.messages = Append(copy[p].messages, Head(todo[p]))
      BY <1>0, <2>1, <2>4, Rows
    <3>3. Append(copy[p].messages, Head(todo[p])) # <<>>
          /\ Last(Append(copy[p].messages, Head(todo[p]))) = Head(todo[p])
      BY <3>1, LastWritten
    <3>. QED  BY <3>2, <3>3
  <2>7. Msg(p, 1)' = Msg(p, 1)
    BY DEF Msg
  <2>. QED  BY <1>0, <2>1, <2>5, <2>6, <2>7 DEF CopyCurrent
<1>4. CASE CompactGet(p)
  <2>1. /\ pc[p] = "compactGet" /\ pc'[p] = "replaceGet" /\ row' = row /\ batch' = batch /\ seen' = seen
        /\ kept'[p] = C!Compress(row.messages, Window)
    BY <1>0, <1>4 DEF CompactGet, Select, TypeOK
  <2>. QED  BY <1>0, <2>1 DEF CopyCurrent, Compacting
<1>5. CASE ReplaceGet(p)
  <2>1. /\ pc[p] = "replaceGet" /\ pc'[p] = "replacePut" /\ row' = row /\ batch' = batch /\ seen' = seen
        /\ kept' = kept
    BY <1>0, <1>5 DEF ReplaceGet, Select, TypeOK
  <2>. QED  BY <1>0, <2>1 DEF CopyCurrent, Compacting
<1>6. CASE ReplacePut(p)
  <2>1. /\ pc[p] = "replacePut" /\ pc'[p] \in {"load", "done"} /\ row' = Replaced(p) /\ batch' = batch
        /\ seen' = seen
    BY <1>0, <1>6 DEF ReplacePut, BatchStored, Answer, TypeOK
  <2>2. row'.messages = C!Compress(row.messages, Window)
    BY <1>0, <2>1, Rows DEF CopyCurrent
  <2>3. row.messages # <<>> =>
          C!Compress(row.messages, Window) # <<>> /\ Last(C!Compress(row.messages, Window)) = Last(row.messages)
    <3>1. row.messages \in Seq(Entry) /\ Ordered(row.messages)
      BY <1>0, Rows DEF AllOrdered
    <3>. QED  BY <3>1, OrderedCompress
  <2>. QED  BY <1>0, <2>1, <2>2, <2>3 DEF CopyCurrent, Compacting
<1>7. CASE Load(p)
  <2>1. /\ pc[p] = "load" /\ pc'[p] = "agent" /\ row' = row /\ batch' = batch
        /\ seen'[p] = row.messages
    BY <1>0, <1>7 DEF Load, Select, TypeOK
  <2>2. batch[p] = "user"
    BY <1>0, <2>1 DEF CallOK
  <2>. QED  BY <1>0, <2>1, <2>2 DEF CopyCurrent, Compacting
<1>8. CASE AgentDone(p)
  BY <1>0, <1>8 DEF AgentDone, CopyCurrent, TypeOK, Compacting
<1>9. CASE AgentFails(p) \/ Update(p) \/ StatementFails(p) \/ UpdateLost(p)
  <2>1. pc'[p] = "done" /\ seen' = seen
    BY <1>0, <1>9 DEF AgentFails, Update, StatementFails, UpdateLost, Answer, TypeOK
  <2>. QED  BY <1>0, <2>1 DEF CopyCurrent, Compacting
<1>. QED  BY <1>1, <1>2, <1>3, <1>4, <1>5, <1>6, <1>7, <1>8, <1>9 DEF Step

\* What a step of a prompt does to its turn in the history.
LEMMA TurnStep ==
  ASSUME NativeInv, ~OverHttp, NEW p \in Prompt, Begin(p) \/ Step(p)
  PROVE  TurnCurrent(p)' /\ Contiguous(written)'
<1>. USE DEF NativeInv, OrderInv, CallsOK
<1>0. /\ p \in Call /\ TurnCurrent(p) /\ CallOK(p) /\ Kind[p] = "run"
      /\ Contiguous(written) /\ written \in Seq(Message)
  BY DEF Prompt, SoleWriterInv, TypeOK
<1>1. ASSUME written' = Append(written, Head(todo[p])), pc[p] = "appendPut",
             Head(todo[p]) \in Message, Head(todo[p]).by = p
      PROVE  Contiguous(written)' /\ written' # <<>> /\ Last(written').by = p
  <2>. DEFINE h == Head(todo[p])
  <2>1. h \in Message /\ h.by = p /\ written' = Append(written, h)
    BY <1>1
  <2>. HIDE DEF h
  <2>2. written' # <<>> /\ Last(written').by = p
    BY <1>0, <2>1, LastWritten
  <2>3. /\ Len(written') = Len(written) + 1 /\ Len(written) \in Nat
        /\ \A i \in 1 .. Len(written) : written'[i] = written[i]
        /\ written'[Len(written) + 1] = h
    BY <1>0, <2>1
  <2>4. ASSUME NEW i \in 1 .. Len(written'), NEW j \in 1 .. Len(written'), NEW k \in 1 .. Len(written'),
               i < j, j < k, written'[i].by = written'[k].by
        PROVE  written'[j].by = written'[i].by
    <3>1. i \in 1 .. Len(written) /\ j \in 1 .. Len(written)
      BY <2>3, <2>4
    <3>2. CASE k \in 1 .. Len(written)
      BY <1>0, <2>3, <2>4, <3>1, <3>2 DEF Contiguous
    <3>3. CASE k = Len(written) + 1
      <4>1. written[i].by = p
        BY <2>1, <2>3, <2>4, <3>1, <3>3
      <4>2. ~Silent(p)
        BY <1>0, <3>1, <4>1 DEF TurnCurrent
      <4>3. written[Len(written)].by = p
        BY <1>0, <1>1, <4>2 DEF TurnCurrent, Active, Last
      <4>4. written[j].by = p
        <5>1. CASE j = Len(written)
          BY <4>3, <5>1
        <5>2. CASE j # Len(written)
          <6>1. j < Len(written) /\ Len(written) \in 1 .. Len(written)
            BY <2>3, <3>1, <5>2
          <6>. QED  BY <1>0, <2>4, <3>1, <4>1, <4>3, <6>1 DEF Contiguous
        <5>. QED  BY <5>1, <5>2
      <4>. QED  BY <2>3, <3>1, <4>1, <4>4
    <3>. QED  BY <2>3, <3>2, <3>3
  <2>. QED  BY <2>2, <2>4 DEF Contiguous
<1>2. ASSUME pc[p] = "appendPut" PROVE Head(todo[p]) \in Message /\ Head(todo[p]).by = p
  <2>1. pc[p] \in Appending
    BY <1>2 DEF Appending
  <2>2. \E k : Head(todo[p]) = Msg(p, k + 1) /\ Msg(p, k + 1) \in Message
    BY <1>0, <2>1, NextMessage
  <2>. QED  BY <2>2 DEF Msg
<1>3. CASE AppendPut(p)
  <2>1. Contiguous(written)' /\ written' # <<>> /\ Last(written').by = p
    BY <1>0, <1>1, <1>2, <1>3 DEF AppendPut
  <2>2. pc[p] = "appendPut" /\ batch' = batch /\ pc'[p] = IF Len(todo[p]) = 1 THEN "compactGet" ELSE "appendGet"
    BY <1>0, <1>3 DEF AppendPut, TypeOK
  <2>3. ~Silent(p)'
    <3>1. pc[p] \in Appending
      BY <2>2 DEF Appending
    <3>2. \E n \in Nat : \E k \in 0 .. n - 1 : BatchEnd(p, n) /\ Len(todo[p]) = n - k
      BY <1>0, <3>1, NextMessage
    <3>3. batch[p] = "user" => Len(todo[p]) = 1
      BY <3>2 DEF BatchEnd
    <3>. QED  BY <2>2, <3>3 DEF Silent, Appending
  <2>. QED  BY <2>1, <2>3 DEF TurnCurrent
<1>4. CASE UpdateLost(p)
  <2>1. pc'[p] = "done" /\ (written' = written \/ (written' = Append(written, Head(todo[p])) /\ pc[p] = "appendPut"))
    BY <1>0, <1>4 DEF UpdateLost, Answer, TypeOK
  <2>2. Contiguous(written)'
    <3>1. CASE written' = written
      BY <1>0, <3>1
    <3>. QED  BY <1>1, <1>2, <2>1, <3>1
  <2>. QED  BY <2>1, <2>2 DEF TurnCurrent, Silent, Active, Appending
<1>5. CASE ~AppendPut(p) /\ ~UpdateLost(p)
  <2>1. written' = written
    BY <1>0, <1>5, WrittenStays
  <2>2. \/ Silent(p) /\ Silent(p)'
        \/ ~Silent(p) /\ Active(p) /\ ~Silent(p)'
        \/ ~Silent(p)' /\ ~Active(p)'
    <3>. USE <1>0, <1>5 DEF TypeOK, Silent, Active, Appending
    <3>1. CASE Begin(p)  BY <3>1 DEF Begin, CallOK
    <3>2. CASE AppendGet(p)  BY <3>2 DEF AppendGet, Select
    <3>3. CASE CompactGet(p) \/ ReplaceGet(p) \/ Load(p)
      BY <3>3 DEF CompactGet, ReplaceGet, Load, Select
    <3>4. CASE ReplacePut(p)  BY <3>4 DEF ReplacePut, BatchStored, Answer
    <3>5. CASE AgentDone(p)  BY <3>5 DEF AgentDone
    <3>6. CASE AgentFails(p) \/ Update(p) \/ StatementFails(p)
      BY <3>6 DEF AgentFails, Update, StatementFails, Answer
    <3>. QED  BY <3>1, <3>2, <3>3, <3>4, <3>5, <3>6 DEF Step
  <2>. QED  BY <1>0, <2>1, <2>2 DEF TurnCurrent
<1>. QED  BY <1>3, <1>4, <1>5

\* Every step keeps what a sole writer relies on.
LEMMA SoleWriterStep == NativeInv /\ [NativeNext]_nativeVars => SoleWriterInv'
<1>. SUFFICES ASSUME NativeInv, [NativeNext]_nativeVars PROVE SoleWriterInv'
  OBVIOUS
<1>. USE DEF NativeInv, OrderInv, CallsOK
<1>1. ASSUME NEW c \in Call, Begin(c) \/ Step(c), c \in workload, workload' = workload
      PROVE  SoleWriterInv'
  <2>. SUFFICES ASSUME ~OverHttp
       PROVE  Contiguous(written)' /\ \A p \in Prompt : CopyCurrent(p)' /\ TurnCurrent(p)'
    BY <1>1 DEF SoleWriterInv, OverHttp, Prompt
  <2>1. CASE c \in Prompt
    <3>1. ASSUME NEW p \in Prompt, p # c PROVE CopyCurrent(p)' /\ TurnCurrent(p)'
      <4>1. /\ pc'[p] = pc[p] /\ copy'[p] = copy[p] /\ kept'[p] = kept[p] /\ batch'[p] = batch[p]
            /\ seen'[p] = seen[p] /\ todo'[p] = todo[p]
        BY <1>1, <3>1, OthersKept DEF Prompt
      <4>2. Active(p) => row'.messages = row.messages /\ written' = written
        BY <1>1, <3>1, SoleWriter
      <4>3. CopyCurrent(p) /\ TurnCurrent(p)
        BY DEF SoleWriterInv
      <4>4. CopyCurrent(p)'
        <5>1. CASE Active(p)
          BY <4>1, <4>2, <4>3, <5>1 DEF CopyCurrent, Msg
        <5>2. CASE ~Active(p)
          BY <4>1, <4>3, <5>2 DEF CopyCurrent, Msg, Active, Compacting
        <5>. QED  BY <5>1, <5>2
      <4>5. TurnCurrent(p)'
        <5>1. CASE Active(p)
          BY <4>1, <4>2, <4>3, <5>1 DEF TurnCurrent, Silent, Active
        <5>2. CASE ~Active(p)
          <6>1. Silent(p)' => Silent(p)
            BY <4>1 DEF Silent
          <6>2. Silent(p) => \A i \in 1 .. Len(written') : written'[i].by # p
            <7>1. CASE written' = written
              BY <4>3, <7>1 DEF TurnCurrent
            <7>2. CASE Head(todo[c]).by = c /\ Head(todo[c]) \in Message /\ written' = Append(written, Head(todo[c]))
              <8>1. written \in Seq(Message)
                BY DEF TypeOK
              <8>2. \A i \in 1 .. Len(written') : /\ i \notin 1 .. Len(written) => written'[i] = Head(todo[c])
                                                  /\ i \in 1 .. Len(written) => written'[i] = written[i]
                BY <7>2, <8>1
              <8>. QED  BY <3>1, <4>3, <7>2, <8>2 DEF TurnCurrent
            <7>. QED  BY <1>1, <7>1, <7>2, WrittenStays
          <6>3. ~Active(p)'
            BY <4>1, <5>2 DEF Active
          <6>. QED  BY <6>1, <6>2, <6>3 DEF TurnCurrent
        <5>. QED  BY <5>1, <5>2
      <4>. QED  BY <4>4, <4>5
    <3>2. CopyCurrent(c)' /\ TurnCurrent(c)' /\ Contiguous(written)'
      BY <1>1, <2>1, CopyStep, TurnStep
    <3>. QED  BY <3>1, <3>2
  <2>2. CASE c \notin Prompt
    <3>1. ASSUME NEW p \in Prompt
          PROVE  /\ pc'[p] = pc[p] /\ copy'[p] = copy[p] /\ kept'[p] = kept[p] /\ batch'[p] = batch[p]
                 /\ seen'[p] = seen[p] /\ row'.messages = row.messages /\ written' = written
      <4>1. p # c /\ p \in Call
        BY <2>2 DEF Prompt
      <4>. QED  BY <1>1, <2>2, <4>1, OthersKept, SoleWriter
    <3>2. \A p \in Prompt : CopyCurrent(p) /\ TurnCurrent(p)
      BY DEF SoleWriterInv
    <3>3. \A p \in Prompt : CopyCurrent(p)' /\ TurnCurrent(p)'
      BY <3>1, <3>2 DEF CopyCurrent, Msg, TurnCurrent, Silent, Active
    <3>4. Contiguous(written)'
      <4>1. written' = written
        <5>1. CASE \E p \in Prompt : TRUE
          BY <3>1, <5>1
        <5>2. CASE Prompt = {}
          <6>1. Kind[c] # "run" /\ Kind[c] # "append"
            BY <1>1, <2>2 DEF Prompt, OverHttp
          <6>2. pc[c] \notin Appending
            BY <1>1, <6>1 DEF CallOK
          <6>. QED  BY <1>1, <6>2, WrittenStays DEF Appending
        <5>. QED  BY <5>1, <5>2
      <4>. QED  BY <4>1 DEF SoleWriterInv, Contiguous
    <3>. QED  BY <3>3, <3>4
  <2>. QED  BY <2>1, <2>2
<1>2. ASSUME UNCHANGED <<row, written, copy, kept, batch, seen, made, workload>>,
             \A c \in Call : pc'[c] = pc[c] \/ pc'[c] = "done"
      PROVE  SoleWriterInv'
  <2>1. ASSUME NEW p \in Prompt, CopyCurrent(p), TurnCurrent(p) PROVE CopyCurrent(p)' /\ TurnCurrent(p)'
    <3>1. pc'[p] = pc[p] \/ pc'[p] = "done"
      BY <1>2 DEF Prompt
    <3>. QED  BY <1>2, <2>1, <3>1 DEF CopyCurrent, Msg, TurnCurrent, Silent, Active, Appending, Compacting
  <2>. QED  BY <1>2, <2>1 DEF SoleWriterInv, OverHttp, Prompt, Contiguous
<1>3. ASSUME NEW c \in Call, Answer(c, "error") PROVE \A d \in Call : pc'[d] = pc[d] \/ pc'[d] = "done"
  BY <1>3 DEF Answer, TypeOK
<1>. QED  BY <1>1, <1>2, <1>3, Moves DEF vars

\* The invariant holds of an empty row and idle calls.
LEMMA NativeInvInit == NativeInit => NativeInv
<1>. SUFFICES ASSUME NativeInit PROVE NativeInv
  OBVIOUS
<1>1. /\ row = EmptyRow /\ written = <<>> /\ pc = [c \in Call |-> "idle"] /\ todo = [c \in Call |-> <<>>]
      /\ copy = [c \in Call |-> EmptyRow] /\ kept = [c \in Call |-> <<>>]
      /\ batch = [c \in Call |-> "user"] /\ seen = [c \in Call |-> <<>>]
      /\ made = [c \in Call |-> 0]
      /\ reply = [c \in Call |-> "none"] /\ holder = [s \in {TheSession} |-> NoCall] /\ workload \in Workloads
  BY DEF NativeInit, Init, Lock!Init
<1>2. EmptyRow \in Row /\ EmptyRow.messages = <<>>
  BY DEF EmptyRow, Row
<1>3. TypeOK
  BY <1>1, <1>2, NativeAssumption DEF TypeOK, Stage
<1>4. \A c \in Call : CallOK(c)
  BY <1>1 DEF CallOK, Appending, Compacting
<1>5. \A x : ~Contains(<<>>, x)
  BY DEF Contains
<1>6. AllOrdered /\ \A c \in Call : Behind(c)
  BY <1>1, <1>2, <1>5 DEF AllOrdered, Ordered, Behind, Held
<1>7. LockHeld
  BY <1>1 DEF LockHeld, Active, Prompt
<1>8. SoleWriterInv
  BY <1>1 DEF SoleWriterInv, Contiguous, CopyCurrent, TurnCurrent, Silent, Active, Appending, Compacting, Prompt
<1>. QED  BY <1>3, <1>4, <1>6, <1>7, <1>8 DEF NativeInv, OrderInv, CallsOK

\* The three layers together are an invariant.
LEMMA NativeInvariant == NativeSpec => []NativeInv
<1>1. NativeInv /\ [NativeNext]_nativeVars => NativeInv'
  BY OrderStep, LockStep, SoleWriterStep DEF NativeInv
<1>. QED  BY <1>1, NativeInvInit, PTL DEF NativeSpec

-----------------------------------------------------------------------------
\* The row never holds a message twice, the messages of a call out of order
\* or a summary inside, whoever writes it and whatever writes are lost.
THEOREM RowStaysOrdered == NativeSpec => []RowOrdered
<1>1. NativeInv => RowOrdered
  <2>. SUFFICES ASSUME NativeInv PROVE RowOrdered
    OBVIOUS
  <2>1. Ordered(row.messages)
    BY DEF NativeInv, OrderInv, AllOrdered
  <2>2. ASSUME NEW i \in 1 .. Len(row.messages), row.messages[i] \in Range(SummaryPrefix), i # 1 PROVE FALSE
    <3>1. row.messages \in Seq(Entry)
      BY DEF NativeInv, OrderInv, CallsOK, TypeOK, Row
    <3>2. i \in 2 .. Len(row.messages)
      BY <2>2, <3>1
    <3>3. row.messages[i] \in Message
      BY <2>1, <3>2 DEF Ordered
    <3>4. PICK j \in 1 .. Len(SummaryPrefix) : row.messages[i] = SummaryPrefix[j]
      BY <2>2, Entries DEF Range
    <3>. QED  BY <3>3, <3>4, EntryCases
  <2>. QED  BY <2>1, <2>2 DEF RowOrdered, Ordered
<1>. QED  BY <1>1, NativeInvariant, PTL

\* Through the native protocol alone, the messages of a prompt are written
\* without those of another between them.
THEOREM TurnsStayTogether == NativeSpec => []TurnsContiguous
<1>1. NativeInv => TurnsContiguous
  BY DEF NativeInv, SoleWriterInv, Contiguous, TurnsContiguous
<1>. QED  BY <1>1, NativeInvariant, PTL

\* Through the native protocol alone, the agent of a prompt is started on a
\* transcript that ends in its prompt, however it was compacted.
THEOREM AgentStartsFromPrompt == NativeSpec => []AgentSeesPrompt
<1>1. NativeInv => AgentSeesPrompt
  BY DEF NativeInv, SoleWriterInv, CopyCurrent, AgentSeesPrompt
<1>. QED  BY <1>1, NativeInvariant, PTL

\* A prompt is answered with success only when its message and the whole
\* trace of its agent are written.
THEOREM SuccessIsComplete == NativeSpec => []AckedTurnStored
<1>1. ASSUME NativeInv, NEW p \in Prompt, reply[p] = "ok"
      PROVE  made[p] > 0 /\ \A i \in 1 .. 1 + made[p] : Contains(written, Msg(p, i))
  <2>1. made[p] \in TraceLen /\ Wrote(p, 1 + made[p])
    BY <1>1 DEF NativeInv, OrderInv, CallsOK, CallOK, Prompt
  <2>2. made[p] \in Nat \ {0}
    BY <2>1, StoreAssumption
  <2>. QED  BY <2>1, <2>2 DEF Wrote
<1>2. NativeInv => AckedTurnStored
  BY <1>1 DEF AckedTurnStored
<1>. QED  BY <1>2, NativeInvariant, PTL

\* All statements of all calls together implement the transcript: each writes
\* one message at the end, forgets the oldest ones, or changes nothing.
THEOREM ImplementsTranscript == NativeSpec => TranscriptSpec
<1>1. NativeInit => Abstract!Init
  BY DEF NativeInit, Init, EmptyRow, Abstract!Init
<1>2. NativeInv /\ [NativeNext]_nativeVars => [Abstract!Next]_(Abstract!transcriptVars)
  <2>. SUFFICES ASSUME NativeInv, [NativeNext]_nativeVars PROVE [Abstract!Next]_(Abstract!transcriptVars)
    OBVIOUS
  <2>. USE DEF NativeInv, OrderInv, CallsOK
  <2>1. workload' = workload
    BY Moves DEF vars
  <2>2. OverHttp' = OverHttp
    BY <2>1 DEF OverHttp
  <2>3. CASE OverHttp
    BY <2>2, <2>3 DEF Abstract!transcriptVars
  <2>4. CASE ~OverHttp
    <3>1. CASE row'.messages = row.messages /\ written' = written
      BY <2>2, <2>4, <3>1 DEF Abstract!transcriptVars
    <3>2. ASSUME NEW c \in Call, Begin(c) \/ Step(c), c \in workload,
                 ~(row'.messages = row.messages /\ written' = written)
          PROVE  [Abstract!Next]_(Abstract!transcriptVars)
      <4>1. c \in Prompt /\ CopyCurrent(c)
        <5>1. ASSUME c \notin Prompt PROVE FALSE
          <6>1. Kind[c] # "run" /\ Kind[c] # "append"
            BY <2>4, <3>2, <5>1 DEF Prompt, OverHttp
          <6>2. pc[c] \notin Appending \cup Compacting
            BY <6>1 DEF CallOK
          <6>3. row' = row \/ row' = Updated(c)
            BY <3>2, <6>2 DEF Appending, Compacting, Begin, Step, AppendGet, AppendPut, CompactGet, ReplaceGet,
               ReplacePut, Load, Select, AgentDone, AgentFails, Update, StatementFails, UpdateLost
          <6>4. written' = written
            BY <3>2, <6>2, WrittenStays DEF Appending
          <6>. QED  BY <3>2, <6>3, <6>4, Rows
        <5>. QED  BY <2>4, <5>1 DEF SoleWriterInv
      <4>2. CASE written' # written
        <5>1. /\ pc[c] = "appendPut" /\ Head(todo[c]) \in Message
              /\ written' = Append(written, Head(todo[c])) /\ row' = Appended(c)
          BY <3>2, <4>2, WrittenStays
        <5>2. row'.messages = Append(row.messages, Head(todo[c]))
          BY <4>1, <5>1, Rows DEF CopyCurrent
        <5>3. Abstract!Write(Head(todo[c]))
          BY <2>2, <2>4, <5>1, <5>2 DEF Abstract!Write
        <5>. QED  BY <5>1, <5>3 DEF Abstract!Next
      <4>3. CASE written' = written
        <5>1. pc[c] # "appendPut" \/ ~(AppendPut(c) \/ UpdateLost(c))
          <6>1. Append(written, Head(todo[c])) # written
            <7>1. written \in Seq(Message) /\ Len(written) \in Nat
              BY DEF TypeOK
            <7>2. Len(Append(written, Head(todo[c]))) = Len(written) + 1
              BY <7>1
            <7>. QED  BY <7>1, <7>2
          <6>. QED  BY <4>3, <6>1 DEF AppendPut, UpdateLost
        <5>2. \/ row' = row \/ row' = Updated(c)
              \/ pc[c] = "replacePut" /\ row' = Replaced(c)
          BY <3>2, <5>1 DEF Begin, Step, AppendGet, AppendPut, CompactGet, ReplaceGet,
             ReplacePut, Load, Select, AgentDone, AgentFails, Update, StatementFails, UpdateLost
        <5>3. row'.messages = C!Compress(row.messages, Window)
          BY <3>2, <4>1, <4>3, <5>2, Rows DEF CopyCurrent
        <5>4. row.messages \in Seq(Entry)
          BY <3>2, Rows
        <5>5. PICK k \in 1 .. Len(row.messages) - 1 :
                 row'.messages = SummaryPrefix \o SubSeq(row.messages, Len(row.messages) - k + 1, Len(row.messages))
          BY <3>2, <4>3, <5>3, <5>4, Compressed
        <5>6. Abstract!Forget(k)
          BY <2>2, <2>4, <4>3, <5>5 DEF Abstract!Forget
        <5>. QED  BY <2>4, <5>5, <5>6 DEF Abstract!Next
      <4>. QED  BY <4>2, <4>3
    <3>. QED  BY <3>1, <3>2, Moves DEF vars
  <2>. QED  BY <2>3, <2>4
<1>. QED  BY <1>1, <1>2, NativeInvariant, PTL DEF NativeSpec, TranscriptSpec, Abstract!Spec
=============================================================================
