------------------------ MODULE SessionServiceProofs ------------------------
(***************************************************************************)
(* The service with one caller, for any roles, lengths, windows, batches    *)
(* and summary: the scan of a compaction is the longest newest part that    *)
(* fits, a second compaction changes nothing, what is left fits, and the    *)
(* service implements the transcript.                                       *)
(*                                                                         *)
(* The properties of one compaction are theorems of CompressionProofs about *)
(* any transcript; here they are shown to apply to all that are reached.    *)
(* That a batch which was stored fits also needs to know that no summary is *)
(* left behind inside of a transcript (SummaryInFront) and that the record  *)
(* a compaction has read is still that of the session, its window apart     *)
(* (ReadIsLog); the refinement, that no message is written beyond the       *)
(* history (Room).                                                          *)
(***************************************************************************)
EXTENDS SessionService, SequenceTheorems, TLAPS

CP == INSTANCE CompressionProofs

\* The messages of a record: those that were written, and the summary.
Stored == Message \cup {SummaryPrefix[i] : i \in 1 .. Len(SummaryPrefix)}

TypeOK == /\ log \in Seq(Stored)
          /\ history \in Seq(Message)
          /\ window \in Windows
          /\ todo \in Seq(Role)
          /\ pc \in {"idle", "append", "compact"}
          /\ recent \subseteq Windows

\* There is room for the rest of the batch.
Room == Len(history) + Len(todo) <= MaxHistory

\* Only the first message may be a summary.
SummaryInFront == \A i \in 2 .. Len(log) : log[i] \in Message

\* Nobody else writes the transcript during a compaction, and the windows that
\* matter to it are remembered.
ReadIsLog == /\ pc = "compact" => read.messages = log /\ read.window \in recent
             /\ pc = "append" => window \in recent

ServiceInv == TypeOK /\ Room /\ SummaryInFront /\ ReadIsLog /\ CompactedFits

-----------------------------------------------------------------------------
(* Compress is that of CompressionProofs, and its theorems apply.           *)

LEMMA SameOperators ==
  /\ \A m, w : C!Compress(m, w) = CP!Compress(m, w)
  /\ \A m, l : C!Kept(m, l) = CP!Kept(m, l) /\ C!LongestThatFits(m, l) = CP!LongestThatFits(m, l)
  /\ \A m : C!Tokens(m) = CP!Tokens(m)
  /\ \A w : C!Limit(w) = CP!Limit(w) /\ CP!Limit(w) = w - ReserveOutput
BY DEF C!Compress, CP!Compress, C!Kept, CP!Kept, C!Limit, CP!Limit, C!Newest, CP!Newest,
       C!MessageTokens, CP!MessageTokens, C!Tokens, CP!Tokens, C!LongestThatFits, CP!LongestThatFits

LEMMA SummaryStored ==
  /\ CP!Sized(Stored)
  /\ SummaryPrefix \in Seq(Stored)
  /\ Len(SummaryPrefix) \in {0, 1}
  /\ \A i \in 1 .. Len(SummaryPrefix) : SummaryPrefix[i] \notin Message
<1>1. \A m \in Message : m.chars \in Nat
  BY ServiceAssumption DEF Message
<1>2. CASE SummaryPrefix = <<>>
  BY <1>1, <1>2 DEF CP!Sized, Stored
<1>3. CASE SummaryPrefix # <<>>
  <2>. DEFINE m == SummaryPrefix[1]
  <2>1. m.chars \in Nat /\ m \notin Message /\ SummaryPrefix = <<m>>
    BY <1>3, SummaryAssumption
  <2>. HIDE DEF m
  <2>2. Len(SummaryPrefix) = 1 /\ SummaryPrefix[1] = m
    BY <2>1
  <2>3. Stored = Message \cup {m}
    BY <2>2 DEF Stored
  <2>4. SummaryPrefix \in Seq(Stored)
    BY <2>1, <2>3
  <2>. QED  BY <1>1, <2>1, <2>2, <2>3, <2>4 DEF CP!Sized
<1>. QED  BY <1>2, <1>3

\* The numbers a compaction works with.
LEMMA Numbers ==
  \A w \in Windows : w \in Int /\ ReserveOutput \in Int /\ CP!Limit(w) \in Int
BY ServiceAssumption DEF CP!Limit

\* What a compaction does to the transcript.
LEMMA CompactCuts ==
  ASSUME TypeOK, NEW w \in Windows
  PROVE  /\ C!Compress(log, w) \in Seq(Stored)
         /\ \/ C!Compress(log, w) = log
            \/ \E k \in 1 .. Len(log) - 1 :
                 C!Compress(log, w) = SummaryPrefix \o SubSeq(log, Len(log) - k + 1, Len(log))
<1>1. /\ CP!Compress(log, w) \in Seq(Stored)
      /\ \/ CP!Compress(log, w) = log
         \/ \E k \in 1 .. Len(log) - 1 :
              CP!Compress(log, w) = SummaryPrefix \o CP!Newest(log, k)
  BY CP!CompressCuts, SummaryStored, Numbers DEF TypeOK
<1>. QED  BY <1>1, SameOperators DEF CP!Newest

-----------------------------------------------------------------------------
(* What one compaction leaves.                                              *)

\* The transcript a compaction leaves fits the window it was made for.
LEMMA CompactFits ==
  ASSUME TypeOK, SummaryInFront, NEW w \in Windows, NEW new, new = C!Compress(log, w)
  PROVE  Fits(new, w)
<1>. SUFFICES ASSUME ~(w <= ReserveOutput)
     PROVE  Len(Written(new)) <= 1 \/ CP!Tokens(Written(new)) <= w - ReserveOutput
  BY SameOperators DEF Fits
<1>2. new = CP!Compress(log, w)
  BY SameOperators
<1>. DEFINE limit == CP!Limit(w)
            k == CP!Kept(log, limit)
<1>3. log \in Seq(Stored) /\ limit \in Int /\ limit > 0 /\ limit = w - ReserveOutput
  BY Numbers, SameOperators, ServiceAssumption DEF TypeOK
<1>. HIDE DEF limit
<1>4. k \in 0 .. Len(log) /\ (k <= 1 \/ CP!Tokens(CP!Newest(log, k)) <= limit)
  BY <1>3, SummaryStored, CP!KeptRange
<1>5. \/ new = log /\ k = Len(log)
      \/ k \in 1 .. Len(log) - 1 /\ new = SummaryPrefix \o CP!Newest(log, k)
  <2>1. \/ /\ CP!Compress(log, w) = log
           /\ limit <= 0 \/ k = Len(log)
        \/ \E i \in 1 .. Len(log) - 1 :
             i = k /\ limit > 0 /\ CP!Compress(log, w) = SummaryPrefix \o CP!Newest(log, i)
    BY <1>3, SummaryStored, Numbers, CP!CompressCuts DEF limit
  <2>. QED  BY <1>2, <1>3, <2>1
<1>. HIDE DEF k
<1>6. CASE new = log /\ k = Len(log)
  <2>1. CP!Newest(log, k) = log
    BY <1>3, <1>6, SubSeqFull DEF CP!Newest
  <2>2. CASE Written(log) = log
    BY <1>3, <1>4, <1>6, <2>1, <2>2
  <2>3. CASE Written(log) # log
    <3>1. log # <<>> /\ Written(log) = Tail(log) /\ k - 1 \in 0 .. Len(log) /\ k \in k - 1 .. Len(log)
      BY <1>3, <1>6, <2>3 DEF Written
    <3>2. Tail(log) = CP!Newest(log, k - 1) /\ Len(Tail(log)) = k - 1
      BY <1>3, <1>6, <3>1, TailIsSubSeq, HeadTailProperties DEF CP!Newest
    <3>3. /\ CP!Tokens(CP!Newest(log, k - 1)) \in Nat /\ CP!Tokens(CP!Newest(log, k)) \in Nat
          /\ CP!Tokens(CP!Newest(log, k - 1)) <= CP!Tokens(CP!Newest(log, k))
      BY <1>3, <3>1, SummaryStored, CP!TokensMonotonic
    <3>4. CASE k <= 1
      BY <1>6, <3>1, <3>2, <3>4
    <3>5. CASE CP!Tokens(CP!Newest(log, k)) <= limit
      <4>1. CP!Tokens(Written(log)) <= limit
        <5>1. CP!Tokens(CP!Newest(log, k - 1)) <= limit
          BY <1>3, <3>3, <3>5
        <5>2. Written(log) = CP!Newest(log, k - 1)
          BY <3>1, <3>2
        <5>. QED  BY <5>1, <5>2, Zenon
      <4>. QED  BY <1>3, <1>6, <4>1
    <3>. QED  BY <1>4, <3>4, <3>5
  <2>. QED  BY <2>2, <2>3
<1>7. CASE k \in 1 .. Len(log) - 1 /\ new = SummaryPrefix \o CP!Newest(log, k)
  <2>. DEFINE part == CP!Newest(log, k)
  <2>1. part \in Seq(Stored) /\ Len(part) = k /\ part[1] = log[Len(log) - k + 1]
    BY <1>3, <1>7, CP!NewestPart
  <2>2. part # <<>> /\ Head(part) = part[1] /\ part[1] \in Message
    BY <1>3, <1>7, <2>1 DEF SummaryInFront
  <2>3. new = SummaryPrefix \o part
    BY <1>7
  <2>4. Len(part) <= 1 \/ CP!Tokens(part) <= limit
    BY <1>4, <2>1
  <2>. HIDE DEF part
  <2>5. CASE SummaryPrefix = <<>>
    <3>1. new = part
      BY <2>1, <2>3, <2>5, ConcatEmptySeq
    <3>. QED  BY <1>3, <2>2, <2>4, <3>1 DEF Written
  <2>6. CASE SummaryPrefix # <<>>
    <3>1. PICK m : SummaryPrefix = <<m>> /\ m \notin Message /\ m \in Stored
      BY <2>6, SummaryAssumption, SummaryStored
    <3>2. new # <<>> /\ Head(new) = m /\ Tail(new) = part
      BY <2>1, <2>3, <3>1
    <3>. QED  BY <1>3, <2>4, <3>1, <3>2 DEF Written
  <2>. QED  BY <2>5, <2>6
<1>. QED  BY <1>5, <1>6, <1>7

\* A compaction leaves no summary inside of the transcript.
LEMMA CompactFront ==
  ASSUME TypeOK, SummaryInFront, NEW w \in Windows, NEW new, new = C!Compress(log, w)
  PROVE  \A i \in 2 .. Len(new) : new[i] \in Message
<1>. USE DEF TypeOK, SummaryInFront
<1>1. CASE new = log
  BY <1>1
<1>2. ASSUME NEW k \in 1 .. Len(log) - 1,
             new = SummaryPrefix \o SubSeq(log, Len(log) - k + 1, Len(log))
      PROVE  \A i \in 2 .. Len(new) : new[i] \in Message
  <2>. DEFINE part == SubSeq(log, Len(log) - k + 1, Len(log))
  <2>1. /\ part \in Seq(Stored) /\ Len(part) = k
        /\ \A i \in 1 .. k : part[i] = log[Len(log) - k + i]
    BY CP!NewestPart DEF CP!Newest
  <2>4. new = SummaryPrefix \o part
    BY <1>2
  <2>. HIDE DEF part
  <2>2. \A i \in 1 .. k : part[i] \in Message
    <3>1. \A i \in 1 .. k : Len(log) - k + i \in 2 .. Len(log)
      OBVIOUS
    <3>. QED  BY <2>1, <3>1
  <2>3. /\ Len(new) = Len(SummaryPrefix) + k
        /\ \A i \in 1 .. Len(SummaryPrefix) + k :
             new[i] = IF i <= Len(SummaryPrefix) THEN SummaryPrefix[i] ELSE part[i - Len(SummaryPrefix)]
    <3>1. part \in Seq(Stored) /\ SummaryPrefix \in Seq(Stored)
      BY <2>1, SummaryStored
    <3>2. /\ Len(SummaryPrefix \o part) = Len(SummaryPrefix) + Len(part)
          /\ \A i \in 1 .. Len(SummaryPrefix) + Len(part) :
               (SummaryPrefix \o part)[i]
                 = IF i <= Len(SummaryPrefix) THEN SummaryPrefix[i] ELSE part[i - Len(SummaryPrefix)]
      BY <3>1, ConcatProperties
    <3>. QED  BY <2>1, <2>4, <3>2
  <2>5. ASSUME NEW i \in 2 .. Len(new) PROVE new[i] \in Message
    <3>1. ~(i <= Len(SummaryPrefix)) /\ i - Len(SummaryPrefix) \in 1 .. k
      BY <2>3, SummaryStored
    <3>2. new[i] = part[i - Len(SummaryPrefix)]
      BY <2>3, <3>1, SummaryStored
    <3>. QED  BY <2>2, <3>1, <3>2
  <2>. QED  BY <2>5
<1>. QED  BY <1>1, <1>2, CompactCuts

-----------------------------------------------------------------------------
(* The invariant.                                                           *)

LEMMA ServiceInit == Init => ServiceInv
BY ServiceAssumption DEF Init, ServiceInv, TypeOK, Room, SummaryInFront, ReadIsLog,
   CompactedFits, Nothing

\* A message is stored: it is the newest, so the summary stays in front.
LEMMA StoreAppendInv == ASSUME ServiceInv, StoreAppend PROVE ServiceInv'
<1>. USE DEF ServiceInv, TypeOK, Room, SummaryInFront
<1>1. PICK n \in Chars : /\ log' = Append(log, [id |-> Len(history) + 1, role |-> Head(todo), chars |-> n])
                         /\ history' = Append(history, [id |-> Len(history) + 1, role |-> Head(todo), chars |-> n])
  BY DEF StoreAppend
<1>. DEFINE m == [id |-> Len(history) + 1, role |-> Head(todo), chars |-> n]
<1>2. /\ todo # <<>> /\ recent' = {window} /\ window' = window
      /\ \/ todo' = Tail(todo) /\ pc' = "append" /\ reply' = reply
         \/ todo' = <<>> /\ pc' = "idle" /\ reply' = "error"
  BY DEF StoreAppend, Return
<1>3. Head(todo) \in Role /\ Tail(todo) \in Seq(Role) /\ Len(Tail(todo)) = Len(todo) - 1
  BY <1>2, HeadTailProperties
<1>4. Len(history) + 1 \in 1 .. MaxHistory
  BY <1>2, ServiceAssumption
<1>5. m \in Message /\ m \in Stored
  BY <1>3, <1>4 DEF Message, Stored
<1>. HIDE DEF m
<1>6. log' = Append(log, m) /\ history' = Append(history, m)
  BY <1>1 DEF m
<1>7. log' \in Seq(Stored) /\ history' \in Seq(Message) /\ Len(history') = Len(history) + 1
  BY <1>5, <1>6
<1>8. \A i \in 2 .. Len(log') : log'[i] \in Message
  BY <1>5, <1>6, AppendProperties
<1>9. TypeOK' /\ SummaryInFront'
  <2>1. todo' \in Seq(Role)
    <3>1. todo' = Tail(todo) \/ todo' = <<>>
      BY <1>2
    <3>2. <<>> \in Seq(Role) /\ Tail(todo) \in Seq(Role)
      BY <1>3
    <3>. QED  BY <3>1, <3>2
  <2>2. recent' \subseteq Windows /\ window' \in Windows /\ pc' \in {"idle", "append", "compact"}
    BY <1>2
  <2>. QED  BY <1>7, <1>8, <2>1, <2>2
<1>10. Room'
  <2>1. Len(history') = Len(history) + 1 /\ Len(todo') \in {Len(todo) - 1, 0}
    BY <1>2, <1>3, <1>7
  <2>. QED  BY <1>2, <1>4, <2>1, ServiceAssumption
<1>11. ReadIsLog' /\ CompactedFits'
  BY <1>2 DEF ReadIsLog, CompactedFits
<1>. QED  BY <1>9, <1>10, <1>11

\* The transcript that is written fits the window that was read.
LEMMA CompactPutInv == ASSUME ServiceInv, CompactPut PROVE ServiceInv'
<1>1. /\ read.messages = log /\ read.window \in recent /\ read.window \in Windows
      /\ log' = C!Compress(log, read.window)
  BY DEF ServiceInv, ReadIsLog, TypeOK, CompactPut
<1>2. UNCHANGED <<history, window, recent>> /\ todo' = <<>> /\ pc' = "idle"
  BY DEF CompactPut, Return
<1>3. log' \in Seq(Stored)
  BY <1>1, CompactCuts DEF ServiceInv
<1>4. \A i \in 2 .. Len(log') : log'[i] \in Message
  BY <1>1, CompactFront DEF ServiceInv
<1>5. Fits(log', read.window)
  BY <1>1, CompactFits DEF ServiceInv
<1>6. TypeOK'
  BY <1>2, <1>3 DEF ServiceInv, TypeOK
<1>7. Room'
  <2>1. Len(history) \in Nat /\ Len(todo) \in Nat /\ Len(history) + Len(todo) <= MaxHistory
    BY DEF ServiceInv, TypeOK, Room
  <2>2. Len(history') = Len(history) /\ Len(todo') = 0
    BY <1>2
  <2>. QED  BY <2>1, <2>2, ServiceAssumption DEF Room
<1>8. SummaryInFront' /\ ReadIsLog'
  BY <1>2, <1>4 DEF SummaryInFront, ReadIsLog
<1>9. CompactedFits'
  BY <1>1, <1>2, <1>5 DEF CompactedFits, Fits, Written
<1>. QED  BY <1>6, <1>7, <1>8, <1>9 DEF ServiceInv

LEMMA ServiceStep == ServiceInv /\ [Next]_vars => ServiceInv'
<1>. SUFFICES ASSUME ServiceInv, [Next]_vars PROVE ServiceInv'
  OBVIOUS
<1>. USE DEF ServiceInv, TypeOK, Room, SummaryInFront, ReadIsLog, CompactedFits, Fits, Written
<1>1. ASSUME NEW batch \in Batches, AppendMessages(batch) PROVE ServiceInv'
  BY <1>1, ServiceAssumption DEF AppendMessages
<1>2. CASE CompactGet
  BY <1>2 DEF CompactGet
<1>3. CASE CallFails
  <2>1. Len(todo) \in Nat /\ Len(history) \in Nat
    OBVIOUS
  <2>2. /\ todo' = <<>> /\ Len(todo') = 0 /\ pc' = "idle" /\ reply' = "error"
        /\ UNCHANGED <<log, history, window, recent>>
    BY <1>3 DEF CallFails, Return
  <2>3. Room'
    BY <2>1, <2>2, ServiceAssumption
  <2>. QED  BY <2>2, <2>3
<1>4. ASSUME NEW w \in Windows, SetModel(w) PROVE ServiceInv'
  BY <1>4 DEF SetModel
<1>5. CASE UNCHANGED vars  BY <1>5 DEF vars
<1>. QED  BY <1>1, <1>2, <1>3, <1>4, <1>5, StoreAppendInv, CompactPutInv DEF Next

LEMMA ServiceInvariant == Spec => []ServiceInv
BY ServiceInit, ServiceStep, PTL DEF Spec

-----------------------------------------------------------------------------
\* Whatever was written before and whatever the window is, the scan finds the
\* longest newest part of the transcript that fits.
THEOREM ScansLongest == Spec => []ScanIsLongest
<1>1. ServiceInv => ScanIsLongest
  BY CP!KeptIsLongest, SummaryStored, Numbers, SameOperators DEF ServiceInv, TypeOK, ScanIsLongest
<1>. QED  BY <1>1, ServiceInvariant, PTL

\* Compacting a transcript a second time, in the same window, changes nothing.
THEOREM CompactsOnce == Spec => []CompactIdempotent
<1>1. ServiceInv => CompactIdempotent
  <2>1. TypeOK => CP!Compress(CP!Compress(log, window), window) = CP!Compress(log, window)
    BY CP!CompressTwice, SummaryStored, Numbers DEF TypeOK
  <2>. QED  BY <2>1, SameOperators DEF ServiceInv, CompactIdempotent
<1>. QED  BY <1>1, ServiceInvariant, PTL

\* A batch whose caller is told that it is stored fits a window that was in
\* force since its last message, the summary aside.
THEOREM LeavesReserve == Spec => []CompactedFits
<1>1. ServiceInv => CompactedFits
  BY DEF ServiceInv
<1>. QED  BY <1>1, ServiceInvariant, PTL

\* The service implements the transcript: each append writes one message at
\* the end, each compaction forgets the oldest ones or nothing.
THEOREM ImplementsTranscript == Spec => TranscriptSpec
<1>1. Init => T!Init
  BY DEF Init, T!Init
<1>2. ServiceInv /\ [Next]_vars => [T!Next]_(T!transcriptVars)
  <2>. SUFFICES ASSUME ServiceInv, [Next]_vars PROVE [T!Next]_(T!transcriptVars)
    OBVIOUS
  <2>1. CASE StoreAppend
    <3>1. PICK n \in Chars : /\ log' = Append(log, [id |-> Len(history) + 1, role |-> Head(todo), chars |-> n])
                             /\ history' = Append(history, [id |-> Len(history) + 1, role |-> Head(todo), chars |-> n])
      BY <2>1 DEF StoreAppend
    <3>. DEFINE m == [id |-> Len(history) + 1, role |-> Head(todo), chars |-> n]
    <3>2. Head(todo) \in Role /\ Len(history) + 1 \in 1 .. MaxHistory
      BY <2>1, ServiceAssumption, HeadTailProperties DEF StoreAppend, ServiceInv, TypeOK, Room
    <3>3. m \in Message
      BY <3>2 DEF Message
    <3>4. T!Write(m)
      BY <3>1 DEF T!Write
    <3>. QED  BY <3>3, <3>4 DEF T!Next
  <2>2. CASE CompactPut
    <3>1. log' = C!Compress(log, read.window) /\ read.window \in Windows /\ UNCHANGED history
      BY <2>2 DEF CompactPut, ServiceInv, ReadIsLog, TypeOK
    <3>2. CASE log' = log
      BY <3>1, <3>2 DEF T!transcriptVars
    <3>3. ASSUME NEW k \in 1 .. Len(log) - 1,
                 log' = SummaryPrefix \o SubSeq(log, Len(log) - k + 1, Len(log))
          PROVE  T!Next
      BY <3>1, <3>3 DEF T!Next, T!Forget
    <3>. QED  BY <3>1, <3>2, <3>3, CompactCuts DEF ServiceInv
  <2>3. CASE UNCHANGED <<log, history>>
    BY <2>3 DEF T!transcriptVars
  <2>4. (\E batch \in Batches : AppendMessages(batch)) \/ CompactGet \/ CallFails
           \/ (\E w \in Windows : SetModel(w)) \/ UNCHANGED vars => UNCHANGED <<log, history>>
    BY DEF AppendMessages, CompactGet, CallFails, SetModel, vars
  <2>. QED  BY <2>1, <2>2, <2>3, <2>4 DEF Next
<1>. QED  BY <1>1, <1>2, ServiceInvariant, PTL DEF Spec, TranscriptSpec, T!Spec
=============================================================================
