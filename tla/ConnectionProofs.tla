-------------------------- MODULE ConnectionProofs --------------------------
(***************************************************************************)
(* Who gets which answer: the client of an MCP server, whose one pipe is    *)
(* shared by all calls, and the server of the native protocol, one          *)
(* connection of which is shared by all requests.                           *)
(*                                                                         *)
(* The MCP client, for any number of calls, whatever the server answers,    *)
(* says of its own or leaves unanswered, and whatever the readers of        *)
(* cancelled calls take away.  AnswerInv says that what is on its way is    *)
(* the answer to the request it names, and that no two calls have the same  *)
(* request; HandshakeInv that the handshake is the business of the call     *)
(* that holds the mutex.                                                    *)
(*                                                                         *)
(* A connection, for any messages, any number of requests on it and any     *)
(* interleaving of their goroutines: each request is told its progress, the *)
(* session and one response, in this order.  That is not inductive: a       *)
(* response may be sent because of where its goroutine is.  OrderInv says   *)
(* for each place of a goroutine what its client has been told by then, and *)
(* that nothing is told of requests that have not been started.             *)
(*                                                                         *)
(* The requests are those of the messages.  From the bytes: the digits of a *)
(* length that fits are the number in the header (NumberOfHeader), each     *)
(* frame lies at its place in the bytes of a message (PartsLieInWhole), and *)
(* what is decoded from the place of a frame is that frame and what is      *)
(* decoded behind it, from the last frame to the first (DecodeOfEncoded).   *)
(* The recursive functions of Framing and FlattenSeq are shown to exist and *)
(* to have the values of their equations by induction on sets of numbers    *)
(* (Recursion, FollowsSteps, Decoding).  StartedInv says of each frame of   *)
(* the newest message that it was taken or is left in the queue, and that   *)
(* the requests are, in order, those of the frames that were taken.         *)
(***************************************************************************)
EXTENDS McpClient, NativeConnection, SequenceTheorems, FiniteSetTheorems, WellFoundedInduction, TLAPS

LineKinds == {"noise", "eof", "result", "error", "request"}

AnyLine == [id : Nat, is : LineKinds, of : Nat]

Stage == {"idle", "ensure", "ready", "send", "await", "notify", "done", "failed"}

\* What the client writes.
Request == {"initialize", "call", "initialized"}

TypeOK == /\ mu \in Call \cup {NoCall}
          /\ next \in Nat
          /\ initialized \in BOOLEAN
          /\ pc \in [Call -> Stage]
          /\ id \in [Call -> Nat]
          /\ inbox \in [Call -> {NoLine} \cup {<<line>> : line \in AnyLine}]
          /\ answer \in [Call -> Nat]
          /\ sent \in Seq(Request)
          /\ due \subseteq Nat
          /\ pipe \in Seq(AnyLine)

\* A result is the answer to the request whose id it carries.
Truthful(line) == line.is = "result" => line.of = line.id

\* A request has an id that no other call has.
OwnId(c) == /\ id[c] <= next
            /\ \A d \in Call \ {c} : id[d] # 0 => id[c] # id[d]
            /\ pc[c] \in {"await", "notify", "done"} => id[c] # 0

AnswerInv == /\ TypeOK
             /\ \A i \in 1 .. Len(pipe) : Truthful(pipe[i])
             /\ \A c \in Call : inbox[c] # NoLine => Truthful(Head(inbox[c]))
             /\ \A c \in Call : OwnId(c) /\ (pc[c] = "done" => answer[c] = id[c])

-----------------------------------------------------------------------------
(* Types, and the answers.                                                  *)

\* The lines of the model.
LEMMA Lines ==
  /\ \A i \in Nat, is \in LineKinds, of \in Nat :
       /\ Line(i, is, of) \in AnyLine
       /\ Line(i, is, of).id = i /\ Line(i, is, of).is = is /\ Line(i, is, of).of = of
  /\ Noise \in AnyLine /\ Truthful(Noise)
  /\ \A line \in AnyLine : <<line>> # NoLine /\ Head(<<line>>) = line
BY DEF Line, Noise, AnyLine, Truthful, NoLine, LineKinds

\* What is in the inbox of a call, if anything.
LEMMA Inbox ==
  ASSUME TypeOK, NEW c \in Call, NEW line, inbox[c] = <<line>> \/ line \in ToSet(inbox[c])
  PROVE  line \in AnyLine /\ inbox[c] = <<line>> /\ inbox[c] # NoLine /\ Head(inbox[c]) = line
<1>1. CASE inbox[c] = NoLine
  BY <1>1 DEF NoLine, ToSet
<1>2. CASE inbox[c] # NoLine
  <2>1. PICK l \in AnyLine : inbox[c] = <<l>>
    BY <1>2 DEF TypeOK
  <2>2. line = l
    BY <2>1 DEF ToSet
  <2>. QED  BY <2>1, <2>2, <1>2
<1>. QED  BY <1>1, <1>2

\* One more request in what was sent.
LEMMA SentMore ==
  ASSUME NEW s \in Seq(Request), NEW m \in Request
  PROVE  /\ Append(s, m) \in Seq(Request) /\ Len(Append(s, m)) = Len(s) + 1 /\ Len(s) \in Nat
         /\ \A i \in 1 .. Len(s) : Append(s, m)[i] = s[i]
         /\ Append(s, m)[Len(s) + 1] = m
OBVIOUS

\* Each step keeps the answers right.
LEMMA AnswerStep == AnswerInv /\ [Next]_vars => AnswerInv'
<1>. SUFFICES ASSUME AnswerInv, [Next]_vars PROVE AnswerInv'
  OBVIOUS
<1>. USE DEF AnswerInv, TypeOK, Stage
<1>1. ASSUME NEW c \in Call, Start(c) \/ Lock(c) \/ Cancel(c) \/ Notify(c) PROVE AnswerInv'
  <2>1. /\ UNCHANGED <<next, id, inbox, answer, due, pipe>>
        /\ pc' \in [Call -> Stage] /\ mu' \in Call \cup {NoCall} /\ initialized' \in BOOLEAN
        /\ \A d \in Call : pc'[d] \in {"await", "notify", "done"} => pc'[d] = pc[d]
    BY <1>1 DEF Start, Lock, Hold, Go, Cancel, Notify, Unlock, InitializedNow, client, server
  <2>2. sent' = sent \/ sent' = Append(sent, "initialized")
    BY <1>1 DEF Start, Lock, Cancel, Notify, client, server
  <2>3. sent' \in Seq(Request)
    <3>1. "initialized" \in Request
      BY DEF Request
    <3>2. Append(sent, "initialized") \in Seq(Request)
      BY <3>1, SentMore
    <3>. QED  BY <2>2, <3>2
  <2>. QED  BY <2>1, <2>3 DEF OwnId
<1>2. ASSUME NEW c \in Call, Send(c) PROVE AnswerInv'
  <2>1. /\ pc[c] = "send" /\ next' = next + 1 /\ id' = [id EXCEPT ![c] = next + 1]
        /\ UNCHANGED <<initialized, inbox, answer, pipe>>
        /\ \E at \in {"await", "failed"} : pc' = [pc EXCEPT ![c] = at]
        /\ mu' \in {mu, NoCall} /\ due' \in {due, due \cup {next + 1}}
        /\ sent' \in {sent, Append(sent, Method(c))}
    BY <1>2 DEF Send, Go, Unlock
  <2>2. sent' \in Seq(Request)
    <3>1. Method(c) \in Request
      BY DEF Method, Request
    <3>2. Append(sent, Method(c)) \in Seq(Request)
      BY <3>1, SentMore
    <3>. QED  BY <2>1, <3>2
  <2>3. TypeOK'
    BY <2>1, <2>2
  <2>4. ASSUME NEW d \in Call PROVE OwnId(d)' /\ (pc'[d] = "done" => answer'[d] = id'[d])
    <3>1. \A e \in Call : id[e] \in Nat /\ id[e] <= next /\ (e # c => id'[e] = id[e]) /\ id'[c] = next + 1
      BY <2>1 DEF OwnId
    <3>2. \A e \in Call : id'[e] <= next' /\ (e # c => id[e] # next + 1)
      BY <2>1, <3>1
    <3>3. pc'[d] \in {"await", "notify", "done"} => id'[d] # 0
      BY <2>1, <3>1 DEF OwnId
    <3>4. pc'[d] = "done" => d # c /\ pc[d] = "done"
      BY <2>1
    <3>. QED  BY <2>1, <3>1, <3>2, <3>3, <3>4 DEF OwnId
  <2>. QED  BY <2>1, <2>3, <2>4
<1>3. ASSUME NEW c \in Call, Read(c) PROVE AnswerInv'
  <2>1. /\ UNCHANGED <<mu, next, initialized, pc, id, answer, sent, due>>
        /\ pipe' = pipe \/ (pipe # <<>> /\ pipe' = Tail(pipe))
        /\ \E line : /\ inbox' = [inbox EXCEPT ![c] = <<line>>]
                     /\ line = Line(0, "eof", 0) \/ line = Noise \/ (pipe # <<>> /\ line = Head(pipe))
    BY <1>3 DEF Read
  <2>2. PICK line : /\ inbox' = [inbox EXCEPT ![c] = <<line>>]
                    /\ line = Line(0, "eof", 0) \/ line = Noise \/ (pipe # <<>> /\ line = Head(pipe))
    BY <2>1
  <2>3. line \in AnyLine /\ Truthful(line)
    <3>1. Line(0, "eof", 0) \in AnyLine /\ Truthful(Line(0, "eof", 0))
      BY Lines DEF LineKinds, Truthful
    <3>2. pipe # <<>> => Head(pipe) = pipe[1] /\ 1 \in 1 .. Len(pipe)
      OBVIOUS
    <3>. QED  BY <2>2, <3>1, <3>2, Lines
  <2>4. pipe' \in Seq(AnyLine) /\ \A i \in 1 .. Len(pipe') : Truthful(pipe'[i])
    <3>1. CASE pipe # <<>> /\ pipe' = Tail(pipe)
      <4>1. /\ pipe' \in Seq(AnyLine) /\ Len(pipe') = Len(pipe) - 1
            /\ \A i \in 1 .. Len(pipe') : pipe'[i] = pipe[i + 1]
        BY <3>1, HeadTailProperties
      <4>2. \A i \in 1 .. Len(pipe') : i + 1 \in 1 .. Len(pipe)
        BY <4>1
      <4>. QED  BY <4>1, <4>2
    <3>. QED  BY <2>1, <3>1
  <2>5. /\ inbox' \in [Call -> {NoLine} \cup {<<l>> : l \in AnyLine}]
        /\ \A d \in Call : inbox'[d] # NoLine => Truthful(Head(inbox'[d]))
    <3>1. Head(<<line>>) = line
      OBVIOUS
    <3>2. <<line>> \in {<<l>> : l \in AnyLine}
      BY <2>3
    <3>3. inbox' \in [Call -> {NoLine} \cup {<<l>> : l \in AnyLine}]
      BY <2>2, <3>2
    <3>4. \A d \in Call : inbox'[d] = inbox[d] \/ inbox'[d] = <<line>>
      BY <2>2
    <3>. QED  BY <2>3, <3>1, <3>3, <3>4
  <2>. QED  BY <2>1, <2>4, <2>5 DEF OwnId
<1>4. ASSUME NEW c \in Call, Skip(c) \/ EndOfPipe(c) \/ GiveUp(c) PROVE AnswerInv'
  <2>1. /\ UNCHANGED <<next, initialized, id, answer, sent, due, pipe>>
        /\ pc' = pc \/ pc' = [pc EXCEPT ![c] = "failed"]
        /\ mu' \in {mu, NoCall}
        /\ inbox' = [inbox EXCEPT ![c] = NoLine]
    BY <1>4 DEF Skip, EndOfPipe, GiveUp, Received, Go, Unlock, server
  <2>. QED  BY <2>1 DEF OwnId
<1>5. ASSUME NEW c \in Call, Accept(c) PROVE AnswerInv'
  <2>1. PICK line \in ToSet(inbox[c]) :
          /\ Received(c, line) /\ Answers(c, line)
          /\ UNCHANGED <<next, initialized, id, sent, due, pipe>>
          /\ \/ Go(c, "notify") /\ UNCHANGED <<mu, answer>>
             \/ /\ Go(c, IF line.is = "result" THEN "done" ELSE "failed")
                /\ answer' = [answer EXCEPT ![c] = IF line.is = "result" THEN line.of ELSE 0]
                /\ Unlock
    BY <1>5 DEF Accept, server
  <2>2. line \in AnyLine /\ Truthful(line) /\ line.id = id[c] /\ pc[c] = "await"
    BY <2>1, Inbox DEF Received, Answers
  <2>3. inbox' = [inbox EXCEPT ![c] = NoLine]
    BY <2>1 DEF Received
  <2>4. \E at \in {"notify", "done", "failed"} :
          /\ pc' = [pc EXCEPT ![c] = at]
          /\ at = "done" => line.is = "result" /\ answer' = [answer EXCEPT ![c] = line.of]
          /\ at = "failed" => answer' = [answer EXCEPT ![c] = 0]
          /\ at = "notify" => answer' = answer
    BY <2>1 DEF Go
  <2>5. line.of \in Nat /\ mu' \in Call \cup {NoCall} /\ (line.is = "result" => line.of = id[c])
    BY <2>1, <2>2 DEF AnyLine, Truthful, Unlock
  <2>6. PICK at \in {"notify", "done", "failed"} :
          /\ pc' = [pc EXCEPT ![c] = at]
          /\ at = "done" => line.is = "result" /\ answer' = [answer EXCEPT ![c] = line.of]
          /\ at = "failed" => answer' = [answer EXCEPT ![c] = 0]
          /\ at = "notify" => answer' = answer
    BY <2>4
  <2>7. TypeOK'
    BY <2>1, <2>3, <2>5, <2>6
  <2>8. ASSUME NEW d \in Call PROVE OwnId(d)' /\ (pc'[d] = "done" => answer'[d] = id'[d])
    <3>1. OwnId(d)'
      BY <2>1, <2>2, <2>6 DEF OwnId
    <3>2. CASE d = c
      BY <2>1, <2>5, <2>6, <3>1, <3>2
    <3>3. CASE d # c
      <4>1. pc'[d] = pc[d] /\ answer'[d] = answer[d] /\ id'[d] = id[d]
        BY <2>1, <2>6, <3>3
      <4>. QED  BY <3>1, <4>1
    <3>. QED  BY <3>2, <3>3
  <2>. QED  BY <2>1, <2>3, <2>7, <2>8
<1>6. CASE ReadLeaked
  <2>1. /\ UNCHANGED <<mu, next, initialized, pc, id, inbox, answer, sent, due>>
        /\ pipe # <<>> /\ pipe' = Tail(pipe)
    BY <1>6 DEF ReadLeaked
  <2>2. /\ pipe' \in Seq(AnyLine) /\ Len(pipe') = Len(pipe) - 1
        /\ \A i \in 1 .. Len(pipe') : pipe'[i] = pipe[i + 1]
    BY <2>1, HeadTailProperties
  <2>3. \A i \in 1 .. Len(pipe') : i + 1 \in 1 .. Len(pipe)
    BY <2>2
  <2>. QED  BY <2>1, <2>2, <2>3 DEF OwnId
<1>7. CASE Answer \/ Chatter
  <2>1. /\ UNCHANGED <<mu, next, initialized, pc, id, inbox, answer, sent>>
        /\ due' \subseteq due
        /\ \E line \in AnyLine : Truthful(line) /\ pipe' = Append(pipe, line)
    <3>1. CASE Answer
      <4>1. PICK i \in due, is \in {"result", "error"} : due' = due \ {i} /\ pipe' = Append(pipe, Line(i, is, i))
        BY <3>1 DEF Answer
      <4>2. Line(i, is, i) \in AnyLine /\ Truthful(Line(i, is, i))
        BY Lines DEF LineKinds, Truthful
      <4>. QED  BY <3>1, <4>1, <4>2 DEF Answer, client
    <3>2. CASE Chatter
      <4>1. PICK line \in {Noise} \cup {Line(i, "request", 0) : i \in 1 .. 2} : pipe' = Append(pipe, line)
        BY <3>2 DEF Chatter
      <4>2. line \in AnyLine /\ Truthful(line)
        <5>1. CASE line = Noise
          BY <5>1, Lines
        <5>2. ASSUME NEW i \in 1 .. 2, line = Line(i, "request", 0)
              PROVE  line \in AnyLine /\ Truthful(line)
          <6>1. i \in Nat /\ "request" \in LineKinds /\ "request" # "result"
            BY DEF LineKinds
          <6>. QED  BY <5>2, <6>1, Lines DEF Truthful
        <5>. QED  BY <5>1, <5>2
      <4>. QED  BY <3>2, <4>1, <4>2 DEF Chatter, client
    <3>. QED  BY <1>7, <3>1, <3>2
  <2>2. PICK line \in AnyLine : Truthful(line) /\ pipe' = Append(pipe, line)
    BY <2>1
  <2>3. pipe' \in Seq(AnyLine) /\ \A i \in 1 .. Len(pipe') : Truthful(pipe'[i])
    <3>1. /\ pipe' \in Seq(AnyLine) /\ Len(pipe') = Len(pipe) + 1 /\ pipe'[Len(pipe) + 1] = line
          /\ \A i \in 1 .. Len(pipe) : pipe'[i] = pipe[i]
      BY <2>2
    <3>2. \A i \in 1 .. Len(pipe') : i \in 1 .. Len(pipe) \/ i = Len(pipe) + 1
      BY <3>1
    <3>. QED  BY <2>2, <3>1, <3>2
  <2>. QED  BY <2>1, <2>3 DEF OwnId
<1>8. CASE Exit \/ UNCHANGED vars
  <2>1. UNCHANGED <<mu, next, initialized, pc, id, inbox, answer, sent, due, pipe>>
    BY <1>8 DEF Exit, client, vars
  <2>. QED  BY <2>1 DEF OwnId
<1>. QED  BY <1>1, <1>2, <1>3, <1>4, <1>5, <1>6, <1>7, <1>8 DEF Next, Step

LEMMA AnswerInvariant == Spec => []AnswerInv
<1>1. Init => AnswerInv
  <2>1. <<>> \in Seq(AnyLine) /\ <<>> \in Seq(Request) /\ Len(<<>>) = 0
    OBVIOUS
  <2>. SUFFICES ASSUME Init PROVE AnswerInv
    OBVIOUS
  <2>2. TypeOK
    BY <2>1 DEF Init, TypeOK, Stage
  <2>3. pipe = <<>> /\ \A c \in Call : inbox[c] = NoLine
    BY DEF Init
  <2>4. \A c \in Call : id[c] = 0 /\ pc[c] = "idle" /\ next = 0
    BY DEF Init
  <2>. QED  BY <2>1, <2>2, <2>3, <2>4 DEF AnswerInv, OwnId
<1>. QED  BY <1>1, AnswerStep, PTL DEF Spec

-----------------------------------------------------------------------------
(* The handshake.                                                           *)

\* The handshake is complete, and this is what the client believes.
Complete == \E i \in 1 .. Len(sent) : sent[i] = "initialized"

Believed == initialized <=> Complete

\* The call that holds the mutex talks to the server, and no other.
HolderTalks == \A c \in Call : mu = c <=> pc[c] \in {"send", "await", "notify"}

\* Where a call is tells whether the handshake is complete.
StageTells == \A c \in Call : /\ pc[c] = "ready" => initialized
                              /\ pc[c] = "notify" => ~initialized

HandshakeInv == TypeOK /\ HolderTalks /\ Believed /\ StageTells /\ HandshakeFirst

\* What the client writes next is written in order.
LEMMA SentInOrder ==
  ASSUME sent \in Seq(Request), HandshakeFirst, NEW m \in Request,
         m = "call" => Complete, m # "call" => ~Complete,
         sent' = Append(sent, m)
  PROVE  HandshakeFirst' /\ (Complete' <=> Complete \/ m = "initialized")
<1>1. /\ Len(sent') = Len(sent) + 1 /\ Len(sent) \in Nat
      /\ \A i \in 1 .. Len(sent) : sent'[i] = sent[i]
      /\ sent'[Len(sent) + 1] = m
  BY SentMore
<1>2. \A i \in 1 .. Len(sent') : i \in 1 .. Len(sent) \/ i = Len(sent) + 1
  BY <1>1
<1>3. Complete' <=> Complete \/ m = "initialized"
  <2>1. \A i \in 1 .. Len(sent) : i \in 1 .. Len(sent')
    BY <1>1
  <2>2. Len(sent) + 1 \in 1 .. Len(sent')
    BY <1>1
  <2>. QED  BY <1>1, <1>2, <2>1, <2>2 DEF Complete
<1>4. ASSUME NEW i \in 1 .. Len(sent'), NEW j \in 1 .. Len(sent'),
             sent'[i] = "initialized", sent'[j] = "initialized"
      PROVE  i = j
  BY <1>1, <1>2, <1>4 DEF HandshakeFirst, Complete
<1>5. ASSUME NEW i \in 1 .. Len(sent'), sent'[i] = "call"
      PROVE  \E k \in 1 .. i - 1 : sent'[k] = "initialized"
  <2>1. CASE i \in 1 .. Len(sent)
    <3>1. PICK k \in 1 .. i - 1 : sent[k] = "initialized"
      BY <1>1, <1>5, <2>1 DEF HandshakeFirst
    <3>2. k \in 1 .. Len(sent)
      BY <1>1, <2>1
    <3>. QED  BY <1>1, <3>1, <3>2
  <2>2. CASE i = Len(sent) + 1
    BY <1>1, <1>5, <2>2 DEF Complete
  <2>. QED  BY <1>2, <2>1, <2>2
<1>6. ASSUME NEW i \in 1 .. Len(sent'), NEW j \in 1 .. Len(sent'),
             sent'[i] = "initialized", sent'[j] = "initialize"
      PROVE  j < i
  <2>1. CASE i \in 1 .. Len(sent)
    BY <1>1, <1>2, <1>6, <2>1 DEF HandshakeFirst, Complete
  <2>2. CASE i = Len(sent) + 1
    BY <1>1, <1>2, <1>6, <2>2
  <2>. QED  BY <1>2, <2>1, <2>2
<1>. QED  BY <1>3, <1>4, <1>5, <1>6 DEF HandshakeFirst

\* Each step keeps the handshake with the holder of the mutex.
LEMMA HandshakeStep == AnswerInv' /\ HandshakeInv /\ [Next]_vars => HandshakeInv'
<1>. SUFFICES ASSUME AnswerInv', HandshakeInv, [Next]_vars PROVE HandshakeInv'
  OBVIOUS
<1>0. TypeOK'
  BY DEF AnswerInv
<1>1. ASSUME UNCHANGED <<initialized, sent>>,
             \A c \in Call : mu' = c <=> pc'[c] \in {"send", "await", "notify"},
             \A c \in Call : /\ pc'[c] = "ready" => pc[c] = "ready" \/ initialized
                             /\ pc'[c] = "notify" => pc[c] = "notify" \/ ~initialized
      PROVE  HandshakeInv'
  <2>1. HandshakeFirst' /\ (Complete' <=> Complete)
    BY <1>1 DEF HandshakeInv, Complete, HandshakeFirst
  <2>2. StageTells'
    <3>1. initialized' = initialized
      BY <1>1
    <3>2. ASSUME NEW c \in Call PROVE /\ pc'[c] = "ready" => initialized
                                      /\ pc'[c] = "notify" => ~initialized
      BY <1>1 DEF HandshakeInv, StageTells
    <3>. QED  BY <3>1, <3>2, Zenon DEF StageTells
  <2>3. Believed'
    BY <1>1, <2>1 DEF HandshakeInv, Believed
  <2>4. HolderTalks'
    BY <1>1 DEF HolderTalks
  <2>. QED  BY <1>0, <2>1, <2>2, <2>3, <2>4 DEF HandshakeInv
<1>. USE ClientAssumption DEF HandshakeInv, HolderTalks, Believed, StageTells, TypeOK, Stage
<1>2. ASSUME NEW c \in Call, Start(c) \/ Cancel(c) PROVE HandshakeInv'
  BY <1>1, <1>2 DEF Start, Cancel, Go, client
<1>3. ASSUME NEW c \in Call, Lock(c) PROVE HandshakeInv'
  BY <1>1, <1>3 DEF Lock, Hold, Go
<1>4. ASSUME NEW c \in Call, Send(c) PROVE HandshakeInv'
  <2>1. pc[c] = "send" /\ mu = c
    BY <1>4 DEF Send
  <2>2. CASE alive
    <3>1. /\ pc' = [pc EXCEPT ![c] = "await"] /\ mu' = mu /\ initialized' = initialized
          /\ sent' = Append(sent, Method(c))
      BY <1>4, <2>2 DEF Send, Go
    <3>2. /\ Method(c) \in Request /\ Method(c) # "initialized"
          /\ Method(c) = "call" <=> initialized
      BY DEF Method, Request
    <3>3. HandshakeFirst' /\ (Complete' <=> Complete)
      BY <3>1, <3>2, SentInOrder
    <3>. QED  BY <1>0, <2>1, <3>1, <3>3
  <2>3. CASE ~alive
    BY <1>1, <1>4, <2>1, <2>3 DEF Send, Go, Unlock
  <2>. QED  BY <2>2, <2>3
<1>5. ASSUME NEW c \in Call, Read(c) \/ Skip(c) PROVE HandshakeInv'
  BY <1>1, <1>5 DEF Read, Skip
<1>6. ASSUME NEW c \in Call, Accept(c) PROVE HandshakeInv'
  <2>1. /\ pc[c] = "await" /\ UNCHANGED <<initialized, sent>>
        /\ \/ Method(c) = "initialize" /\ pc' = [pc EXCEPT ![c] = "notify"] /\ mu' = mu
           \/ \E at \in {"done", "failed"} : pc' = [pc EXCEPT ![c] = at] /\ mu' = NoCall
    BY <1>6 DEF Accept, Received, Go, Unlock
  <2>2. mu = c
    BY <2>1
  <2>. QED  BY <1>1, <2>1, <2>2 DEF Method
<1>7. ASSUME NEW c \in Call, EndOfPipe(c) \/ GiveUp(c) PROVE HandshakeInv'
  <2>1. pc[c] = "await" /\ UNCHANGED <<initialized, sent>> /\ pc' = [pc EXCEPT ![c] = "failed"] /\ mu' = NoCall
    BY <1>7 DEF EndOfPipe, GiveUp, Received, Go, Unlock
  <2>2. mu = c
    BY <2>1
  <2>. QED  BY <1>1, <2>1, <2>2
<1>8. ASSUME NEW c \in Call, Notify(c) PROVE HandshakeInv'
  <2>1. pc[c] = "notify" /\ mu = c /\ ~initialized /\ mu' = NoCall
    BY <1>8 DEF Notify, Unlock
  <2>2. CASE alive
    <3>1. /\ pc' = [pc EXCEPT ![c] = "ready"] /\ initialized' = TRUE
          /\ sent' = Append(sent, "initialized")
      BY <1>8, <2>2 DEF Notify, Go, InitializedNow
    <3>2. "initialized" \in Request /\ "initialized" # "call"
      BY DEF Request
    <3>3. HandshakeFirst' /\ Complete'
      BY <2>1, <3>1, <3>2, SentInOrder
    <3>4. \A d \in Call : pc'[d] # "notify" /\ (mu' = d <=> pc'[d] \in {"send", "await", "notify"})
      BY <2>1, <3>1
    <3>. QED  BY <1>0, <3>1, <3>3, <3>4
  <2>3. CASE ~alive
    BY <1>1, <1>8, <2>1, <2>3 DEF Notify, Go
  <2>. QED  BY <2>2, <2>3
<1>9. CASE ReadLeaked \/ Answer \/ Chatter \/ Exit \/ UNCHANGED vars
  <2>1. UNCHANGED <<mu, initialized, pc, sent>>
    BY <1>9 DEF ReadLeaked, Answer, Chatter, Exit, client, vars
  <2>. QED  BY <1>1, <2>1
<1>. QED  BY <1>2, <1>3, <1>4, <1>5, <1>6, <1>7, <1>8, <1>9 DEF Next, Step

LEMMA HandshakeInvariant == Spec => []HandshakeInv
<1>1. Init => HandshakeInv
  <2>1. <<>> \in Seq(AnyLine) /\ <<>> \in Seq(Request) /\ Len(<<>>) = 0
    OBVIOUS
  <2>. SUFFICES ASSUME Init PROVE HandshakeInv
    OBVIOUS
  <2>2. TypeOK
    BY <2>1 DEF Init, TypeOK, Stage
  <2>3. sent = <<>> /\ ~initialized /\ mu = NoCall /\ \A c \in Call : pc[c] = "idle"
    BY DEF Init
  <2>. QED  BY <2>1, <2>2, <2>3, ClientAssumption
       DEF HandshakeInv, HolderTalks, Believed, StageTells, HandshakeFirst, Complete
<1>. QED  BY <1>1, HandshakeStep, AnswerInvariant, PTL DEF Spec

-----------------------------------------------------------------------------
\* What a call returns is the answer of the server to its own request.
THEOREM AnswersAreOwn == Spec => []OwnAnswer
<1>1. AnswerInv => OwnAnswer
  BY DEF AnswerInv, OwnAnswer
<1>. QED  BY <1>1, AnswerInvariant, PTL

\* No two calls are ever answered with the same result.
THEOREM AnswersNotShared ==
  Spec => [](\A c, d \in Call : c # d /\ pc[c] = "done" /\ pc[d] = "done" => answer[c] # answer[d])
<1>1. AnswerInv => \A c, d \in Call : c # d /\ pc[c] = "done" /\ pc[d] = "done" => answer[c] # answer[d]
  BY DEF AnswerInv, OwnId
<1>. QED  BY <1>1, AnswerInvariant, PTL

\* The server is asked once to initialize successfully, is told so once, and
\* every other request comes after that.
THEOREM HandshakeComesFirst == Spec => []HandshakeFirst
<1>1. HandshakeInv => HandshakeFirst
  BY DEF HandshakeInv
<1>. QED  BY <1>1, HandshakeInvariant, PTL

-----------------------------------------------------------------------------
(* The native protocol.                                                     *)

Place == {"run", "snapshot", "ok", "error", "done"}

Said == [type : {"hello", "hello_error", "close", "progress", "snapshot", "ok", "error"}, of : Nat]

\* The messages o are in order for the requests r.
InOrder(o, r) ==
  \A j \in 1 .. Len(o) :
    o[j].of \in DOMAIN r =>
      /\ o[j].type # "ok" => Told(o, j - 1, o[j].of) \subseteq {"progress"}
      /\ o[j].type = "snapshot" => r[o[j].of] \in {"prompt", "attach"}
      /\ o[j].type = "ok" =>
           /\ Told(o, j - 1, o[j].of) \subseteq {"progress", "snapshot"}
           /\ r[o[j].of] \in {"prompt", "attach"} => "snapshot" \in Told(o, j - 1, o[j].of)

\* What a request was told that is at a place.
ToldAt(at, command, told) ==
  /\ at \in {"run", "snapshot", "error"} => told \subseteq {"progress"}
  /\ at = "snapshot" => command \in {"prompt", "attach"}
  /\ at = "ok" => /\ told \subseteq {"progress", "snapshot"}
                  /\ command \in {"prompt", "attach"} => "snapshot" \in told

OrderInv == /\ requests \in Seq(Command)
            /\ stage \in Seq(Place) /\ Len(stage) = Len(requests)
            /\ out \in Seq(Said)
            /\ \A j \in 1 .. Len(out) : out[j].of \in 0 .. Len(requests)
            /\ \A g \in 1 .. Len(requests) : ToldAt(stage[g], requests[g], Told(out, Len(out), g))
            /\ InOrder(out, requests)

-----------------------------------------------------------------------------
(* One message more.                                                        *)

\* p has the first n messages of o; its l-th is of g and of a type.
Keeps(p, o, n) == \A j \in 1 .. n : p[j] = o[j]
Ends(p, l, g, type) == p[l].of = g /\ p[l].type = type

LEMMA OneMore ==
  ASSUME NEW o \in Seq(Said), NEW m \in Said, NEW p, p = Append(o, m)
  PROVE  p \in Seq(Said) /\ Len(p) = Len(o) + 1 /\ p[Len(p)] = m /\ (\A j \in 1 .. Len(o) : p[j] = o[j])
BY AppendProperties

\* What a request was told by the first messages depends on them alone.
LEMMA ToldSame ==
  ASSUME NEW o, NEW p, NEW n, NEW h, Keeps(p, o, n)
  PROVE  Told(p, n, h) = Told(o, n, h)
BY DEF Told, Keeps

\* A message adds its type to what its request was told, and nothing to what
\* another one was told.
LEMMA ToldMore ==
  ASSUME NEW o, NEW p, NEW n \in Nat, NEW l, l = n + 1, NEW g, NEW type,
         Keeps(p, o, n), Ends(p, l, g, type)
  PROVE  /\ Told(p, l, g) = Told(o, n, g) \cup {type}
         /\ \A h : h # g => Told(p, l, h) = Told(o, n, h)
<1>1. \A k \in 1 .. n + 1 : k \in 1 .. n \/ k = n + 1
  OBVIOUS
<1>2. \A k \in 1 .. n : k \in 1 .. n + 1
  OBVIOUS
<1>3. n + 1 \in 1 .. n + 1
  OBVIOUS
<1>. QED  BY <1>1, <1>2, <1>3 DEF Told, Keeps, Ends

\* It keeps the order if the request it is of has been told the right things.
LEMMA OrderMore ==
  ASSUME NEW o \in Seq(Said), NEW m \in Said, NEW p, p = Append(o, m), NEW r, InOrder(o, r),
         m.of \in DOMAIN r =>
           /\ m.type # "ok" => Told(o, Len(o), m.of) \subseteq {"progress"}
           /\ m.type = "snapshot" => r[m.of] \in {"prompt", "attach"}
           /\ m.type = "ok" =>
                /\ Told(o, Len(o), m.of) \subseteq {"progress", "snapshot"}
                /\ r[m.of] \in {"prompt", "attach"} => "snapshot" \in Told(o, Len(o), m.of)
  PROVE  InOrder(p, r)
<1>1. PICK n \in Nat : n = Len(o)
  OBVIOUS
<1>2. Len(p) = n + 1 /\ p[n + 1] = m /\ \A j \in 1 .. n : p[j] = o[j]
  BY <1>1, OneMore
<1>3. ASSUME NEW h, NEW i \in 0 .. n PROVE Told(p, i, h) = Told(o, i, h)
  <2>1. Keeps(p, o, i)
    BY <1>2 DEF Keeps
  <2>. QED  BY <2>1, ToldSame
<1>4. ASSUME NEW j \in 1 .. Len(p), p[j].of \in DOMAIN r
      PROVE  /\ p[j].type # "ok" => Told(p, j - 1, p[j].of) \subseteq {"progress"}
             /\ p[j].type = "snapshot" => r[p[j].of] \in {"prompt", "attach"}
             /\ p[j].type = "ok" =>
                  /\ Told(p, j - 1, p[j].of) \subseteq {"progress", "snapshot"}
                  /\ r[p[j].of] \in {"prompt", "attach"} => "snapshot" \in Told(p, j - 1, p[j].of)
  <2>1. CASE j \in 1 .. n
    <3>1. p[j] = o[j] /\ j \in 1 .. Len(o) /\ j - 1 \in 0 .. n
      BY <1>1, <1>2, <2>1
    <3>2. Told(p, j - 1, p[j].of) = Told(o, j - 1, o[j].of)
      BY <1>3, <3>1
    <3>. QED  BY <1>4, <3>1, <3>2 DEF InOrder
  <2>2. CASE j = n + 1
    <3>1. p[j] = m /\ j - 1 = n /\ n \in 0 .. n
      BY <1>2, <2>2
    <3>2. Told(p, j - 1, p[j].of) = Told(o, Len(o), m.of)
      BY <1>1, <1>3, <3>1
    <3>. QED  BY <1>4, <3>1, <3>2
  <2>3. j \in 1 .. n \/ j = n + 1
    BY <1>2
  <2>. QED  BY <2>1, <2>2, <2>3
<1>. QED  BY <1>4 DEF InOrder

\* A request that has just been started has been told nothing.
LEMMA ToldNothing ==
  ASSUME NEW o, NEW n, NEW g, \A j \in 1 .. n : o[j].of # g
  PROVE  Told(o, n, g) = {}
BY DEF Told

-----------------------------------------------------------------------------
(* The steps.                                                               *)

\* A message of the connection itself is of no request.
LEMMA ConnectionWrites ==
  ASSUME OrderInv, UNCHANGED <<requests, stage>>,
         NEW type \in {"hello", "hello_error", "close"}, out' = out \/ Write(type, 0)
  PROVE  OrderInv'
<1>1. CASE out' = out
  BY <1>1 DEF OrderInv
<1>2. CASE out' # out
  <2>1. PICK m : m = [type |-> type, of |-> 0]
    OBVIOUS
  <2>2. m \in Said /\ m.of = 0
    BY <2>1 DEF Said
  <2>3. out' = Append(out, m) /\ out \in Seq(Said) /\ requests \in Seq(Command)
    BY <1>2, <2>1 DEF Write, OrderInv
  <2>4. PICK p : p = out'
    OBVIOUS
  <2>5. PICK r \in Nat : r = Len(requests)
    BY <2>3
  <2>6. 0 \notin DOMAIN requests
    BY <2>3
  <2>7. InOrder(p, requests)
    BY <2>2, <2>3, <2>4, <2>6, OrderMore DEF OrderInv
  <2>8. p \in Seq(Said) /\ Len(p) = Len(out) + 1 /\ p[Len(p)] = m /\ (\A j \in 1 .. Len(out) : p[j] = out[j])
    BY <2>2, <2>3, <2>4, OneMore
  <2>a. Keeps(p, out, Len(out)) /\ Ends(p, Len(p), 0, m.type) /\ Len(out) \in Nat
    BY <2>2, <2>3, <2>8 DEF Keeps, Ends
  <2>9. ASSUME NEW g \in 1 .. r PROVE Told(p, Len(p), g) = Told(out, Len(out), g)
    <3>1. 0 # g /\ Len(p) = Len(out) + 1
      BY <2>8
    <3>. QED  BY <2>a, <3>1, ToldMore
  <2>10. \A j \in 1 .. Len(p) : p[j].of \in 0 .. r
    <3>1. \A j \in 1 .. Len(p) : j \in 1 .. Len(out) \/ j = Len(p)
      BY <2>3, <2>8
    <3>. QED  BY <2>2, <2>5, <2>8, <3>1 DEF OrderInv
  <2>. QED  BY <2>4, <2>5, <2>7, <2>8, <2>9, <2>10 DEF OrderInv
<1>. QED  BY <1>1, <1>2

\* A goroutine that goes on, with a message or without one.
LEMMA RequestWrites ==
  ASSUME OrderInv, requests' = requests, NEW g \in 1 .. Len(requests), NEW at \in Place,
         stage' = [stage EXCEPT ![g] = at], NEW m \in Said, m.of = g,
         \/ out' = out /\ ToldAt(at, requests[g], Told(out, Len(out), g))
         \/ /\ out' = Append(out, m)
            /\ m.type # "ok" => Told(out, Len(out), g) \subseteq {"progress"}
            /\ m.type = "snapshot" => requests[g] \in {"prompt", "attach"}
            /\ m.type = "ok" =>
                 /\ Told(out, Len(out), g) \subseteq {"progress", "snapshot"}
                 /\ requests[g] \in {"prompt", "attach"} => "snapshot" \in Told(out, Len(out), g)
            /\ ToldAt(at, requests[g], Told(out, Len(out), g) \cup {m.type})
  PROVE  OrderInv'
<1>1. out \in Seq(Said) /\ requests \in Seq(Command) /\ stage \in Seq(Place) /\ Len(stage) = Len(requests)
  BY DEF OrderInv
<1>2. PICK r \in Nat : r = Len(requests)
  BY <1>1
<1>3. PICK q : q = stage'
  OBVIOUS
<1>4. q \in Seq(Place) /\ Len(q) = r /\ \A h \in 1 .. r : q[h] = IF h = g THEN at ELSE stage[h]
  BY <1>1, <1>2, <1>3, ExceptSeq
<1>5. CASE out' = out /\ ToldAt(at, requests[g], Told(out, Len(out), g))
  <2>1. \A h \in 1 .. r : ToldAt(q[h], requests[h], Told(out, Len(out), h))
    BY <1>2, <1>4, <1>5 DEF OrderInv
  <2>. QED  BY <1>2, <1>3, <1>4, <1>5, <2>1 DEF OrderInv
<1>6. CASE ~(out' = out /\ ToldAt(at, requests[g], Told(out, Len(out), g)))
  <2>1. PICK p : p = out'
    OBVIOUS
  <2>2. p = Append(out, m)
    BY <1>6, <2>1
  <2>3. InOrder(p, requests)
    BY <1>1, <1>6, <2>2, OrderMore DEF OrderInv
  <2>4. p \in Seq(Said) /\ Len(p) = Len(out) + 1 /\ p[Len(p)] = m /\ (\A j \in 1 .. Len(out) : p[j] = out[j])
    BY <1>1, <2>2, OneMore
  <2>a. Keeps(p, out, Len(out)) /\ Ends(p, Len(p), g, m.type) /\ Len(out) \in Nat /\ Len(p) = Len(out) + 1
    BY <1>1, <2>4 DEF Keeps, Ends
  <2>5. \A h \in 1 .. r : ToldAt(q[h], requests[h], Told(p, Len(p), h))
    <3>. TAKE h \in 1 .. r
    <3>1. CASE h = g
      <4>1. Told(p, Len(p), h) = Told(out, Len(out), g) \cup {m.type}
        BY <2>a, <3>1, ToldMore
      <4>. QED  BY <1>4, <1>6, <3>1, <4>1
    <3>2. CASE h # g
      <4>1. Told(p, Len(p), h) = Told(out, Len(out), h)
        BY <2>a, <3>2, ToldMore
      <4>. QED  BY <1>2, <1>4, <3>2, <4>1 DEF OrderInv
    <3>. QED  BY <3>1, <3>2
  <2>6. \A j \in 1 .. Len(p) : p[j].of \in 0 .. r
    <3>1. \A j \in 1 .. Len(p) : j \in 1 .. Len(out) \/ j = Len(p)
      BY <1>1, <2>4
    <3>2. g \in 0 .. r
      BY <1>2
    <3>. QED  BY <1>2, <2>4, <3>1, <3>2 DEF OrderInv
  <2>. QED  BY <1>2, <1>3, <1>4, <2>1, <2>3, <2>4, <2>5, <2>6 DEF OrderInv
<1>. QED  BY <1>5, <1>6

\* A request gets its goroutine.
LEMMA RequestStarts ==
  ASSUME OrderInv, NEW command \in Command, requests' = Append(requests, command),
         stage' = Append(stage, "run"), out' = out
  PROVE  OrderInv'
<1>1. out \in Seq(Said) /\ requests \in Seq(Command) /\ stage \in Seq(Place) /\ Len(stage) = Len(requests)
  BY DEF OrderInv
<1>2. PICK n \in Nat : n = Len(requests)
  BY <1>1
<1>3. PICK r : r = requests'
  OBVIOUS
<1>4. PICK q : q = stage'
  OBVIOUS
<1>5. /\ r \in Seq(Command) /\ Len(r) = n + 1 /\ r[n + 1] = command /\ \A h \in 1 .. n : r[h] = requests[h]
  BY <1>1, <1>2, <1>3, AppendProperties
<1>6. /\ q \in Seq(Place) /\ Len(q) = n + 1 /\ q[n + 1] = "run" /\ \A h \in 1 .. n : q[h] = stage[h]
  <2>1. "run" \in Place
    BY DEF Place
  <2>. QED  BY <1>1, <1>2, <1>4, <2>1, AppendProperties
<1>7. \A j \in 1 .. Len(out) : out[j].of \in 0 .. n
  BY <1>2 DEF OrderInv
<1>8. \A h \in 1 .. n + 1 : ToldAt(q[h], r[h], Told(out, Len(out), h))
  <2>. TAKE h \in 1 .. n + 1
  <2>1. CASE h \in 1 .. n
    BY <1>2, <1>5, <1>6, <2>1 DEF OrderInv
  <2>2. CASE h = n + 1
    <3>1. Told(out, Len(out), h) = {}
      BY <1>7, <2>2, ToldNothing
    <3>. QED  BY <1>6, <2>2, <3>1 DEF ToldAt
  <2>. QED  BY <2>1, <2>2
<1>9. InOrder(out, r)
  <2>1. \A j \in 1 .. Len(out) : out[j].of \in DOMAIN r => out[j].of \in DOMAIN requests /\ r[out[j].of] = requests[out[j].of]
    <3>. TAKE j \in 1 .. Len(out)
    <3>1. out[j].of \in 0 .. n
      BY <1>7
    <3>2. DOMAIN r = 1 .. n + 1 /\ DOMAIN requests = 1 .. n
      BY <1>1, <1>2, <1>5
    <3>. QED  BY <1>5, <3>1, <3>2
  <2>. QED  BY <2>1 DEF OrderInv, InOrder
<1>10. \A j \in 1 .. Len(out) : out[j].of \in 0 .. n + 1
  <2>1. \A i \in 0 .. n : i \in 0 .. n + 1
    OBVIOUS
  <2>. QED  BY <1>7, <2>1
<1>. QED  BY <1>1, <1>3, <1>4, <1>5, <1>6, <1>8, <1>9, <1>10 DEF OrderInv

\* Every step keeps the invariant.
LEMMA ConnectionStep == OrderInv /\ [ConnectionNext]_connection => OrderInv'
<1>. SUFFICES ASSUME OrderInv, [ConnectionNext]_connection PROVE OrderInv'
  OBVIOUS
<1>1. ASSUME NEW m \in Message, Handshake(m) PROVE OrderInv'
  BY <1>1, ConnectionWrites DEF Handshake
<1>2. CASE Dispatch
  <2>1. CASE IsRequest(Head(queue))
    BY <1>2, <2>1, RequestStarts DEF Dispatch, IsRequest
  <2>2. CASE ~IsRequest(Head(queue))
    BY <1>2, <2>2, ConnectionWrites DEF Dispatch
  <2>. QED  BY <2>1, <2>2
<1>3. CASE CloseNotice
  BY <1>3, ConnectionWrites DEF CloseNotice
<1>4. CASE (\E m \in Message : Receive(m)) \/ Close \/ Break \/ UNCHANGED connection
  <2>1. UNCHANGED <<requests, stage, out>>
    BY <1>4 DEF Receive, Close, Break, connection
  <2>. QED  BY <2>1 DEF OrderInv
<1>5. ASSUME NEW g \in DOMAIN requests, Handle(g) PROVE OrderInv'
  <2>1. g \in 1 .. Len(requests) /\ requests[g] \in Command /\ stage[g] \in Place /\ g \in Nat /\ stage = [stage EXCEPT ![g] = stage[g]]
    BY DEF OrderInv
  <2>2. ToldAt(stage[g], requests[g], Told(out, Len(out), g))
    BY <2>1 DEF OrderInv
  <2>3. CASE Progress(g)
    <3>1. PICK m : m = [type |-> "progress", of |-> g]
      OBVIOUS
    <3>2. m \in Said /\ m.of = g /\ m.type = "progress"
      BY <2>1, <3>1 DEF Said
    <3>3. out' = Append(out, m) /\ stage[g] = "run" /\ requests' = requests /\ stage' = stage
      BY <2>3, <3>1 DEF Progress, Write
    <3>4. Told(out, Len(out), g) \subseteq {"progress"}
      BY <2>2, <3>3 DEF ToldAt
    <3>5. ToldAt(stage[g], requests[g], Told(out, Len(out), g) \cup {m.type})
      BY <3>2, <3>3, <3>4 DEF ToldAt
    <3>. QED  BY <2>1, <3>2, <3>3, <3>4, <3>5, RequestWrites
  <2>4. CASE Return(g)
    <3>1. PICK at \in Outcomes(requests[g]) : GoTo(g, at)
      BY <2>4 DEF Return
    <3>2. /\ at \in {"snapshot", "ok", "error"}
          /\ at = "snapshot" => requests[g] \in {"prompt", "attach"}
          /\ at = "ok" => requests[g] = "list"
      BY <2>1, <3>1 DEF Outcomes, Command
    <3>3. stage[g] = "run" /\ out' = out /\ requests' = requests /\ stage' = [stage EXCEPT ![g] = at] /\ at \in Place
      BY <2>4, <3>1, <3>2 DEF Return, GoTo, Place
    <3>4. ToldAt(at, requests[g], Told(out, Len(out), g))
      BY <2>2, <3>2, <3>3 DEF ToldAt
    <3>5. [type |-> "ok", of |-> g] \in Said
      BY <2>1 DEF Said
    <3>. QED  BY <2>1, <3>3, <3>4, <3>5, RequestWrites
  <2>5. CASE Snapshot(g)
    <3>1. PICK m : m = [type |-> "snapshot", of |-> g]
      OBVIOUS
    <3>2. m \in Said /\ m.of = g /\ m.type = "snapshot"
      BY <2>1, <3>1 DEF Said
    <3>3. stage[g] = "snapshot" /\ requests' = requests
      BY <2>5 DEF Snapshot
    <3>4. Told(out, Len(out), g) \subseteq {"progress"} /\ requests[g] \in {"prompt", "attach"}
      BY <2>2, <3>3 DEF ToldAt
    <3>5. CASE Writable
      <4>1. out' = Append(out, m) /\ stage' = [stage EXCEPT ![g] = "ok"] /\ "ok" \in Place
        BY <2>5, <3>1, <3>5 DEF Snapshot, Write, GoTo, Place
      <4>2. ToldAt("ok", requests[g], Told(out, Len(out), g) \cup {m.type})
        BY <3>2, <3>4 DEF ToldAt
      <4>. QED  BY <2>1, <3>2, <3>3, <3>4, <4>1, <4>2, RequestWrites
    <3>6. CASE ~Writable
      <4>1. out' = out /\ stage' = [stage EXCEPT ![g] = "done"] /\ "done" \in Place
        BY <2>5, <3>6 DEF Snapshot, Write, GoTo, Place
      <4>2. ToldAt("done", requests[g], Told(out, Len(out), g))
        BY DEF ToldAt
      <4>. QED  BY <2>1, <3>2, <3>3, <4>1, <4>2, RequestWrites
    <3>. QED  BY <3>5, <3>6
  <2>6. CASE Respond(g)
    <3>1. PICK m : m = [type |-> stage[g], of |-> g]
      OBVIOUS
    <3>2. stage[g] \in {"ok", "error"} /\ requests' = requests /\ stage' = [stage EXCEPT ![g] = "done"] /\ "done" \in Place
      BY <2>6 DEF Respond, GoTo, Place
    <3>3. m \in Said /\ m.of = g /\ m.type = stage[g]
      BY <2>1, <3>1, <3>2 DEF Said
    <3>4. out' = out \/ out' = Append(out, m)
      BY <2>6, <3>1 DEF Respond, Write
    <3>5. ToldAt("done", requests[g], Told(out, Len(out), g)) /\ ToldAt("done", requests[g], Told(out, Len(out), g) \cup {m.type})
      BY DEF ToldAt
    <3>6. /\ m.type # "ok" => Told(out, Len(out), g) \subseteq {"progress"}
          /\ m.type # "snapshot"
          /\ m.type = "ok" => /\ Told(out, Len(out), g) \subseteq {"progress", "snapshot"}
                              /\ requests[g] \in {"prompt", "attach"} => "snapshot" \in Told(out, Len(out), g)
      BY <2>2, <3>2, <3>3 DEF ToldAt
    <3>. QED  BY <2>1, <3>2, <3>3, <3>4, <3>5, <3>6, RequestWrites
  <2>. QED  BY <1>5, <2>3, <2>4, <2>5, <2>6 DEF Handle
<1>. QED  BY <1>1, <1>2, <1>3, <1>4, <1>5 DEF ConnectionNext, Serve

\* What a client is told of its requests is in order (handleNativeRequest and
\* the emitter of its progress).
THEOREM RequestsAnsweredInOrder == ConnectionSpec => []AnsweredInOrder
<1>1. ConnectionInit => OrderInv
  <2>. SUFFICES ASSUME ConnectionInit PROVE OrderInv
    OBVIOUS
  <2>1. requests = <<>> /\ stage = <<>> /\ out = <<>>
    BY DEF ConnectionInit
  <2>2. Len(requests) = 0 /\ Len(out) = 0 /\ Len(stage) = 0
    BY <2>1
  <2>. QED  BY <2>1, <2>2, EmptySeq DEF OrderInv, InOrder
<1>2. OrderInv => AnsweredInOrder
  BY DEF OrderInv, InOrder, AnsweredInOrder
<1>. QED  BY <1>1, <1>2, ConnectionStep, PTL DEF ConnectionSpec

-----------------------------------------------------------------------------
(* Recursion and induction on natural numbers, with functions and sets.     *)

LessThan == {p \in Nat \X Nat : p[1] < p[2]}

\* Induction: a set that has 0 and every successor of its numbers has all.
LEMMA NatSetInduction ==
  ASSUME NEW S, 0 \in S, \A n \in Nat : n \in S => n + 1 \in S
  PROVE  Nat \subseteq S
<1>. DEFINE Absent == Nat \ S
<1>. SUFFICES ASSUME Absent # {} PROVE FALSE
  OBVIOUS
<1>1. IsWellFoundedOn(LessThan, Nat)
  BY NatLessThanWellFounded, Zenon DEF OpToRel, LessThan
<1>2. PICK n \in Absent : \A m \in Absent : ~ (<<m, n>> \in LessThan)
  BY <1>1, WFMin
<1>3. \A m \in Absent : m < n => <<m, n>> \in LessThan
  BY DEF LessThan
<1>4. n # 0
  OBVIOUS
<1>5. PICK m \in Nat : n = m + 1 /\ m < n
  <2>1. n - 1 \in Nat /\ n = (n - 1) + 1 /\ n - 1 < n
    BY <1>4
  <2>. QED  BY <2>1
<1>6. m \in S
  BY <1>2, <1>3, <1>5
<1>. QED  BY <1>5, <1>6

IsStep(step, n, D) == step \in [(1 .. n) \X D -> D]

Solves(g, step, n, D, b) == /\ g \in [0 .. n -> D] /\ g[0] = b
                            /\ \A k \in 1 .. n : g[k] = step[<<k, g[k - 1]>>]

\* There is a function with a first value, and a step from each to the one
\* behind it.
LEMMA Recursion ==
  ASSUME NEW D, NEW b \in D, NEW n \in Nat, NEW step, IsStep(step, n, D)
  PROVE  \E g : Solves(g, step, n, D, b)
<1>. USE DEF Solves
<1>. DEFINE S == {m \in Nat : m <= n => \E g : Solves(g, step, m, D, b)}
<1>1. 0 \in S
  <2>1. PICK g : g = [k \in 0 .. 0 |-> b]
    OBVIOUS
  <2>2. Solves(g, step, 0, D, b)
    BY <2>1
  <2>. QED  BY <2>2
<1>2. ASSUME NEW m \in Nat, m \in S PROVE m + 1 \in S
  <2>. SUFFICES ASSUME m + 1 <= n PROVE \E g : Solves(g, step, m + 1, D, b)
    OBVIOUS
  <2>1. PICK old : Solves(old, step, m, D, b)
    BY <1>2
  <2>2. PICK value \in D : value = step[<<m + 1, old[m]>>]
    <3>1. m + 1 \in 1 .. n /\ old[m] \in D
      BY <2>1
    <3>2. <<m + 1, old[m]>> \in (1 .. n) \X D
      BY <3>1
    <3>. QED  BY <3>2 DEF IsStep
  <2>3. PICK g : g = [k \in 0 .. m + 1 |-> IF k <= m THEN old[k] ELSE value]
    OBVIOUS
  <2>4. g \in [0 .. m + 1 -> D] /\ g[0] = b
    BY <2>1, <2>3
  <2>5. \A k \in 1 .. m + 1 : g[k] = step[<<k, g[k - 1]>>]
    <3>. TAKE k \in 1 .. m + 1
    <3>1. CASE k \in 1 .. m
      <4>1. k \in 0 .. m + 1 /\ k - 1 \in 0 .. m + 1 /\ k <= m /\ k - 1 <= m
        BY <3>1
      <4>2. g[k] = old[k] /\ g[k - 1] = old[k - 1]
        BY <2>3, <4>1
      <4>3. old[k] = step[<<k, old[k - 1]>>]
        BY <2>1, <3>1
      <4>. QED  BY <4>2, <4>3
    <3>2. CASE k = m + 1
      <4>1. g[m + 1] = value /\ g[m] = old[m] /\ k - 1 = m
        BY <2>3, <3>2
      <4>. QED  BY <2>2, <3>2, <4>1
    <3>. QED  BY <3>1, <3>2
  <2>. QED  BY <2>4, <2>5
<1>. HIDE DEF S, Solves
<1>3. Nat \subseteq S
  BY <1>1, <1>2, NatSetInduction
<1>4. n \in S
  BY <1>3
<1>5. n <= n
  OBVIOUS
<1>. QED  BY <1>4, <1>5 DEF S

GoesOn(f, step, n, D, b) == /\ f = [k \in 0 .. n |-> f[k]] /\ f[0] = b
                            /\ \A k \in 1 .. n : f[k - 1] \in D => f[k] = step[<<k, f[k - 1]>>]

\* A function that begins and goes on in this way has these values.
LEMMA FollowsSteps ==
  ASSUME NEW D, NEW b \in D, NEW n \in Nat, NEW step, IsStep(step, n, D), NEW f, GoesOn(f, step, n, D, b)
  PROVE  Solves(f, step, n, D, b)
<1>. USE DEF GoesOn
<1>. DEFINE S == {k \in Nat : k <= n => f[k] \in D}
<1>1. 0 \in S
  OBVIOUS
<1>2. ASSUME NEW k \in Nat, k \in S PROVE k + 1 \in S
  <2>. SUFFICES ASSUME k + 1 <= n PROVE f[k + 1] \in D
    OBVIOUS
  <2>1. PICK m : m = k + 1
    OBVIOUS
  <2>2. m \in 1 .. n /\ m - 1 = k /\ f[k] \in D
    BY <1>2, <2>1
  <2>3. f[m] = step[<<m, f[m - 1]>>] /\ <<m, f[m - 1]>> \in (1 .. n) \X D
    BY <2>2
  <2>. QED  BY <2>1, <2>3 DEF IsStep
<1>. HIDE DEF S
<1>3. Nat \subseteq S
  BY <1>1, <1>2, NatSetInduction
<1>4. \A k \in 0 .. n : f[k] \in D
  BY <1>3 DEF S
<1>5. \A k \in 1 .. n : f[k] = step[<<k, f[k - 1]>>]
  <2>1. \A k \in 1 .. n : k - 1 \in 0 .. n
    OBVIOUS
  <2>. QED  BY <1>4, <2>1
<1>6. f \in [0 .. n -> D]
  BY <1>4
<1>. QED  BY <1>5, <1>6 DEF Solves
-----------------------------------------------------------------------------
(* The header of a frame.                                                   *)

LEMMA Digits ==
  ASSUME NEW a \in Nat, NEW B \in Nat \ {0}
  PROVE  a \div B \in Nat /\ a % B \in Nat /\ a = (a \div B) * B + (a % B)
<1>1. a \div B \in Nat
  OBVIOUS
<1>2. a % B \in Nat
  OBVIOUS
<1>3. a = B * (a \div B) + (a % B)
  OBVIOUS
<1>. QED  BY <1>1, <1>2, <1>3

LEMMA FewerDigits ==
  ASSUME NEW a \in Nat, NEW B \in Nat \ {0}, NEW P \in Nat, a < B * P
  PROVE  a \div B < P
<1>1. PICK q \in Nat : q = a \div B
  BY Digits
<1>2. a >= q * B
  BY <1>1, Digits
<1>3. ASSUME q >= P PROVE FALSE
  <2>1. PICK e \in Nat : q = P + e
    BY <1>3
  <2>2. q * B = P * B + e * B /\ e * B \in Nat /\ P * B = B * P /\ P * B \in Nat
    BY <2>1
  <2>. QED  BY <1>2, <2>2
<1>. QED  BY <1>1, <1>3

IsValue(value, bytes) ==
  value = [k \in 0 .. Len(bytes) |-> IF k = 0 THEN 0 ELSE value[k - 1] * Base + bytes[k]]

\* The numbers of the beginnings of some bytes.
LEMMA Numbers ==
  ASSUME NEW bytes \in Seq(Nat)
  PROVE  \E value \in [0 .. Len(bytes) -> Nat] :
           /\ Number(bytes) = value[Len(bytes)] /\ value[0] = 0
           /\ \A k \in 1 .. Len(bytes) : value[k] = value[k - 1] * Base + bytes[k]
<1>0. PICK n \in Nat : n = Len(bytes)
  OBVIOUS
<1>1. PICK step : step = [x \in (1 .. n) \X Nat |-> x[2] * Base + bytes[x[1]]]
  OBVIOUS
<1>2. IsStep(step, n, Nat)
  <2>. SUFFICES ASSUME NEW k \in 1 .. n, NEW v \in Nat PROVE v * Base + bytes[k] \in Nat
    BY <1>1 DEF IsStep
  <2>1. bytes[k] \in Nat /\ Base \in Nat
    BY <1>0, FramingAssumption
  <2>2. v * Base \in Nat
    BY <2>1
  <2>. QED  BY <2>1, <2>2
<1>3. \A v \in Nat : \A k \in 1 .. n : step[<<k, v>>] = v * Base + bytes[k]
  BY <1>1
<1>4. 0 \in Nat
  OBVIOUS
<1>5. PICK g : Solves(g, step, n, Nat, 0)
  BY <1>2, <1>4, Recursion
<1>6. IsValue(g, bytes)
  <2>1. \A k \in 1 .. n : g[k] = g[k - 1] * Base + bytes[k]
    <3>1. \A k \in 1 .. n : g[k - 1] \in Nat
      BY <1>5 DEF Solves
    <3>. QED  BY <1>3, <1>5, <3>1 DEF Solves
  <2>2. \A k \in 0 .. n : g[k] = IF k = 0 THEN 0 ELSE g[k - 1] * Base + bytes[k]
    <3>1. \A k \in 0 .. n : k = 0 \/ k \in 1 .. n
      OBVIOUS
    <3>. QED  BY <1>5, <2>1, <3>1 DEF Solves
  <2>3. g = [k \in 0 .. n |-> g[k]]
    BY <1>5 DEF Solves
  <2>4. g = [k \in 0 .. n |-> IF k = 0 THEN 0 ELSE g[k - 1] * Base + bytes[k]]
    BY <2>2, <2>3, Zenon
  <2>. QED  BY <1>0, <2>4, Zenon DEF IsValue
<1>7. \A value : IsValue(value, bytes) <=>
        value = [k \in 0 .. Len(bytes) |-> IF k = 0 THEN 0 ELSE value[k - 1] * Base + bytes[k]]
  BY DEF IsValue
<1>8. PICK value : IsValue(value, bytes) /\ Number(bytes) = value[Len(bytes)]
  BY <1>6, <1>7 DEF Number
<1>9. value = [k \in 0 .. n |-> IF k = 0 THEN 0 ELSE value[k - 1] * Base + bytes[k]]
  BY <1>0, <1>8, Zenon DEF IsValue
<1>10. value = [k \in 0 .. n |-> value[k]] /\ value[0] = 0
       /\ \A k \in 1 .. n : value[k] = value[k - 1] * Base + bytes[k]
  <2>1. value = [k \in 0 .. n |-> value[k]]
    BY <1>9
  <2>2. \A k \in 0 .. n : value[k] = IF k = 0 THEN 0 ELSE value[k - 1] * Base + bytes[k]
    BY <1>9, Zenon
  <2>3. 0 \in 0 .. n /\ \A k \in 1 .. n : k \in 0 .. n /\ k # 0
    OBVIOUS
  <2>. QED  BY <2>1, <2>2, <2>3
<1>11. Solves(value, step, n, Nat, 0)
  <2>1. GoesOn(value, step, n, Nat, 0)
    BY <1>3, <1>10 DEF GoesOn
  <2>. QED  BY <1>2, <1>4, <2>1, FollowsSteps
<1>. QED  BY <1>0, <1>8, <1>10, <1>11 DEF Solves

IsLeft(left, n) == left = [k \in 0 .. HeaderLen |-> IF k = 0 THEN n ELSE left[k - 1] \div Base]

\* What is left of a number without its lowest digits.
Leaves(left, n, h) == /\ left \in [0 .. h -> Nat] /\ left[0] = n
                      /\ \A k \in 1 .. h : left[k] = left[k - 1] \div Base
                      /\ Header(n) = [k \in 1 .. h |-> left[h - k] % Base]

LEMMA Headers == ASSUME NEW n \in Nat PROVE \E left : Leaves(left, n, HeaderLen)
<1>0. PICK h \in Nat : h = HeaderLen
  BY FramingAssumption
<1>1. PICK step : step = [x \in (1 .. h) \X Nat |-> x[2] \div Base]
  OBVIOUS
<1>2. IsStep(step, h, Nat)
  <2>. SUFFICES ASSUME NEW k \in 1 .. h, NEW v \in Nat PROVE v \div Base \in Nat
    BY <1>1 DEF IsStep
  <2>1. Base \in Nat \ {0}
    BY FramingAssumption
  <2>. QED  BY <2>1, Digits
<1>3. \A v \in Nat : \A k \in 1 .. h : step[<<k, v>>] = v \div Base
  BY <1>1
<1>5. PICK g : Solves(g, step, h, Nat, n)
  BY <1>2, Recursion
<1>6. IsLeft(g, n)
  <2>1. \A k \in 1 .. h : g[k] = g[k - 1] \div Base
    <3>1. \A k \in 1 .. h : g[k - 1] \in Nat
      BY <1>5 DEF Solves
    <3>. QED  BY <1>3, <1>5, <3>1 DEF Solves
  <2>2. \A k \in 0 .. h : g[k] = IF k = 0 THEN n ELSE g[k - 1] \div Base
    <3>1. \A k \in 0 .. h : k = 0 \/ k \in 1 .. h
      OBVIOUS
    <3>. QED  BY <1>5, <2>1, <3>1 DEF Solves
  <2>3. g = [k \in 0 .. h |-> g[k]]
    BY <1>5 DEF Solves
  <2>4. g = [k \in 0 .. h |-> IF k = 0 THEN n ELSE g[k - 1] \div Base]
    BY <2>2, <2>3, Zenon
  <2>. QED  BY <1>0, <2>4, Zenon DEF IsLeft
<1>7. \A left : IsLeft(left, n) <=>
        left = [k \in 0 .. HeaderLen |-> IF k = 0 THEN n ELSE left[k - 1] \div Base]
  BY DEF IsLeft
<1>8. PICK left : IsLeft(left, n) /\ Header(n) = [k \in 1 .. HeaderLen |-> left[HeaderLen - k] % Base]
  BY <1>6, <1>7 DEF Header
<1>9. left = [k \in 0 .. h |-> IF k = 0 THEN n ELSE left[k - 1] \div Base]
  BY <1>0, <1>8, Zenon DEF IsLeft
<1>10. left = [k \in 0 .. h |-> left[k]] /\ left[0] = n
       /\ \A k \in 1 .. h : left[k] = left[k - 1] \div Base
  <2>1. left = [k \in 0 .. h |-> left[k]]
    BY <1>9
  <2>2. \A k \in 0 .. h : left[k] = IF k = 0 THEN n ELSE left[k - 1] \div Base
    BY <1>9, Zenon
  <2>3. 0 \in 0 .. h /\ \A k \in 1 .. h : k \in 0 .. h /\ k # 0
    OBVIOUS
  <2>. QED  BY <2>1, <2>2, <2>3
<1>11. Solves(left, step, h, Nat, n)
  <2>1. GoesOn(left, step, h, Nat, n)
    BY <1>3, <1>10 DEF GoesOn
  <2>. QED  BY <1>2, <2>1, FollowsSteps
<1>12. Header(n) = [k \in 1 .. h |-> left[h - k] % Base]
  BY <1>0, <1>8, Zenon
<1>13. Leaves(left, n, h)
  BY <1>10, <1>11, <1>12 DEF Solves, Leaves
<1>. QED  BY <1>0, <1>13

IsPower(power, n) == power = [k \in 0 .. n |-> IF k = 0 THEN 1 ELSE Base * power[k - 1]]

LEMMA Powers ==
  ASSUME NEW n \in Nat
  PROVE  \E power \in [0 .. n -> Nat] :
           /\ Power(n) = power[n] /\ power[0] = 1
           /\ \A k \in 1 .. n : power[k] = Base * power[k - 1]
<1>1. PICK step : step = [x \in (1 .. n) \X Nat |-> Base * x[2]]
  OBVIOUS
<1>2. IsStep(step, n, Nat)
  <2>. SUFFICES ASSUME NEW k \in 1 .. n, NEW v \in Nat PROVE Base * v \in Nat
    BY <1>1 DEF IsStep
  <2>. QED  BY FramingAssumption
<1>3. \A v \in Nat : \A k \in 1 .. n : step[<<k, v>>] = Base * v
  BY <1>1
<1>4. 1 \in Nat
  OBVIOUS
<1>5. PICK g : Solves(g, step, n, Nat, 1)
  BY <1>2, <1>4, Recursion
<1>6. IsPower(g, n)
  <2>1. \A k \in 1 .. n : g[k] = Base * g[k - 1]
    <3>1. \A k \in 1 .. n : g[k - 1] \in Nat
      BY <1>5 DEF Solves
    <3>. QED  BY <1>3, <1>5, <3>1 DEF Solves
  <2>2. \A k \in 0 .. n : g[k] = IF k = 0 THEN 1 ELSE Base * g[k - 1]
    <3>1. \A k \in 0 .. n : k = 0 \/ k \in 1 .. n
      OBVIOUS
    <3>. QED  BY <1>5, <2>1, <3>1 DEF Solves
  <2>3. g = [k \in 0 .. n |-> g[k]]
    BY <1>5 DEF Solves
  <2>4. g = [k \in 0 .. n |-> IF k = 0 THEN 1 ELSE Base * g[k - 1]]
    BY <2>2, <2>3, Zenon
  <2>. QED  BY <2>4, Zenon DEF IsPower
<1>7. \A power : IsPower(power, n) <=>
        power = [k \in 0 .. n |-> IF k = 0 THEN 1 ELSE Base * power[k - 1]]
  BY DEF IsPower
<1>8. PICK power : IsPower(power, n) /\ Power(n) = power[n]
  BY <1>6, <1>7 DEF Power
<1>9. power = [k \in 0 .. n |-> IF k = 0 THEN 1 ELSE Base * power[k - 1]]
  BY <1>8, Zenon DEF IsPower
<1>10. power = [k \in 0 .. n |-> power[k]] /\ power[0] = 1
       /\ \A k \in 1 .. n : power[k] = Base * power[k - 1]
  <2>1. power = [k \in 0 .. n |-> power[k]]
    BY <1>9
  <2>2. \A k \in 0 .. n : power[k] = IF k = 0 THEN 1 ELSE Base * power[k - 1]
    BY <1>9, Zenon
  <2>3. 0 \in 0 .. n /\ \A k \in 1 .. n : k \in 0 .. n /\ k # 0
    OBVIOUS
  <2>. QED  BY <2>1, <2>2, <2>3
<1>11. Solves(power, step, n, Nat, 1)
  <2>1. GoesOn(power, step, n, Nat, 1)
    BY <1>3, <1>10 DEF GoesOn
  <2>. QED  BY <1>2, <1>4, <2>1, FollowsSteps
<1>. QED  BY <1>8, <1>10, <1>11 DEF Solves

\* A length that fits into the header is the number in it.
LEMMA NumberOfHeader ==
  ASSUME NEW n \in Nat, n < Power(HeaderLen)
  PROVE  Header(n) \in Seq(Nat) /\ Len(Header(n)) = HeaderLen /\ Number(Header(n)) = n
<1>0. PICK h \in Nat : h = HeaderLen
  BY FramingAssumption
<1>1. Base \in Nat \ {0}
  BY FramingAssumption
<1>2. PICK left \in [0 .. h -> Nat] :
           /\ Header(n) = [k \in 1 .. h |-> left[h - k] % Base] /\ left[0] = n
           /\ \A k \in 1 .. h : left[k] = left[k - 1] \div Base
  <2>1. \E left : Leaves(left, n, h)
    BY <1>0, Headers
  <2>. QED  BY <2>1 DEF Leaves
<1>3. PICK power \in [0 .. h -> Nat] :
           /\ Power(h) = power[h] /\ power[0] = 1
           /\ \A k \in 1 .. h : power[k] = Base * power[k - 1]
  BY <1>0, Powers
<1>4. PICK bytes : bytes = Header(n)
  OBVIOUS
<1>5. bytes \in Seq(Nat) /\ Len(bytes) = h /\ \A k \in 1 .. h : bytes[k] = left[h - k] % Base
  <2>1. \A k \in 1 .. h : left[h - k] % Base \in Nat
    <3>. TAKE k \in 1 .. h
    <3>1. PICK a \in Nat : a = left[h - k]
      <4>1. h - k \in 0 .. h
        OBVIOUS
      <4>. QED  BY <4>1
    <3>. QED  BY <1>1, <3>1, Digits
  <2>2. \A k \in 1 .. h : bytes[k] = left[h - k] % Base
    BY <1>2, <1>4
  <2>3. bytes \in [1 .. h -> Nat]
    BY <1>2, <1>4, <2>1
  <2>4. bytes \in Seq(Nat)
    BY <2>3, SeqDef
  <2>. QED  BY <2>2, <2>3, <2>4
<1>6. PICK value \in [0 .. h -> Nat] :
           /\ Number(bytes) = value[h] /\ value[0] = 0
           /\ \A k \in 1 .. h : value[k] = value[k - 1] * Base + bytes[k]
  BY <1>5, Numbers
<1>. DEFINE S == {k \in Nat : k <= h => left[k] < power[h - k]}
<1>7. 0 \in S
  <2>1. n < power[h] /\ h - 0 = h
    BY <1>0, <1>3
  <2>. QED  BY <1>2, <2>1
<1>8. ASSUME NEW k \in Nat, k \in S PROVE k + 1 \in S
  <2>. SUFFICES ASSUME k + 1 <= h PROVE left[k + 1] < power[h - (k + 1)]
    OBVIOUS
  <2>1. PICK m \in 1 .. h : m = k + 1
    OBVIOUS
  <2>2. PICK i \in 1 .. h : i = h - k
    OBVIOUS
  <2>3. k \in 0 .. h /\ m - 1 = k /\ i - 1 \in 0 .. h /\ h - m = i - 1 /\ k <= h
    BY <2>1, <2>2
  <2>4. PICK a \in Nat : a = left[k]
    BY <2>3
  <2>5. PICK P \in Nat : P = power[i - 1]
    BY <2>3
  <2>6. a < Base * P
    BY <1>3, <1>8, <2>2, <2>3, <2>4, <2>5
  <2>7. left[m] = a \div Base
    BY <1>2, <2>3, <2>4
  <2>8. a \div Base < P
    BY <1>1, <2>6, FewerDigits
  <2>. QED  BY <2>1, <2>3, <2>5, <2>7, <2>8
<1>. HIDE DEF S
<1>9. Nat \subseteq S
  BY <1>7, <1>8, NatSetInduction
<1>10. left[h] = 0
  <2>1. left[h] < power[h - h] /\ h - h = 0 /\ left[h] \in Nat
    BY <1>9 DEF S
  <2>. QED  BY <1>3, <2>1
<1>. DEFINE R == {j \in Nat : j <= h => value[j] = left[h - j]}
<1>11. 0 \in R
  <2>1. h - 0 = h
    OBVIOUS
  <2>. QED  BY <1>6, <1>10, <2>1
<1>12. ASSUME NEW j \in Nat, j \in R PROVE j + 1 \in R
  <2>. SUFFICES ASSUME j + 1 <= h PROVE value[j + 1] = left[h - (j + 1)]
    OBVIOUS
  <2>1. PICK m \in 1 .. h : m = j + 1
    OBVIOUS
  <2>2. PICK i \in 1 .. h : i = h - j
    OBVIOUS
  <2>3. m - 1 = j /\ i - 1 \in 0 .. h /\ h - m = i - 1 /\ j <= h
    BY <2>1, <2>2
  <2>4. PICK a \in Nat : a = left[i - 1]
    BY <2>3
  <2>5. PICK q \in Nat, r \in Nat : q = a \div Base /\ r = a % Base /\ a = q * Base + r
    BY <1>1, Digits
  <2>6. left[i] = q /\ bytes[m] = r
    BY <1>2, <1>5, <2>3, <2>4, <2>5
  <2>7. value[j] = q
    BY <1>12, <2>2, <2>3, <2>6
  <2>8. value[m] = q * Base + r
    BY <1>6, <2>3, <2>6, <2>7
  <2>. QED  BY <2>1, <2>3, <2>4, <2>5, <2>8
<1>. HIDE DEF R
<1>13. Nat \subseteq R
  BY <1>11, <1>12, NatSetInduction
<1>14. value[h] = n
  <2>1. value[h] = left[h - h] /\ h - h = 0
    BY <1>13 DEF R
  <2>. QED  BY <1>2, <2>1
<1>. QED  BY <1>0, <1>4, <1>5, <1>6, <1>14

-----------------------------------------------------------------------------
(* The frames of a message.                                                 *)

DecodedAt(from, p, i) ==
  LET left == Len(p) + 1 - i
      n == Number(SubSeq(p, i, i + HeaderLen - 1))
      rest == from[i + HeaderLen + n]
  IN  CASE left = 0 -> [ok |-> TRUE, frames |-> <<>>]
        [] left \in 1 .. HeaderLen - 1 -> Refusal
        [] left >= HeaderLen /\ ~Fits(n, left) -> Refusal
        [] OTHER -> IF rest.ok
                    THEN [ok |-> TRUE,
                          frames |-> <<SubSeq(p, i + HeaderLen, i + HeaderLen + n - 1)>>
                                       \o rest.frames]
                    ELSE Refusal

IsDecoding(from, p) == from = [i \in 1 .. Len(p) + 1 |-> DecodedAt(from, p, i)]

\* The number that the header at a position has.
LEMMA HeaderIsNumber ==
  ASSUME NEW p \in Seq(Nat), NEW i \in Nat \ {0}, i + HeaderLen <= Len(p) + 1
  PROVE  Number(SubSeq(p, i, i + HeaderLen - 1)) \in Nat
<1>1. PICK h \in Nat : h = HeaderLen
  BY FramingAssumption
<1>2. PICK s : s = SubSeq(p, i, i + h - 1)
  OBVIOUS
<1>3. s \in Seq(Nat)
  BY <1>1, <1>2
<1>4. Number(s) \in Nat
  BY <1>3, Numbers
<1>. QED  BY <1>1, <1>2, <1>4

\* What is decoded from a position on depends on what is behind it.
LEMMA DecodedByRest ==
  ASSUME NEW p \in Seq(Nat), NEW i \in 1 .. Len(p) + 1, NEW f, NEW g,
         \A j \in 1 .. Len(p) + 1 : j > i => f[j] = g[j]
  PROVE  DecodedAt(f, p, i) = DecodedAt(g, p, i)
<1>1. PICK h \in Nat \ {0} : h = HeaderLen
  BY FramingAssumption
<1>2. PICK l \in Nat : l = Len(p)
  OBVIOUS
<1>3. PICK left \in Nat : left = l + 1 - i
  BY <1>2
<1>4. PICK n : n = Number(SubSeq(p, i, i + h - 1))
  OBVIOUS
<1>5. CASE left >= h /\ Fits(n, left)
  <2>1. n \in Nat
    <3>1. i \in Nat \ {0} /\ i + HeaderLen <= Len(p) + 1
      BY <1>1, <1>2, <1>3, <1>5
    <3>. QED  BY <1>1, <1>4, <3>1, HeaderIsNumber
  <2>2. h + n <= left
    BY <1>1, <1>5 DEF Fits
  <2>3. PICK j \in 1 .. l + 1 : j = i + h + n /\ j > i
    BY <1>2, <1>3, <2>1, <2>2
  <2>4. f[j] = g[j]
    BY <1>2, <2>3
  <2>5. f[i + HeaderLen + n] = g[i + HeaderLen + n]
    BY <1>1, <2>3, <2>4
  <2>6. f[i + HeaderLen + Number(SubSeq(p, i, i + HeaderLen - 1))]
          = g[i + HeaderLen + Number(SubSeq(p, i, i + HeaderLen - 1))]
    BY <1>1, <1>4, <2>5
  <2>. QED  BY <2>6 DEF DecodedAt
<1>6. CASE ~(left >= h /\ Fits(n, left))
  <2>1. left = 0 \/ left \in 1 .. h - 1 \/ left >= h
    OBVIOUS
  <2>2. PICK c : c = Len(p) + 1 - i
    OBVIOUS
  <2>3. \/ c = 0 \/ c \in 1 .. HeaderLen - 1
        \/ c >= HeaderLen /\ ~Fits(Number(SubSeq(p, i, i + HeaderLen - 1)), c)
    BY <1>1, <1>2, <1>3, <1>4, <1>6, <2>1, <2>2
  <2>4. ~(c = 0 /\ c \in 1 .. HeaderLen - 1) /\ ~(c = 0 /\ c >= HeaderLen)
        /\ ~(c \in 1 .. HeaderLen - 1 /\ c >= HeaderLen)
    BY <1>1, <1>2, <1>3, <2>2
  <2>. QED  BY <2>2, <2>3, <2>4 DEF DecodedAt
<1>. QED  BY <1>5, <1>6

\* There is such a function, and Decode is its first value.
LEMMA Decoding ==
  ASSUME NEW p \in Seq(Nat)
  PROVE  \E from : Decode(p) = from[1] /\ \A i \in 1 .. Len(p) + 1 : from[i] = DecodedAt(from, p, i)
<1>1. PICK l \in Nat : l = Len(p)
  OBVIOUS
<1>. DEFINE To(f, m) == DOMAIN f = 1 .. l + 1 /\ f = [i \in 1 .. l + 1 |-> f[i]]
                        /\ \A i \in 1 .. l + 1 : i + m >= l + 1 => f[i] = DecodedAt(f, p, i)
            S == {m \in Nat : m <= l => \E f : To(f, m)}
<1>2. 0 \in S
  <2>1. PICK f : f = [i \in 1 .. l + 1 |-> DecodedAt(p, p, l + 1)]
    OBVIOUS
  <2>2. DecodedAt(f, p, l + 1) = DecodedAt(p, p, l + 1)
    <3>1. PICK i \in 1 .. Len(p) + 1 : i = l + 1
      BY <1>1
    <3>2. \A j \in 1 .. Len(p) + 1 : j > i => f[j] = p[j]
      BY <1>1, <3>1
    <3>3. DecodedAt(f, p, i) = DecodedAt(p, p, i)
      BY <3>2, DecodedByRest
    <3>. QED  BY <3>1, <3>3
  <2>3. \A i \in 1 .. l + 1 : i + 0 >= l + 1 => i = l + 1
    OBVIOUS
  <2>4. To(f, 0)
    BY <2>1, <2>2, <2>3
  <2>. QED  BY <2>4
<1>3. ASSUME NEW m \in Nat, m \in S PROVE m + 1 \in S
  <2>. SUFFICES ASSUME m + 1 <= l PROVE \E f : To(f, m + 1)
    OBVIOUS
  <2>1. PICK f : To(f, m)
    BY <1>3
  <2>2. PICK at \in 1 .. l : at = l - m
    OBVIOUS
  <2>3. PICK d : d = DecodedAt(f, p, at)
    OBVIOUS
  <2>4. PICK g : g = [i \in 1 .. l + 1 |-> IF i = at THEN d ELSE f[i]]
    OBVIOUS
  <2>5. \A i \in 1 .. l + 1 : i # at => g[i] = f[i]
    BY <2>4
  <2>6. \A i \in 1 .. l + 1 : i >= at => DecodedAt(g, p, i) = DecodedAt(f, p, i)
    <3>. TAKE i \in 1 .. l + 1
    <3>. HAVE i >= at
    <3>1. \A j \in 1 .. Len(p) + 1 : j > i => g[j] = f[j]
      BY <1>1, <2>2, <2>5
    <3>2. i \in 1 .. Len(p) + 1
      BY <1>1
    <3>. QED  BY <3>1, <3>2, DecodedByRest
  <2>7. \A i \in 1 .. l + 1 : i >= at => g[i] = DecodedAt(g, p, i)
    <3>. TAKE i \in 1 .. l + 1
    <3>. HAVE i >= at
    <3>1. CASE i = at
      BY <2>3, <2>4, <2>6, <3>1
    <3>2. CASE i # at
      <4>1. i + m >= l + 1
        BY <2>2, <3>2
      <4>2. f[i] = DecodedAt(f, p, i)
        BY <2>1, <4>1
      <4>3. g[i] = f[i]
        BY <2>5, <3>2
      <4>. QED  BY <2>6, <4>2, <4>3
    <3>. QED  BY <3>1, <3>2
  <2>8. To(g, m + 1)
    <3>1. \A i \in 1 .. l + 1 : i + (m + 1) >= l + 1 => i >= at
      BY <2>2
    <3>2. DOMAIN g = 1 .. l + 1 /\ g = [i \in 1 .. l + 1 |-> g[i]]
      BY <2>4
    <3>. QED  BY <2>7, <3>1, <3>2
  <2>. QED  BY <2>8
<1>. HIDE DEF S
<1>4. Nat \subseteq S
  BY <1>2, <1>3, NatSetInduction
<1>5. PICK f : To(f, l)
  BY <1>4 DEF S
<1>6. IsDecoding(f, p)
  <2>1. \A i \in 1 .. l + 1 : f[i] = DecodedAt(f, p, i)
    <3>1. \A i \in 1 .. l + 1 : i + l >= l + 1
      OBVIOUS
    <3>. QED  BY <1>5, <3>1
  <2>2. f = [i \in 1 .. l + 1 |-> f[i]]
    BY <1>5
  <2>. QED  BY <1>1, <2>1, <2>2, Zenon DEF IsDecoding
<1>7. \A from : IsDecoding(from, p) <=>
        from = [i \in 1 .. Len(p) + 1 |->
                  LET left == Len(p) + 1 - i
                      n == Number(SubSeq(p, i, i + HeaderLen - 1))
                      rest == from[i + HeaderLen + n]
                  IN  CASE left = 0 -> [ok |-> TRUE, frames |-> <<>>]
                        [] left \in 1 .. HeaderLen - 1 -> Refusal
                        [] left >= HeaderLen /\ ~Fits(n, left) -> Refusal
                        [] OTHER -> IF rest.ok
                                    THEN [ok |-> TRUE,
                                          frames |-> <<SubSeq(p, i + HeaderLen, i + HeaderLen + n - 1)>>
                                                       \o rest.frames]
                                    ELSE Refusal]
  BY Zenon DEF IsDecoding, DecodedAt
<1>8. \E from : IsDecoding(from, p) /\ Decode(p) = from[1]
  BY <1>6, <1>7 DEF Decode
<1>. QED  BY <1>8 DEF IsDecoding

\* A frame begins at a position, of which the last bytes may be missing.
BeginsAt(frame, p, i) ==
  \A y \in 1 .. HeaderLen + Len(frame) : i - 1 + y <= Len(p) => p[i - 1 + y] = Encode(frame)[y]

LEMMA HeaderAt ==
  ASSUME NEW p \in Seq(Nat), NEW i \in Nat \ {0}, i - 1 + HeaderLen <= Len(p),
         NEW frame \in Seq(Nat), Len(frame) < Power(HeaderLen), BeginsAt(frame, p, i)
  PROVE  Number(SubSeq(p, i, i + HeaderLen - 1)) = Len(frame)
<1>1. PICK h \in Nat \ {0} : h = HeaderLen
  BY FramingAssumption
<1>2. PICK n \in Nat : n = Len(frame)
  OBVIOUS
<1>3. PICK header : header = Header(n)
  OBVIOUS
<1>4. header \in Seq(Nat) /\ Len(header) = h /\ Number(header) = n
  BY <1>1, <1>2, <1>3, NumberOfHeader
<1>5. PICK s : s = SubSeq(p, i, i + h - 1)
  OBVIOUS
<1>6. s \in Seq(Nat) /\ Len(s) = h /\ \A y \in 1 .. h : s[y] = p[i - 1 + y]
  BY <1>1, <1>5
<1>7. PICK bytes : bytes = Encode(frame)
  OBVIOUS
<1>8. \A y \in 1 .. h : bytes[y] = header[y]
  <2>1. bytes = header \o frame
    BY <1>2, <1>3, <1>7 DEF Encode
  <2>. QED  BY <1>4, <2>1
<1>9. \A y \in 1 .. h : p[i - 1 + y] = bytes[y]
  <2>1. \A y \in 1 .. h : y \in 1 .. HeaderLen + Len(frame) /\ i - 1 + y <= Len(p)
    BY <1>1, <1>2
  <2>. QED  BY <1>7, <2>1 DEF BeginsAt
<1>10. s = header
  <2>1. \A y \in 1 .. h : s[y] = header[y]
    BY <1>6, <1>8, <1>9
  <2>. QED  BY <1>4, <1>6, <2>1, SeqEqual
<1>. QED  BY <1>1, <1>2, <1>4, <1>5, <1>10

\* The frame that begins at a position.
LEMMA DecodedFrame ==
  ASSUME NEW p \in Seq(Nat), NEW i \in Nat \ {0}, NEW from,
         NEW frame \in Seq(Nat), Len(frame) < Power(HeaderLen), BeginsAt(frame, p, i),
         i - 1 + (HeaderLen + Len(frame)) <= Len(p)
  PROVE  DecodedAt(from, p, i) =
           IF Len(frame) <= MaxFrame /\ from[i + HeaderLen + Len(frame)].ok
           THEN [ok |-> TRUE, frames |-> <<frame>> \o from[i + HeaderLen + Len(frame)].frames]
           ELSE Refusal
<1>1. PICK h \in Nat \ {0} : h = HeaderLen
  BY FramingAssumption
<1>2. PICK n \in Nat : n = Len(frame)
  OBVIOUS
<1>3. PICK l \in Nat : l = Len(p)
  OBVIOUS
<1>4. PICK left \in Nat : left = l + 1 - i /\ left >= h + n
  <2>1. i - 1 + (h + n) <= l
    BY <1>1, <1>2, <1>3
  <2>2. l + 1 - i \in Nat /\ l + 1 - i >= h + n
    BY <2>1
  <2>. QED  BY <2>2
<1>5. Number(SubSeq(p, i, i + HeaderLen - 1)) = n
  <2>1. i - 1 + HeaderLen <= Len(p)
    BY <1>1, <1>3, <1>4
  <2>. QED  BY <1>2, <2>1, HeaderAt
<1>6. SubSeq(p, i + h, i + h + n - 1) = frame
  <2>1. PICK s : s = SubSeq(p, i + h, i + h + n - 1)
    OBVIOUS
  <2>a. PICK first \in Nat \ {0}, end \in Nat : first = i + h /\ end = i + h + n - 1
    OBVIOUS
  <2>b. s = SubSeq(p, first, end) /\ end - first + 1 = n /\ end <= l /\ first >= 1
        /\ \A y \in 1 .. n : first + y - 1 = i + h - 1 + y
    BY <1>4, <2>1, <2>a
  <2>2. s \in Seq(Nat) /\ Len(s) = n /\ \A y \in 1 .. n : s[y] = p[i + h - 1 + y]
    <3>1. \A j \in first .. end : p[j] \in Nat
      <4>1. \A j \in first .. end : j \in 1 .. Len(p)
        BY <1>3, <2>b
      <4>. QED  BY <4>1
    <3>2. first \in Int /\ end \in Int
      OBVIOUS
    <3>3. /\ SubSeq(p, first, end) \in Seq(Nat)
          /\ Len(SubSeq(p, first, end)) = IF first <= end THEN end - first + 1 ELSE 0
          /\ \A y \in 1 .. end - first + 1 : SubSeq(p, first, end)[y] = p[first + y - 1]
      BY <3>1, <3>2, SubSeqProperties
    <3>4. /\ s \in Seq(Nat) /\ Len(s) = IF first <= end THEN end - first + 1 ELSE 0
          /\ \A y \in 1 .. end - first + 1 : s[y] = p[first + y - 1]
      BY <2>b, <3>3, Zenon
    <3>5. first <= end \/ n = 0
      BY <2>b
    <3>. QED  BY <2>b, <3>4, <3>5
  <2>3. PICK bytes : bytes = Encode(frame)
    OBVIOUS
  <2>4. \A y \in 1 .. n : bytes[h + y] = frame[y]
    <3>1. PICK header : header = Header(n)
      OBVIOUS
    <3>2. header \in Seq(Nat) /\ Len(header) = h
      BY <1>1, <1>2, <3>1, NumberOfHeader
    <3>3. bytes = header \o frame
      BY <1>2, <2>3, <3>1 DEF Encode
    <3>6. PICK both : both = header \o frame
      OBVIOUS
    <3>7. /\ Len(header \o frame) = Len(header) + Len(frame)
          /\ \A j \in 1 .. Len(header) + Len(frame) :
               (header \o frame)[j] = IF j <= Len(header) THEN header[j] ELSE frame[j - Len(header)]
      BY <3>2, ConcatProperties
    <3>8. Len(header) = h /\ Len(frame) = n
      BY <1>2, <3>2
    <3>9. \A j \in 1 .. h + n : both[j] = IF j <= h THEN header[j] ELSE frame[j - h]
      BY <3>6, <3>7, <3>8, Zenon
    <3>4. \A j \in 1 .. h + n : bytes[j] = IF j <= h THEN header[j] ELSE frame[j - h]
      BY <3>3, <3>6, <3>9, Zenon
    <3>5. \A y \in 1 .. n : h + y \in 1 .. h + n /\ ~(h + y <= h) /\ h + y - h = y
      OBVIOUS
    <3>. QED  BY <3>4, <3>5
  <2>5. \A y \in 1 .. n : p[i + h - 1 + y] = bytes[h + y]
    <3>. TAKE y \in 1 .. n
    <3>1. PICK x \in 1 .. HeaderLen + Len(frame) : x = h + y
      BY <1>1, <1>2
    <3>2. i - 1 + x <= Len(p) /\ i - 1 + x = i + h - 1 + y
      BY <1>1, <1>2, <3>1
    <3>3. p[i - 1 + x] = bytes[x]
      BY <2>3, <3>2 DEF BeginsAt
    <3>. QED  BY <3>1, <3>2, <3>3
  <2>6. s = frame
    <3>1. \A y \in 1 .. n : s[y] = frame[y]
      BY <2>2, <2>4, <2>5
    <3>. QED  BY <1>2, <2>2, <3>1, SeqEqual
  <2>. QED  BY <2>1, <2>6
<1>7. PICK c : c = Len(p) + 1 - i
  OBVIOUS
<1>8. c # 0 /\ c \notin 1 .. HeaderLen - 1 /\ c >= HeaderLen /\ (Fits(n, c) <=> n <= MaxFrame)
  <2>1. c = left
    BY <1>3, <1>4, <1>7
  <2>2. MaxFrame \in Nat
    BY FramingAssumption
  <2>. QED  BY <1>1, <1>4, <2>1, <2>2 DEF Fits
<1>9. DecodedAt(from, p, i) =
        IF Fits(n, c) /\ from[i + HeaderLen + n].ok
        THEN [ok |-> TRUE, frames |-> <<SubSeq(p, i + HeaderLen, i + HeaderLen + n - 1)>>
                                        \o from[i + HeaderLen + n].frames]
        ELSE Refusal
  BY <1>5, <1>7, <1>8 DEF DecodedAt
<1>. QED  BY <1>1, <1>2, <1>6, <1>8, <1>9, Zenon

\* A frame whose end is missing is refused.
LEMMA DecodedCut ==
  ASSUME NEW p \in Seq(Nat), NEW i \in Nat \ {0}, NEW from, i <= Len(p),
         NEW frame \in Seq(Nat), Len(frame) < Power(HeaderLen), BeginsAt(frame, p, i),
         i - 1 + (HeaderLen + Len(frame)) > Len(p)
  PROVE  DecodedAt(from, p, i) = Refusal
<1>1. PICK h \in Nat \ {0} : h = HeaderLen
  BY FramingAssumption
<1>2. PICK n \in Nat : n = Len(frame)
  OBVIOUS
<1>3. PICK c \in Nat : c = Len(p) + 1 - i /\ c > 0 /\ c < h + n
  <2>1. PICK l \in Nat : l = Len(p)
    OBVIOUS
  <2>2. i - 1 + (h + n) > l /\ i <= l
    BY <1>1, <1>2, <2>1
  <2>3. l + 1 - i \in Nat /\ l + 1 - i > 0 /\ l + 1 - i < h + n
    BY <2>2
  <2>. QED  BY <2>1, <2>3
<1>4. CASE c < h
  <2>1. c \in 1 .. HeaderLen - 1 /\ c # 0 /\ ~(c >= HeaderLen)
    BY <1>1, <1>3, <1>4
  <2>. QED  BY <1>3, <2>1 DEF DecodedAt
<1>5. CASE c >= h
  <2>1. Number(SubSeq(p, i, i + HeaderLen - 1)) = n
    <3>1. i - 1 + HeaderLen <= Len(p)
      BY <1>1, <1>3, <1>5
    <3>. QED  BY <1>2, <3>1, HeaderAt
  <2>2. c # 0 /\ c \notin 1 .. HeaderLen - 1 /\ c >= HeaderLen /\ ~Fits(n, c)
    BY <1>1, <1>3, <1>5 DEF Fits
  <2>. QED  BY <1>3, <2>1, <2>2 DEF DecodedAt
<1>. QED  BY <1>3, <1>4, <1>5

-----------------------------------------------------------------------------
(* The bytes of some frames, one behind the other.                          *)

IsFlattening(flatten, parts) ==
  flatten = [i \in 1 .. Len(parts) |-> IF i = 1 THEN parts[i] ELSE flatten[i - 1] \o parts[i]]

Joins(flat, parts, n) == /\ flat \in [0 .. n -> Seq(Nat)] /\ flat[0] = <<>>
                         /\ \A k \in 1 .. n : flat[k] = flat[k - 1] \o parts[k]

LEMMA Flattening ==
  ASSUME NEW parts \in Seq(Seq(Nat))
  PROVE  \E flat : Joins(flat, parts, Len(parts)) /\ FlattenSeq(parts) = flat[Len(parts)]
<1>0. PICK n \in Nat : n = Len(parts)
  OBVIOUS
<1>a. PICK none \in Seq(Nat) : none = <<>>
  BY EmptySeq
<1>1. PICK step : step = [x \in (1 .. n) \X Seq(Nat) |-> x[2] \o parts[x[1]]]
  OBVIOUS
<1>2. IsStep(step, n, Seq(Nat))
  <2>. SUFFICES ASSUME NEW k \in 1 .. n, NEW v \in Seq(Nat) PROVE v \o parts[k] \in Seq(Nat)
    BY <1>1 DEF IsStep
  <2>1. parts[k] \in Seq(Nat)
    BY <1>0
  <2>. QED  BY <2>1
<1>3. \A v \in Seq(Nat) : \A k \in 1 .. n : step[<<k, v>>] = v \o parts[k]
  BY <1>1
<1>5. PICK g : Solves(g, step, n, Seq(Nat), none)
  BY <1>2, Recursion
<1>6. Joins(g, parts, n)
  <2>1. \A k \in 1 .. n : g[k - 1] \in Seq(Nat)
    BY <1>5 DEF Solves
  <2>. QED  BY <1>a, <1>3, <1>5, <2>1 DEF Solves, Joins
<1>7. CASE n = 0
  <2>1. parts = <<>>
    BY <1>0, <1>7, EmptySeq
  <2>2. FlattenSeq(parts) = parts
    BY <1>0, <1>7 DEF FlattenSeq
  <2>. QED  BY <1>0, <1>6, <1>7, <2>1, <2>2 DEF Joins
<1>8. CASE n # 0
  <2>1. PICK f : f = [k \in 1 .. n |-> g[k]]
    OBVIOUS
  <2>2. IsFlattening(f, parts)
    <3>1. \A k \in 1 .. n : f[k] = IF k = 1 THEN parts[k] ELSE f[k - 1] \o parts[k]
      <4>. TAKE k \in 1 .. n
      <4>1. f[k] = g[k - 1] \o parts[k]
        BY <1>6, <2>1 DEF Joins
      <4>2. CASE k = 1
        <5>1. g[k - 1] = none /\ parts[k] \in Seq(Nat)
          BY <1>0, <1>a, <1>6, <4>2 DEF Joins
        <5>2. none \o parts[k] = parts[k]
          BY <1>a, <5>1
        <5>. QED  BY <4>1, <4>2, <5>1, <5>2
      <4>3. CASE k # 1
        <5>1. k - 1 \in 1 .. n
          BY <4>3
        <5>2. f[k - 1] = g[k - 1]
          BY <2>1, <5>1
        <5>. QED  BY <4>1, <4>3, <5>2, Zenon
      <4>. QED  BY <4>2, <4>3
    <3>2. f = [k \in 1 .. n |-> f[k]]
      BY <2>1
    <3>3. f = [k \in 1 .. n |-> IF k = 1 THEN parts[k] ELSE f[k - 1] \o parts[k]]
      BY <3>1, <3>2, Zenon
    <3>. QED  BY <1>0, <3>3, Zenon DEF IsFlattening
  <2>3. \A flatten : IsFlattening(flatten, parts) <=>
          flatten = [i \in 1 .. Len(parts) |-> IF i = 1 THEN parts[i] ELSE flatten[i - 1] \o parts[i]]
    BY DEF IsFlattening
  <2>4. PICK flatten : IsFlattening(flatten, parts) /\ FlattenSeq(parts) = flatten[Len(parts)]
    BY <1>0, <1>8, <2>2, <2>3 DEF FlattenSeq
  <2>5. flatten = [i \in 1 .. n |-> IF i = 1 THEN parts[i] ELSE flatten[i - 1] \o parts[i]]
    BY <1>0, <2>4, Zenon DEF IsFlattening
  <2>6. \A k \in 1 .. n : flatten[k] = IF k = 1 THEN parts[k] ELSE flatten[k - 1] \o parts[k]
    BY <2>5, Zenon
  <2>7. PICK flat : flat = [k \in 0 .. n |-> IF k = 0 THEN none ELSE flatten[k]]
    OBVIOUS
  <2>8. flat = [k \in 0 .. n |-> flat[k]] /\ flat[0] = none /\ \A k \in 1 .. n : flat[k] = flatten[k]
    <3>1. 0 \in 0 .. n /\ \A k \in 1 .. n : k \in 0 .. n /\ k # 0
      OBVIOUS
    <3>. QED  BY <2>7, <3>1
  <2>9. \A k \in 1 .. n : flat[k] = flat[k - 1] \o parts[k]
    <3>. TAKE k \in 1 .. n
    <3>1. CASE k = 1
      <4>1. flat[k - 1] = none /\ parts[k] \in Seq(Nat)
        BY <1>0, <2>8, <3>1
      <4>2. none \o parts[k] = parts[k]
        BY <1>a, <4>1
      <4>3. flat[k] = parts[k]
        BY <2>6, <2>8, <3>1
      <4>. QED  BY <4>1, <4>2, <4>3
    <3>2. CASE k # 1
      <4>1. k - 1 \in 1 .. n
        BY <3>2
      <4>2. flat[k] = flatten[k] /\ flat[k - 1] = flatten[k - 1]
        BY <2>8, <4>1
      <4>3. flatten[k] = flatten[k - 1] \o parts[k]
        BY <2>6, <3>2, Zenon
      <4>. QED  BY <4>2, <4>3, Zenon
    <3>. QED  BY <3>1, <3>2
  <2>10. Solves(flat, step, n, Seq(Nat), none)
    <3>1. GoesOn(flat, step, n, Seq(Nat), none)
      BY <1>3, <2>8, <2>9 DEF GoesOn
    <3>. QED  BY <1>2, <3>1, FollowsSteps
  <2>11. Joins(flat, parts, n)
    BY <1>a, <2>9, <2>10 DEF Joins, Solves
  <2>12. FlattenSeq(parts) = flat[n]
    <3>1. n \in 1 .. n
      BY <1>8
    <3>. QED  BY <1>0, <2>4, <2>8, <3>1
  <2>. QED  BY <1>0, <2>11, <2>12
<1>. QED  BY <1>7, <1>8

\* Where the parts lie in the whole: behind the first k parts come the next.
Places(off, whole, parts, n) ==
  /\ off \in [0 .. n -> Nat] /\ off[0] = 0 /\ off[n] = Len(whole)
  /\ \A k \in 0 .. n : \A j \in 0 .. k : off[j] <= off[k]
  /\ \A k \in 1 .. n : /\ off[k] = off[k - 1] + Len(parts[k])
                       /\ \A y \in 1 .. Len(parts[k]) : whole[off[k - 1] + y] = parts[k][y]

LEMMA PartsLieInWhole ==
  ASSUME NEW parts \in Seq(Seq(Nat))
  PROVE  /\ FlattenSeq(parts) \in Seq(Nat)
         /\ \E off : Places(off, FlattenSeq(parts), parts, Len(parts))
<1>1. PICK n \in Nat : n = Len(parts)
  OBVIOUS
<1>2. PICK flat : Joins(flat, parts, n) /\ FlattenSeq(parts) = flat[n]
  BY <1>1, Flattening
<1>3. PICK whole \in Seq(Nat) : whole = FlattenSeq(parts) /\ whole = flat[n]
  BY <1>2 DEF Joins
<1>4. PICK off : off = [k \in 0 .. n |-> Len(flat[k])]
  OBVIOUS
<1>5. off \in [0 .. n -> Nat] /\ off[0] = 0 /\ off[n] = Len(whole)
  <2>1. \A k \in 0 .. n : Len(flat[k]) \in Nat
    BY <1>2 DEF Joins
  <2>2. Len(flat[0]) = 0
    BY <1>2, EmptySeq DEF Joins
  <2>. QED  BY <1>3, <1>4, <2>1, <2>2
<1>6. ASSUME NEW k \in 1 .. n
      PROVE  /\ flat[k] \in Seq(Nat) /\ flat[k - 1] \in Seq(Nat) /\ parts[k] \in Seq(Nat)
             /\ off[k] = off[k - 1] + Len(parts[k])
             /\ \A x \in 1 .. off[k - 1] : flat[k][x] = flat[k - 1][x]
             /\ \A y \in 1 .. Len(parts[k]) : flat[k][off[k - 1] + y] = parts[k][y]
  <2>1. k \in 0 .. n /\ k - 1 \in 0 .. n
    OBVIOUS
  <2>2. PICK a \in Seq(Nat) : a = flat[k - 1]
    BY <1>2, <2>1 DEF Joins
  <2>3. PICK b \in Seq(Nat) : b = parts[k]
    BY <1>1
  <2>4. PICK c \in Seq(Nat) : c = a \o b
    BY ConcatProperties
  <2>5. flat[k] = c
    BY <1>2, <2>2, <2>3, <2>4 DEF Joins
  <2>6. off[k] = Len(c) /\ off[k - 1] = Len(a)
    BY <1>4, <2>1, <2>2, <2>5
  <2>7. Len(c) = Len(a) + Len(b) /\ (\A x \in 1 .. Len(a) : c[x] = a[x])
        /\ \A y \in 1 .. Len(b) : c[Len(a) + y] = b[y]
    BY <2>4
  <2>. QED  BY <2>2, <2>3, <2>5, <2>6, <2>7
<1>. DEFINE S == {m \in Nat : \A k \in 0 .. n : k + m <= n =>
                    off[k] <= off[k + m] /\ \A x \in 1 .. off[k] : flat[k + m][x] = flat[k][x]}
<1>7. 0 \in S
  <2>1. \A k \in 0 .. n : k + 0 = k /\ off[k] <= off[k]
    BY <1>5
  <2>. QED  BY <2>1
<1>8. ASSUME NEW m \in Nat, m \in S PROVE m + 1 \in S
  <2>. SUFFICES ASSUME NEW k \in 0 .. n, k + (m + 1) <= n
                PROVE  /\ off[k] <= off[k + (m + 1)]
                       /\ \A x \in 1 .. off[k] : flat[k + (m + 1)][x] = flat[k][x]
    OBVIOUS
  <2>1. PICK j \in 1 .. n : j = k + (m + 1)
    OBVIOUS
  <2>2. j - 1 = k + m /\ k + m <= n
    BY <2>1
  <2>3. off[k] <= off[j - 1] /\ \A x \in 1 .. off[k] : flat[j - 1][x] = flat[k][x]
    BY <1>8, <2>2
  <2>4. PICK a \in Nat, b \in Nat, c \in Nat : a = off[k] /\ b = off[j - 1] /\ c = off[j]
    <3>1. j \in 0 .. n /\ j - 1 \in 0 .. n
      BY <2>1
    <3>. QED  BY <1>5, <3>1
  <2>5. c >= b
    <3>1. Len(parts[j]) \in Nat
      BY <1>6
    <3>. QED  BY <1>6, <2>4, <3>1
  <2>6. \A x \in 1 .. a : x \in 1 .. b
    BY <2>3, <2>4
  <2>7. \A x \in 1 .. a : flat[j][x] = flat[k][x]
    BY <1>6, <2>3, <2>4, <2>6
  <2>8. a <= c
    BY <2>3, <2>4, <2>5
  <2>. QED  BY <2>1, <2>4, <2>7, <2>8
<1>. HIDE DEF S
<1>9. Nat \subseteq S
  BY <1>7, <1>8, NatSetInduction
<1>10. ASSUME NEW k \in 0 .. n, NEW j \in 0 .. k
       PROVE  off[j] <= off[k] /\ \A x \in 1 .. off[j] : flat[k][x] = flat[j][x]
  <2>1. PICK m \in Nat : m = k - j
    OBVIOUS
  <2>2. j + m = k /\ j \in 0 .. n
    BY <2>1
  <2>3. j + m <= n
    BY <2>2
  <2>4. off[j] <= off[j + m] /\ \A x \in 1 .. off[j] : flat[j + m][x] = flat[j][x]
    BY <1>9, <2>2, <2>3 DEF S
  <2>. QED  BY <2>2, <2>4
<1>11. ASSUME NEW k \in 1 .. n, NEW y \in 1 .. Len(parts[k])
       PROVE  whole[off[k - 1] + y] = parts[k][y]
  <2>1. PICK a \in Nat : a = off[k - 1]
    <3>1. k - 1 \in 0 .. n
      OBVIOUS
    <3>. QED  BY <1>5, <3>1
  <2>2. PICK l \in Nat : l = Len(parts[k])
    BY <1>6
  <2>3. PICK x \in 1 .. a + l : x = a + y
    BY <2>2
  <2>4. x \in 1 .. off[k]
    BY <1>6, <2>1, <2>2, <2>3
  <2>5. n \in 0 .. n /\ k \in 0 .. n
    OBVIOUS
  <2>6. whole[x] = flat[k][x]
    BY <1>3, <1>10, <2>4, <2>5
  <2>7. flat[k][x] = parts[k][y]
    BY <1>6, <2>1, <2>3
  <2>. QED  BY <2>1, <2>3, <2>6, <2>7
<1>12. Places(off, whole, parts, n)
  <2>. QED  BY <1>5, <1>6, <1>10, <1>11 DEF Places
<1>. QED  BY <1>1, <1>3, <1>12

\* What is decoded behind the first k of some frames of which the last is cut.
Rest(payloads, cut, k) ==
  IF cut = 0 /\ \A i \in k + 1 .. Len(payloads) : Len(payloads[i]) <= MaxFrame
  THEN [ok |-> TRUE, frames |-> SubSeq(payloads, k + 1, Len(payloads))]
  ELSE Refusal

LEMMA RestFromHere ==
  ASSUME NEW payloads \in Seq(Seq(Nat)), NEW cut \in Nat, NEW k \in 1 .. Len(payloads)
  PROVE  Rest(payloads, cut, k - 1) =
           IF Len(payloads[k]) <= MaxFrame /\ Rest(payloads, cut, k).ok
           THEN [ok |-> TRUE, frames |-> <<payloads[k]>> \o Rest(payloads, cut, k).frames]
           ELSE Refusal
<1>1. PICK n \in Nat : n = Len(payloads)
  OBVIOUS
<1>2. (\A i \in k .. n : Len(payloads[i]) <= MaxFrame)
        <=> Len(payloads[k]) <= MaxFrame /\ \A i \in k + 1 .. n : Len(payloads[i]) <= MaxFrame
  <2>1. k \in k .. n /\ (\A i \in k .. n : i = k \/ i \in k + 1 .. n) /\ \A i \in k + 1 .. n : i \in k .. n
    BY <1>1
  <2>. QED  BY <2>1
<1>3. PICK rest : rest = SubSeq(payloads, k + 1, n)
  OBVIOUS
<1>4. PICK all : all = SubSeq(payloads, k, n)
  OBVIOUS
<1>5. all = <<payloads[k]>> \o rest
  <2>1. rest \in Seq(Seq(Nat)) /\ Len(rest) = n - k /\ \A j \in 1 .. n - k : rest[j] = payloads[k + j]
    BY <1>1, <1>3
  <2>2. all \in Seq(Seq(Nat)) /\ Len(all) = n - k + 1 /\ \A j \in 1 .. n - k + 1 : all[j] = payloads[k + j - 1]
    BY <1>1, <1>4
  <2>3. PICK one : one = <<payloads[k]>>
    OBVIOUS
  <2>4. one \in Seq(Seq(Nat)) /\ Len(one) = 1 /\ one[1] = payloads[k]
    BY <2>3
  <2>5. PICK both : both = one \o rest
    OBVIOUS
  <2>6. both \in Seq(Seq(Nat)) /\ Len(both) = 1 + (n - k)
        /\ \A j \in 1 .. 1 + (n - k) : both[j] = IF j <= 1 THEN one[j] ELSE rest[j - 1]
    <3>1. PICK D : D = Seq(Nat)
      OBVIOUS
    <3>2. one \in Seq(D) /\ rest \in Seq(D)
      BY <2>1, <2>4, <3>1
    <3>3. /\ one \o rest \in Seq(D) /\ Len(one \o rest) = Len(one) + Len(rest)
          /\ \A j \in 1 .. Len(one) + Len(rest) :
               (one \o rest)[j] = IF j <= Len(one) THEN one[j] ELSE rest[j - Len(one)]
      BY <3>2, ConcatProperties
    <3>4. both \in Seq(D) /\ Len(both) = Len(one) + Len(rest)
          /\ \A j \in 1 .. Len(one) + Len(rest) :
               both[j] = IF j <= Len(one) THEN one[j] ELSE rest[j - Len(one)]
      BY <2>5, <3>3, Zenon
    <3>5. Len(one) = 1 /\ Len(rest) = n - k
      BY <2>1, <2>4
    <3>. QED  BY <3>1, <3>4, <3>5
  <2>7. ASSUME NEW j \in 1 .. n - k + 1 PROVE all[j] = both[j]
    <3>0. n - k \in Nat
      BY <1>1
    <3>1. CASE j = 1
      <4>1. both[1] = payloads[k]
        BY <2>4, <2>6, <3>0
      <4>2. all[1] = payloads[k + 1 - 1] /\ k + 1 - 1 = k
        BY <2>2, <3>0
      <4>. QED  BY <3>1, <4>1, <4>2
    <3>2. CASE j # 1
      <4>1. j - 1 \in 1 .. n - k /\ k + (j - 1) = k + j - 1 /\ ~(j <= 1) /\ j \in 1 .. 1 + (n - k)
        BY <3>0, <3>2
      <4>2. both[j] = rest[j - 1] /\ rest[j - 1] = payloads[k + (j - 1)]
        BY <2>1, <2>6, <4>1
      <4>. QED  BY <2>2, <4>1, <4>2
    <3>. QED  BY <3>1, <3>2
  <2>8. Len(all) = Len(both)
    BY <1>1, <2>2, <2>6
  <2>9. all = both
    BY <2>2, <2>6, <2>7, <2>8, SeqEqual
  <2>. QED  BY <2>3, <2>5, <2>9
<1>6. Rest(payloads, cut, k) = IF cut = 0 /\ \A i \in k + 1 .. n : Len(payloads[i]) <= MaxFrame
                               THEN [ok |-> TRUE, frames |-> rest] ELSE Refusal
  BY <1>1, <1>3 DEF Rest
<1>7. Rest(payloads, cut, k - 1) = IF cut = 0 /\ \A i \in k .. n : Len(payloads[i]) <= MaxFrame
                                   THEN [ok |-> TRUE, frames |-> all] ELSE Refusal
  <2>1. PICK j : j = k - 1
    OBVIOUS
  <2>2. j + 1 = k
    BY <2>1
  <2>3. Rest(payloads, cut, j) = IF cut = 0 /\ \A i \in k .. n : Len(payloads[i]) <= MaxFrame
                                 THEN [ok |-> TRUE, frames |-> all] ELSE Refusal
    BY <1>1, <1>4, <2>2 DEF Rest
  <2>. QED  BY <2>1, <2>3
<1>8. Refusal.ok = FALSE
  BY DEF Refusal
<1>9. CASE cut = 0 /\ \A i \in k + 1 .. n : Len(payloads[i]) <= MaxFrame
  <2>1. Rest(payloads, cut, k).ok = TRUE /\ Rest(payloads, cut, k).frames = rest
    BY <1>6, <1>9
  <2>2. <<payloads[k]>> \o Rest(payloads, cut, k).frames = all
    BY <1>5, <2>1
  <2>. QED  BY <1>2, <1>7, <1>9, <2>1, <2>2
<1>10. CASE ~(cut = 0 /\ \A i \in k + 1 .. n : Len(payloads[i]) <= MaxFrame)
  <2>1. Rest(payloads, cut, k).ok = FALSE
    BY <1>6, <1>8, <1>10
  <2>2. Rest(payloads, cut, k - 1) = Refusal
    BY <1>2, <1>7, <1>10
  <2>. QED  BY <2>1, <2>2
<1>. QED  BY <1>9, <1>10

LEMMA DecodedEnd ==
  ASSUME NEW p \in Seq(Nat), NEW from
  PROVE  DecodedAt(from, p, Len(p) + 1) = [ok |-> TRUE, frames |-> <<>>]
<1>1. PICK l \in Nat : l = Len(p)
  OBVIOUS
<1>2. PICK c : c = Len(p) + 1 - (Len(p) + 1)
  OBVIOUS
<1>3. c = 0 /\ c \notin 1 .. HeaderLen - 1 /\ ~(c >= HeaderLen)
  BY <1>1, <1>2, FramingAssumption
<1>. QED  BY <1>2, <1>3 DEF DecodedAt

Encoded(payloads) == [i \in DOMAIN payloads |-> Encode(payloads[i])]

\* The bytes of some frames are decoded into these frames, unless the last one
\* is cut or one is above the limit: then nothing of the message is taken
\* (writeNative, decodeNativeFrames).
THEOREM DecodeOfEncoded ==
  ASSUME NEW payloads \in Seq(Seq(Nat)),
         \A i \in 1 .. Len(payloads) : Len(payloads[i]) < Power(HeaderLen),
         NEW cut \in Nat,
         cut > 0 => payloads # <<>> /\ cut < HeaderLen + Len(payloads[Len(payloads)]),
         NEW whole, whole = FlattenSeq(Encoded(payloads))
  PROVE  Decode(SubSeq(whole, 1, Len(whole) - cut))
           = IF cut = 0 /\ \A i \in 1 .. Len(payloads) : Len(payloads[i]) <= MaxFrame
             THEN [ok |-> TRUE, frames |-> payloads] ELSE Refusal
<1>1. PICK h \in Nat \ {0} : h = HeaderLen
  BY FramingAssumption
<1>2. PICK n \in Nat : n = Len(payloads)
  OBVIOUS
<1>3. PICK parts : parts = Encoded(payloads)
  OBVIOUS
<1>4. ASSUME NEW k \in 1 .. n
      PROVE  /\ payloads[k] \in Seq(Nat) /\ parts[k] = Encode(payloads[k])
             /\ parts[k] \in Seq(Nat) /\ Len(parts[k]) = h + Len(payloads[k])
  <2>1. PICK frame \in Seq(Nat) : frame = payloads[k]
    BY <1>2
  <2>2. parts[k] = Encode(frame)
    BY <1>2, <1>3, <2>1 DEF Encoded
  <2>3. PICK header \in Seq(Nat) : header = Header(Len(frame)) /\ Len(header) = h
    <3>1. Len(frame) \in Nat /\ Len(frame) < Power(HeaderLen)
      BY <1>2, <2>1
    <3>. QED  BY <1>1, <3>1, NumberOfHeader
  <2>4. header \o frame \in Seq(Nat) /\ Len(header \o frame) = h + Len(frame)
    BY <2>3, ConcatProperties
  <2>5. Encode(frame) = header \o frame
    BY <2>3 DEF Encode
  <2>. QED  BY <2>1, <2>2, <2>4, <2>5
<1>5. parts \in Seq(Seq(Nat)) /\ Len(parts) = n
  <2>1. parts = [i \in 1 .. n |-> Encode(payloads[i])]
    BY <1>2, <1>3 DEF Encoded
  <2>2. \A i \in 1 .. n : parts[i] \in Seq(Nat)
    BY <1>4
  <2>3. parts \in [1 .. n -> Seq(Nat)]
    BY <2>1, <2>2
  <2>. QED  BY <2>3, SeqDef
<1>6. whole \in Seq(Nat) /\ \E off : Places(off, whole, parts, n)
  BY <1>3, <1>5, PartsLieInWhole
<1>7. PICK off : Places(off, whole, parts, n)
  BY <1>6
<1>8. off \in [0 .. n -> Nat] /\ off[0] = 0 /\ off[n] = Len(whole)
  BY <1>7 DEF Places
<1>9. ASSUME NEW k \in 1 .. n
      PROVE  /\ off[k] \in Nat /\ off[k - 1] \in Nat
             /\ off[k] = off[k - 1] + (h + Len(payloads[k])) 
             /\ \A y \in 1 .. h + Len(payloads[k]) : whole[off[k - 1] + y] = Encode(payloads[k])[y]
  <2>1. k \in 0 .. n /\ k - 1 \in 0 .. n
    OBVIOUS
  <2>2. off[k] \in Nat /\ off[k - 1] \in Nat
    BY <1>8, <2>1
  <2>3. /\ off[k] = off[k - 1] + Len(parts[k])
        /\ \A y \in 1 .. Len(parts[k]) : whole[off[k - 1] + y] = parts[k][y]
    BY <1>7 DEF Places
  <2>. QED  BY <1>4, <2>2, <2>3
<1>10. PICK L \in Nat : /\ L = Len(whole) - cut /\ L <= Len(whole)
                        /\ cut > 0 => n > 0 /\ off[n - 1] < L /\ off[n] > L
  <2>1. CASE cut = 0
    <3>1. Len(whole) - cut \in Nat /\ Len(whole) - cut <= Len(whole)
      BY <1>6, <2>1
    <3>. QED  BY <2>1, <3>1
  <2>2. CASE cut # 0
    <3>1. n > 0
      BY <1>2, <2>2, EmptySeq
    <3>2. n \in 1 .. n
      BY <3>1
    <3>a. off[n - 1] \in Nat /\ payloads[n] \in Seq(Nat)
      BY <1>4, <1>9, <3>2
    <3>b. Len(payloads[n]) \in Nat
      BY <3>a
    <3>3. PICK a \in Nat, l \in Nat : a = off[n - 1] /\ l = Len(payloads[n])
      BY <3>a, <3>b
    <3>4. off[n] = a + (h + l)
      BY <1>9, <3>2, <3>3
    <3>5. cut < h + l
      BY <1>1, <1>2, <2>2, <3>3
    <3>6. Len(whole) = a + (h + l)
      BY <1>8, <3>4
    <3>7. Len(whole) - cut \in Nat /\ Len(whole) - cut <= Len(whole)
          /\ a < Len(whole) - cut /\ off[n] > Len(whole) - cut
      BY <2>2, <3>4, <3>5, <3>6
    <3>. QED  BY <3>1, <3>3, <3>7
  <2>. QED  BY <2>1, <2>2
<1>11. PICK p : p = SubSeq(whole, 1, Len(whole) - cut)
  OBVIOUS
<1>12. p \in Seq(Nat) /\ Len(p) = L /\ \A x \in 1 .. L : p[x] = whole[x]
  <2>1. p = SubSeq(whole, 1, L)
    BY <1>10, <1>11
  <2>. QED  BY <1>6, <1>10, <2>1
<1>13. ASSUME NEW k \in 1 .. n PROVE BeginsAt(payloads[k], p, off[k - 1] + 1)
  <2>1. PICK a \in Nat : a = off[k - 1]
    BY <1>9
  <2>2. PICK frame \in Seq(Nat) : frame = payloads[k]
    BY <1>4
  <2>3. PICK l \in Nat : l = Len(frame)
    OBVIOUS
  <2>4. PICK i \in Nat : i = a + 1
    OBVIOUS
  <2>5. ASSUME NEW y \in 1 .. HeaderLen + Len(frame), i - 1 + y <= Len(p)
        PROVE  p[i - 1 + y] = Encode(frame)[y]
    <3>1. y \in 1 .. h + l /\ i - 1 + y = a + y
      BY <1>1, <2>3, <2>4
    <3>2. whole[a + y] = Encode(frame)[y]
      BY <1>9, <2>1, <2>2, <2>3, <3>1
    <3>3. a + y \in 1 .. L
      BY <1>12, <2>5, <3>1
    <3>. QED  BY <1>12, <3>1, <3>2, <3>3
  <2>6. BeginsAt(frame, p, i)
    BY <2>5 DEF BeginsAt
  <2>. QED  BY <2>1, <2>2, <2>4, <2>6
<1>14. PICK from : Decode(p) = from[1] /\ \A i \in 1 .. Len(p) + 1 : from[i] = DecodedAt(from, p, i)
  BY <1>12, Decoding
<1>15. ASSUME NEW k \in 1 .. n, off[k] <= L, from[off[k] + 1] = Rest(payloads, cut, k)
       PROVE  from[off[k - 1] + 1] = Rest(payloads, cut, k - 1)
  <2>1. PICK a \in Nat : a = off[k - 1]
    BY <1>9
  <2>2. PICK frame \in Seq(Nat) : frame = payloads[k]
    BY <1>4
  <2>3. PICK l \in Nat : l = Len(frame)
    OBVIOUS
  <2>4. off[k] = a + (h + l)
    BY <1>9, <2>1, <2>2, <2>3
  <2>5. PICK i \in Nat \ {0} : i = a + 1
    OBVIOUS
  <2>6. i - 1 + (h + l) <= L /\ i \in 1 .. L + 1 /\ i + h + l = off[k] + 1
    BY <1>15, <2>4, <2>5
  <2>7. l < Power(HeaderLen)
    BY <1>2, <2>2, <2>3
  <2>8. BeginsAt(frame, p, i)
    BY <1>13, <2>1, <2>2, <2>5
  <2>9. i - 1 + (HeaderLen + Len(frame)) <= Len(p)
    BY <1>1, <1>12, <2>3, <2>6
  <2>10. DecodedAt(from, p, i) =
           IF Len(frame) <= MaxFrame /\ from[i + HeaderLen + Len(frame)].ok
           THEN [ok |-> TRUE, frames |-> <<frame>> \o from[i + HeaderLen + Len(frame)].frames]
           ELSE Refusal
    BY <1>12, <2>3, <2>7, <2>8, <2>9, DecodedFrame
  <2>11. from[i + HeaderLen + Len(frame)] = Rest(payloads, cut, k)
    <3>1. i + HeaderLen + Len(frame) = off[k] + 1
      BY <1>1, <2>3, <2>6
    <3>. QED  BY <1>15, <3>1
  <2>12. Rest(payloads, cut, k - 1) =
           IF Len(frame) <= MaxFrame /\ Rest(payloads, cut, k).ok
           THEN [ok |-> TRUE, frames |-> <<frame>> \o Rest(payloads, cut, k).frames]
           ELSE Refusal
    <3>1. k \in 1 .. Len(payloads)
      BY <1>2
    <3>. QED  BY <2>2, <3>1, RestFromHere
  <2>13. DecodedAt(from, p, i) = Rest(payloads, cut, k - 1)
    BY <2>10, <2>11, <2>12, Zenon
  <2>14. from[i] = DecodedAt(from, p, i)
    BY <1>12, <1>14, <2>6
  <2>. QED  BY <2>1, <2>5, <2>13, <2>14
<1>16. PICK last \in 0 .. n : /\ from[off[last] + 1] = Rest(payloads, cut, last)
                              /\ \A k \in 1 .. last : off[k] <= L
  <2>1. CASE cut = 0
    <3>1. off[n] = L /\ L = Len(p)
      BY <1>6, <1>8, <1>10, <1>12, <2>1
    <3>2. Len(p) + 1 \in 1 .. Len(p) + 1
      BY <1>12
    <3>3. from[Len(p) + 1] = [ok |-> TRUE, frames |-> <<>>]
      BY <1>12, <1>14, <3>2, DecodedEnd
    <3>4. Rest(payloads, cut, n) = [ok |-> TRUE, frames |-> <<>>]
      <4>1. SubSeq(payloads, n + 1, n) = <<>>
        <5>1. PICK s : s = SubSeq(payloads, n + 1, n)
          OBVIOUS
        <5>2. s \in Seq(Seq(Nat)) /\ Len(s) = 0
          BY <1>2, <5>1
        <5>3. s = <<>>
          BY <5>2, EmptySeq
        <5>. QED  BY <5>1, <5>3
      <4>2. \A i \in n + 1 .. n : Len(payloads[i]) <= MaxFrame
        OBVIOUS
      <4>. QED  BY <1>2, <2>1, <4>1, <4>2 DEF Rest
    <3>5. \A k \in 1 .. n : off[k] <= L
      <4>1. L = Len(whole)
        BY <1>6, <1>10, <2>1
      <4>2. \A k \in 1 .. n : off[k] <= off[n]
        <5>1. n \in 0 .. n /\ \A k \in 1 .. n : k \in 0 .. n
          OBVIOUS
        <5>. QED  BY <1>7, <5>1 DEF Places
      <4>. QED  BY <1>8, <4>1, <4>2
    <3>6. from[off[n] + 1] = Rest(payloads, cut, n)
      BY <3>1, <3>3, <3>4
    <3>7. n \in 0 .. n
      OBVIOUS
    <3>. QED  BY <3>5, <3>6, <3>7
  <2>2. CASE cut # 0
    <3>1. n \in 1 .. n /\ n - 1 \in 0 .. n
      BY <1>10, <2>2
    <3>2. PICK a \in Nat : a = off[n - 1] /\ a < L /\ off[n] > L
      BY <1>9, <1>10, <2>2, <3>1
    <3>3. PICK frame \in Seq(Nat) : frame = payloads[n]
      BY <1>4, <3>1
    <3>4. PICK i \in Nat \ {0} : i = a + 1
      OBVIOUS
    <3>5. PICK l \in Nat : l = Len(frame)
      OBVIOUS
    <3>6. off[n] = a + (h + l)
      BY <1>9, <3>1, <3>2, <3>3, <3>5
    <3>a. i <= L /\ i - 1 + (h + l) > L /\ i \in 1 .. L + 1
      <4>1. i - 1 = a
        BY <3>4
      <4>2. i <= L /\ i \in 1 .. L + 1
        BY <3>2, <3>4
      <4>3. a + (h + l) > L
        BY <3>2, <3>6
      <4>. QED  BY <4>1, <4>2, <4>3
    <3>7. i <= Len(p) /\ i - 1 + (HeaderLen + Len(frame)) > Len(p) /\ i \in 1 .. Len(p) + 1
      BY <1>1, <1>12, <3>5, <3>a
    <3>8. Len(frame) < Power(HeaderLen)
      BY <1>2, <3>1, <3>3
    <3>9. BeginsAt(frame, p, i)
      BY <1>13, <3>1, <3>2, <3>3, <3>4
    <3>10. DecodedAt(from, p, i) = Refusal
      BY <1>12, <3>7, <3>8, <3>9, DecodedCut
    <3>11. from[off[n - 1] + 1] = Refusal
      BY <1>14, <3>2, <3>4, <3>7, <3>10
    <3>12. Rest(payloads, cut, n - 1) = Refusal
      BY <2>2 DEF Rest
    <3>13. \A k \in 1 .. n - 1 : off[k] <= L
      <4>. TAKE k \in 1 .. n - 1
      <4>1. k \in 0 .. n - 1 /\ k \in 1 .. n
        BY <3>1
      <4>2. off[k] <= a /\ off[k] \in Nat
        BY <1>7, <1>9, <3>1, <3>2, <4>1 DEF Places
      <4>. QED  BY <3>2, <4>2
    <3>. QED  BY <3>1, <3>11, <3>12, <3>13
  <2>. QED  BY <2>1, <2>2
<1>. DEFINE S == {m \in Nat : m <= last => from[off[last - m] + 1] = Rest(payloads, cut, last - m)}
<1>17. 0 \in S
  <2>1. last - 0 = last
    OBVIOUS
  <2>. QED  BY <1>16, <2>1
<1>18. ASSUME NEW m \in Nat, m \in S PROVE m + 1 \in S
  <2>. SUFFICES ASSUME m + 1 <= last
                PROVE  from[off[last - (m + 1)] + 1] = Rest(payloads, cut, last - (m + 1))
    OBVIOUS
  <2>1. PICK k \in 1 .. last : k = last - m /\ k - 1 = last - (m + 1)
    OBVIOUS
  <2>2. k \in 1 .. n /\ off[k] <= L /\ from[off[k] + 1] = Rest(payloads, cut, k)
    BY <1>16, <1>18, <2>1
  <2>3. from[off[k - 1] + 1] = Rest(payloads, cut, k - 1)
    BY <1>15, <2>2
  <2>. QED  BY <2>1, <2>3
<1>. HIDE DEF S
<1>19. Nat \subseteq S
  BY <1>17, <1>18, NatSetInduction
<1>20. from[1] = Rest(payloads, cut, 0)
  <2>1. last \in Nat /\ last - last = 0
    OBVIOUS
  <2>2. from[off[last - last] + 1] = Rest(payloads, cut, last - last)
    BY <1>19, <2>1 DEF S
  <2>3. off[0] + 1 = 1
    BY <1>8
  <2>. QED  BY <2>1, <2>2, <2>3
<1>21. SubSeq(payloads, 0 + 1, Len(payloads)) = payloads
  <2>1. PICK s : s = SubSeq(payloads, 1, n)
    OBVIOUS
  <2>2. s \in Seq(Seq(Nat)) /\ Len(s) = n /\ \A j \in 1 .. n : s[j] = payloads[j]
    BY <1>2, <2>1
  <2>3. s = payloads
    BY <1>2, <2>2, SeqEqual
  <2>. QED  BY <1>2, <2>1, <2>3
<1>22. Rest(payloads, cut, 0) =
         IF cut = 0 /\ \A i \in 0 + 1 .. Len(payloads) : Len(payloads[i]) <= MaxFrame
         THEN [ok |-> TRUE, frames |-> payloads] ELSE Refusal
  BY <1>21 DEF Rest
<1>23. 0 + 1 .. Len(payloads) = 1 .. Len(payloads)
  OBVIOUS
<1>. QED  BY <1>11, <1>14, <1>20, <1>22, <1>23

-----------------------------------------------------------------------------
(* What the reader makes of a message.                                      *)

\* A message that can be framed.
Readable(m) == ~m.text /\ m.cut = 0 /\ "long" \notin Range(m.frames)

LEMMA PayloadOfFrame ==
  ASSUME NEW frame \in Frame
  PROVE  /\ Payload(frame) \in Seq(Nat) /\ Len(Payload(frame)) < Power(HeaderLen)
         /\ Len(Payload(frame)) <= MaxFrame <=> frame # "long"
<1>1. PICK l \in Nat \ {0} : l = MaxFrame
  BY FramingAssumption
<1>2. PICK code : code = CHOOSE k \in DOMAIN Kinds : Kinds[k] = frame
  OBVIOUS
<1>3. code \in Nat
  <2>1. \A k \in DOMAIN Kinds : k \in Nat
    BY DEF Kinds
  <2>2. \E k \in DOMAIN Kinds : Kinds[k] = frame
    BY DEF Frame, Range
  <2>. QED  BY <1>2, <2>1, <2>2
<1>4. PICK top \in Nat : top = Power(HeaderLen) /\ l + 1 < top
  <2>1. PICK h \in Nat : h = HeaderLen
    BY FramingAssumption
  <2>2. PICK power \in [0 .. h -> Nat] : Power(h) = power[h]
    BY Powers
  <2>3. Power(h) \in Nat
    BY <2>2
  <2>. QED  BY <1>1, <2>1, <2>3, ConnectionAssumption
<1>5. PICK p : p = Payload(frame)
  OBVIOUS
<1>6. CASE frame = "garbage"
  <2>1. p = <<>>
    BY <1>5, <1>6 DEF Payload
  <2>2. p \in Seq(Nat) /\ Len(p) = 0
    BY <2>1, EmptySeq
  <2>. QED  BY <1>1, <1>4, <1>5, <1>6, <2>2
<1>7. CASE frame = "long"
  <2>1. p = [i \in 1 .. l + 1 |-> code]
    BY <1>1, <1>2, <1>5, <1>7 DEF Payload
  <2>2. p \in Seq(Nat) /\ Len(p) = l + 1
    <3>1. p \in [1 .. l + 1 -> Nat]
      BY <1>3, <2>1
    <3>. QED  BY <3>1, SeqDef
  <2>. QED  BY <1>1, <1>4, <1>5, <1>7, <2>2
<1>8. CASE frame \notin {"garbage", "long"}
  <2>1. p = [i \in 1 .. l |-> code]
    BY <1>1, <1>2, <1>5, <1>8 DEF Payload
  <2>2. p \in Seq(Nat) /\ Len(p) = l
    <3>1. p \in [1 .. l -> Nat]
      BY <1>3, <2>1
    <3>. QED  BY <3>1, SeqDef
  <2>. QED  BY <1>1, <1>4, <1>5, <1>8, <2>2
<1>. QED  BY <1>6, <1>7, <1>8

\* Different frames have different bytes.
LEMMA PayloadNames ==
  ASSUME NEW frame \in Frame PROVE Named(Payload(frame)) = frame
<1>1. PICK l \in Nat \ {0} : l = MaxFrame
  BY FramingAssumption
<1>. DEFINE code(f) == CHOOSE k \in DOMAIN Kinds : Kinds[k] = f
<1>2. \A f \in Frame : Kinds[code(f)] = f
  <2>1. \A f \in Frame : \E k \in DOMAIN Kinds : Kinds[k] = f
    BY DEF Frame, Range
  <2>. QED  BY <2>1
<1>3. \A f : Payload(f) = CASE f = "garbage" -> <<>>
                            [] f = "long" -> [i \in 1 .. l + 1 |-> code(f)]
                            [] OTHER -> [i \in 1 .. l |-> code(f)]
  BY <1>1 DEF Payload
<1>. HIDE DEF code
<1>4. \A f \in Frame : /\ f = "garbage" => Len(Payload(f)) = 0
                       /\ f = "long" => Len(Payload(f)) = l + 1
                       /\ f \notin {"garbage", "long"} => Len(Payload(f)) = l /\ Payload(f)[1] = code(f)
  <2>. TAKE f \in Frame
  <2>1. CASE f = "garbage"
    BY <1>3, <2>1
  <2>2. CASE f = "long"
    <3>1. PICK p : p = Payload(f)
      OBVIOUS
    <3>2. p = [i \in 1 .. l + 1 |-> code(f)]
      BY <1>3, <2>2, <3>1
    <3>3. Len(p) = l + 1
      BY <3>2
    <3>. QED  BY <2>2, <3>1, <3>3
  <2>3. CASE f \notin {"garbage", "long"}
    <3>1. PICK p : p = Payload(f)
      OBVIOUS
    <3>2. p = [i \in 1 .. l |-> code(f)]
      BY <1>3, <2>3, <3>1
    <3>3. Len(p) = l /\ p[1] = code(f)
      BY <3>2
    <3>. QED  BY <2>3, <3>1, <3>3
  <2>. QED  BY <2>1, <2>2, <2>3
<1>5. ASSUME NEW f \in Frame, NEW g \in Frame, Payload(f) = Payload(g) PROVE f = g
  <2>1. CASE f \notin {"garbage", "long"} /\ g \notin {"garbage", "long"}
    BY <1>2, <1>4, <1>5, <2>1
  <2>2. CASE ~(f \notin {"garbage", "long"} /\ g \notin {"garbage", "long"})
    <3>1. Len(Payload(f)) = Len(Payload(g))
      BY <1>5
    <3>. QED  BY <1>4, <2>2, <3>1
  <2>. QED  BY <2>1, <2>2
<1>. QED  BY <1>5 DEF Named

\* A message that can be framed is taken as the frames it was made of, any
\* other one is refused as a whole.
LEMMA FramesOfMessage ==
  ASSUME NEW m \in Message
  PROVE  (Framed(m).ok <=> Readable(m)) /\ (Readable(m) => Frames(m) = m.frames)
<1>1. m \in Sent
  BY ConnectionAssumption
<1>2. PICK frames \in Seq(Frame) : frames = m.frames
  BY <1>1 DEF Sent
<1>3. PICK cut \in Nat : cut = m.cut
  BY <1>1 DEF Sent
<1>4. PICK n \in Nat : n = Len(frames)
  OBVIOUS
<1>5. PICK payloads : payloads = [i \in DOMAIN frames |-> Payload(frames[i])]
  OBVIOUS
<1>6. \A i \in 1 .. n : frames[i] \in Frame /\ payloads[i] = Payload(frames[i])
  BY <1>4, <1>5
<1>7. payloads \in Seq(Seq(Nat)) /\ Len(payloads) = n
  <2>1. payloads = [i \in 1 .. n |-> payloads[i]]
    BY <1>4, <1>5
  <2>2. \A i \in 1 .. n : payloads[i] \in Seq(Nat)
    BY <1>6, PayloadOfFrame
  <2>3. payloads \in [1 .. n -> Seq(Nat)]
    BY <2>1, <2>2
  <2>. QED  BY <2>3, SeqDef
<1>8. \A i \in 1 .. n : /\ Len(payloads[i]) < Power(HeaderLen)
                        /\ Len(payloads[i]) <= MaxFrame <=> frames[i] # "long"
  BY <1>6, PayloadOfFrame
<1>9. cut > 0 => payloads # <<>> /\ cut < HeaderLen + Len(payloads[n])
  <2>. SUFFICES ASSUME cut > 0 PROVE payloads # <<>> /\ cut < HeaderLen + Len(payloads[n])
    OBVIOUS
  <2>1. frames # <<>> /\ cut < HeaderLen + Len(Payload(Last(frames)))
    BY <1>2, <1>3, ConnectionAssumption
  <2>2. n # 0
    BY <1>4, <2>1, EmptySeq
  <2>3. Last(frames) = frames[n]
    BY <1>4 DEF Last
  <2>4. payloads[n] = Payload(frames[n])
    BY <1>6, <2>2
  <2>5. payloads # <<>>
    BY <1>7, <2>2, EmptySeq
  <2>. QED  BY <2>1, <2>3, <2>4, <2>5
<1>10. PICK whole : whole = FlattenSeq(Encoded(payloads))
  OBVIOUS
<1>11. Bytes(m) = SubSeq(whole, 1, Len(whole) - cut)
  <2>1. Encoded(payloads) = [i \in DOMAIN frames |-> Encode(Payload(frames[i]))]
    <3>1. DOMAIN payloads = DOMAIN frames
      BY <1>5
    <3>2. \A i \in DOMAIN frames : Encode(payloads[i]) = Encode(Payload(frames[i]))
      BY <1>5
    <3>. QED  BY <3>1, <3>2, Zenon DEF Encoded
  <2>2. Bytes(m) = SubSeq(FlattenSeq([i \in DOMAIN frames |-> Encode(Payload(frames[i]))]), 1,
                          Len(FlattenSeq([i \in DOMAIN frames |-> Encode(Payload(frames[i]))])) - cut)
    BY <1>2, <1>3, Zenon DEF Bytes
  <2>. QED  BY <1>10, <2>1, <2>2, Zenon
<1>12. (\A i \in 1 .. n : Len(payloads[i]) <= MaxFrame) <=> "long" \notin Range(frames)
  <2>1. "long" \in Range(frames) <=> \E i \in 1 .. n : frames[i] = "long"
    BY <1>4 DEF Range
  <2>. QED  BY <1>8, <2>1
<1>13. Decode(Bytes(m)) = IF cut = 0 /\ "long" \notin Range(frames)
                          THEN [ok |-> TRUE, frames |-> payloads] ELSE Refusal
  <2>1. \A i \in 1 .. Len(payloads) : Len(payloads[i]) < Power(HeaderLen)
    BY <1>7, <1>8
  <2>2. cut > 0 => payloads # <<>> /\ cut < HeaderLen + Len(payloads[Len(payloads)])
    BY <1>7, <1>9
  <2>3. Decode(SubSeq(whole, 1, Len(whole) - cut))
          = IF cut = 0 /\ \A i \in 1 .. Len(payloads) : Len(payloads[i]) <= MaxFrame
            THEN [ok |-> TRUE, frames |-> payloads] ELSE Refusal
    BY <1>7, <1>10, <2>1, <2>2, DecodeOfEncoded
  <2>. QED  BY <1>7, <1>11, <1>12, <2>3
<1>14. Refusal.ok = FALSE
  BY DEF Refusal
<1>15. Readable(m) <=> ~m.text /\ cut = 0 /\ "long" \notin Range(frames)
  BY <1>2, <1>3 DEF Readable
<1>16. CASE Readable(m)
  <2>1. Framed(m) = [ok |-> TRUE, frames |-> payloads]
    BY <1>13, <1>15, <1>16 DEF Framed
  <2>2. Framed(m).ok /\ Framed(m).frames = payloads
    BY <2>1
  <2>3. Frames(m) = [i \in DOMAIN payloads |-> Named(payloads[i])]
    BY <2>2 DEF Frames
  <2>4. \A i \in 1 .. n : Named(payloads[i]) = frames[i]
    BY <1>6, PayloadNames
  <2>5. Frames(m) = [i \in 1 .. n |-> frames[i]]
    BY <1>7, <2>3, <2>4
  <2>6. frames = [i \in 1 .. n |-> frames[i]]
    BY <1>4
  <2>. QED  BY <1>2, <1>16, <2>2, <2>5, <2>6
<1>17. CASE ~Readable(m)
  <2>1. Framed(m) = Refusal
    BY <1>13, <1>15, <1>17 DEF Framed
  <2>. QED  BY <1>14, <1>17, <2>1
<1>. QED  BY <1>16, <1>17

-----------------------------------------------------------------------------
(* The requests of the messages.                                            *)

\* The places that have started a request when so many frames of the newest
\* message are left.
Taken(rec, left) ==
  {p \in Nat \X Nat :
     /\ p[1] \in 1 .. Len(rec) /\ p[2] \in 1 .. Len(rec[p[1]].frames)
     /\ Starts(rec[p[1]], p[2])
     /\ p[1] < Len(rec) \/ p[2] + left <= Len(rec[p[1]].frames)}

\* What was started are the frames at these places, in their order.
Matches(started, rec, taken) ==
  /\ started \in Seq(Command) /\ IsFiniteSet(taken) /\ Len(started) = Cardinality(taken)
  /\ \A p \in taken :
       started[Cardinality({q \in taken : NotAfter(q, p)})] = rec[p[1]].frames[p[2]]

\* What is left of the newest message is its end, and all in front of it was read.
Pending(rec, left) ==
  LET m == rec[Len(rec)]
      n == Len(m.frames) - Len(left)
  IN  /\ rec # <<>> /\ Readable(m) /\ Len(left) <= Len(m.frames)
      /\ \A j \in 1 .. Len(left) : left[j] = m.frames[n + j]
      /\ \A k \in 1 .. n : m.frames[k] # "garbage"

StartedInv == /\ received \in Seq(Message)
              /\ queue \in Seq(Frame)
              /\ queue # <<>> => Pending(received, queue)
              /\ Matches(requests, received, Taken(received, Len(queue)))

LEMMA MessageFrames ==
  ASSUME NEW m \in Message PROVE m.frames \in Seq(Frame) /\ Len(m.frames) \in Nat
<1>1. m \in Sent
  BY ConnectionAssumption
<1>2. m.frames \in Seq(Frame)
  BY <1>1 DEF Sent
<1>. QED  BY <1>2

\* A message whose frames are all left, or that cannot be framed, starts none.
LEMMA TakenOfNew ==
  ASSUME NEW rec \in Seq(Message), NEW m \in Message, NEW left \in Nat,
         Readable(m) => left = Len(m.frames), NEW longer, longer = Append(rec, m)
  PROVE  Taken(longer, left) = Taken(rec, 0)
<1>1. PICK n \in Nat : n = Len(rec)
  OBVIOUS
<1>2. Len(longer) = n + 1 /\ longer[n + 1] = m /\ \A i \in 1 .. n : longer[i] = rec[i]
  BY <1>1, AppendProperties
<1>3. ASSUME NEW p \in Nat \X Nat PROVE p \in Taken(longer, left) <=> p \in Taken(rec, 0)
  <2>1. p[1] \in Nat /\ p[2] \in Nat
    BY <1>3
  <2>2. CASE p[1] \in 1 .. n
    <3>1. longer[p[1]] = rec[p[1]] /\ p[1] \in 1 .. n + 1 /\ p[1] < n + 1
      BY <1>2, <2>2
    <3>2. rec[p[1]] \in Message
      BY <1>1, <2>2
    <3>3. PICK l \in Nat : l = Len(rec[p[1]].frames)
      BY <3>2, MessageFrames
    <3>4. p[2] \in 1 .. l => p[2] + 0 <= l
      BY <3>3
    <3>. QED  BY <1>1, <1>2, <2>1, <2>2, <3>1, <3>3, <3>4 DEF Taken
  <2>3. CASE p[1] = n + 1
    <3>1. p \notin Taken(rec, 0)
      BY <1>1, <2>3 DEF Taken
    <3>2. PICK l \in Nat : l = Len(m.frames)
      BY MessageFrames
    <3>3. ~(p[2] \in 1 .. l /\ Starts(m, p[2]) /\ p[2] + left <= l)
      <4>1. CASE Readable(m)
        BY <2>1, <3>2, <4>1
      <4>2. CASE ~Readable(m)
        BY <4>2 DEF Starts, Readable
      <4>. QED  BY <4>1, <4>2
    <3>4. p \notin Taken(longer, left)
      BY <1>2, <2>1, <2>3, <3>2, <3>3 DEF Taken
    <3>. QED  BY <3>1, <3>4
  <2>4. CASE p[1] \notin 1 .. n /\ p[1] # n + 1
    BY <1>1, <1>2, <2>1, <2>4 DEF Taken
  <2>. QED  BY <2>2, <2>3, <2>4
<1>4. \A p : p \in Taken(longer, left) => p \in Nat \X Nat
  BY DEF Taken
<1>5. \A p : p \in Taken(rec, 0) => p \in Nat \X Nat
  BY DEF Taken
<1>. QED  BY <1>3, <1>4, <1>5

\* One place more has as many behind it as a frame less is left.
LEMMA PlaceBehind ==
  ASSUME NEW x \in Nat, NEW l \in Nat, NEW left \in Nat \ {0}, NEW at, at = l - left + 1
  PROVE  x + (left - 1) <= l <=> x + left <= l \/ x = at
OBVIOUS

\* A frame less is left.
LEMMA TakenOfNext ==
  ASSUME NEW rec \in Seq(Message), rec # <<>>, NEW left \in Nat \ {0}, NEW m, m = rec[Len(rec)],
         left <= Len(m.frames), NEW at, at = Len(m.frames) - left + 1
  PROVE  Taken(rec, left - 1) = Taken(rec, left) \cup {p \in {<<Len(rec), at>>} : Starts(m, at)}
<1>1. PICK n \in Nat \ {0} : n = Len(rec)
  BY EmptySeq
<1>2. m \in Message
  BY <1>1
<1>3. PICK l \in Nat : l = Len(m.frames)
  BY <1>2, MessageFrames
<1>4. at \in 1 .. l /\ at = l - left + 1
  BY <1>3
<1>5. ASSUME NEW p \in Nat \X Nat
      PROVE  p \in Taken(rec, left - 1) <=> p \in Taken(rec, left) \/ (p = <<n, at>> /\ Starts(m, at))
  <2>1. p[1] \in Nat /\ p[2] \in Nat /\ p = <<p[1], p[2]>>
    BY <1>5
  <2>2. CASE p[1] < n
    BY <1>1, <2>1, <2>2 DEF Taken
  <2>3. CASE p[1] = n
    <3>1. \A x \in Nat : p \in Taken(rec, x) <=> p[2] \in 1 .. l /\ Starts(m, p[2]) /\ p[2] + x <= l
      BY <1>1, <1>3, <2>1, <2>3 DEF Taken
    <3>2. p[2] + (left - 1) <= l <=> p[2] + left <= l \/ p[2] = at
      <4>1. at = l - left + 1 /\ p[2] \in Nat
        BY <1>4, <2>1
      <4>. QED  BY <4>1, PlaceBehind
    <3>3. left - 1 \in Nat
      OBVIOUS
    <3>4. p = <<n, at>> <=> p[2] = at
      BY <2>1, <2>3
    <3>. QED  BY <1>4, <3>1, <3>2, <3>3, <3>4
  <2>4. CASE p[1] > n
    <3>1. p # <<n, at>>
      BY <2>1, <2>4
    <3>. QED  BY <1>1, <2>1, <2>4, <3>1 DEF Taken
  <2>. QED  BY <2>1, <2>2, <2>3, <2>4
<1>6. \A x : \A p : p \in Taken(rec, x) => p \in Nat \X Nat
  BY DEF Taken
<1>7. <<n, at>> \in Nat \X Nat
  BY <1>4
<1>8. \A p : p \in Taken(rec, left - 1) <=> p \in Taken(rec, left) \/ (p = <<n, at>> /\ Starts(m, at))
  BY <1>5, <1>6, <1>7
<1>. QED  BY <1>1, <1>8

\* Behind a frame that cannot be read nothing starts.
LEMMA TakenBehindGarbage ==
  ASSUME NEW rec \in Seq(Message), rec # <<>>, NEW left \in Nat \ {0}, NEW m, m = rec[Len(rec)],
         left <= Len(m.frames), NEW at, at = Len(m.frames) - left + 1, m.frames[at] = "garbage"
  PROVE  Taken(rec, 0) = Taken(rec, left)
<1>1. PICK n \in Nat \ {0} : n = Len(rec)
  BY EmptySeq
<1>2. m \in Message
  BY <1>1
<1>3. PICK l \in Nat : l = Len(m.frames)
  BY <1>2, MessageFrames
<1>4. at \in 1 .. l /\ at = l - left + 1
  BY <1>3
<1>5. ASSUME NEW p \in Nat \X Nat PROVE p \in Taken(rec, 0) <=> p \in Taken(rec, left)
  <2>1. p[1] \in Nat /\ p[2] \in Nat
    BY <1>5
  <2>2. CASE p[1] # n
    BY <1>1, <2>1, <2>2 DEF Taken
  <2>3. CASE p[1] = n
    <3>1. \A x \in Nat : p \in Taken(rec, x) <=> p[2] \in 1 .. l /\ Starts(m, p[2]) /\ p[2] + x <= l
      BY <1>1, <1>3, <2>1, <2>3 DEF Taken
    <3>2. p[2] >= at => ~Starts(m, p[2])
      <4>. SUFFICES ASSUME p[2] >= at PROVE ~Starts(m, p[2])
        OBVIOUS
      <4>1. at \in 1 .. p[2]
        BY <1>4, <2>1
      <4>. QED  BY <4>1 DEF Starts
    <3>3. p[2] < at => p[2] + left <= l
      BY <1>4, <2>1
    <3>4. p[2] \in 1 .. l => p[2] + 0 <= l
      OBVIOUS
    <3>5. p[2] >= at \/ p[2] < at
      BY <1>4, <2>1
    <3>. QED  BY <3>1, <3>2, <3>3, <3>4, <3>5
  <2>. QED  BY <2>2, <2>3
<1>6. \A x : \A p : p \in Taken(rec, x) => p \in Nat \X Nat
  BY DEF Taken
<1>. QED  BY <1>5, <1>6

\* The places keep their frames when a message is added.
LEMMA MatchesLonger ==
  ASSUME NEW started, NEW rec \in Seq(Message), NEW taken, Matches(started, rec, taken),
         \A p \in taken : p[1] \in 1 .. Len(rec), NEW m \in Message
  PROVE  Matches(started, Append(rec, m), taken)
<1>1. PICK longer : longer = Append(rec, m)
  OBVIOUS
<1>2. \A i \in 1 .. Len(rec) : longer[i] = rec[i]
  BY <1>1, AppendProperties
<1>3. \A p \in taken : longer[p[1]].frames[p[2]] = rec[p[1]].frames[p[2]]
  BY <1>2
<1>4. Matches(started, longer, taken)
  BY <1>3 DEF Matches
<1>. QED  BY <1>1, <1>4

\* A place behind all others starts one request more.
LEMMA MatchesMore ==
  ASSUME NEW started, NEW rec, NEW taken, Matches(started, rec, taken),
         taken \subseteq Nat \X Nat,
         NEW n \in Nat, NEW k \in Nat, \A p \in taken : p[1] < n \/ (p[1] = n /\ p[2] < k),
         rec[n].frames[k] \in Command
  PROVE  Matches(Append(started, rec[n].frames[k]), rec, taken \cup {<<n, k>>})
<1>1. PICK c \in Command : c = rec[n].frames[k]
  OBVIOUS
<1>2. PICK new : new = <<n, k>>
  OBVIOUS
<1>3. PICK more : more = Append(started, c)
  OBVIOUS
<1>4. PICK all : all = taken \cup {new}
  OBVIOUS
<1>5. started \in Seq(Command) /\ IsFiniteSet(taken) /\ Len(started) = Cardinality(taken)
  BY DEF Matches
<1>6. PICK l \in Nat : l = Len(started)
  BY <1>5
<1>7. more \in Seq(Command) /\ Len(more) = l + 1 /\ more[l + 1] = c /\ \A i \in 1 .. l : more[i] = started[i]
  BY <1>3, <1>5, <1>6, AppendProperties
<1>8. new[1] = n /\ new[2] = k /\ new \notin taken
  BY <1>2
<1>9. IsFiniteSet(all) /\ Cardinality(all) = l + 1
  BY <1>4, <1>5, <1>6, <1>8, FS_AddElement
<1>10. \A p \in taken : NotAfter(p, new) /\ ~NotAfter(new, p)
  <2>1. \A p \in taken : p[1] \in Nat /\ p[2] \in Nat
    OBVIOUS
  <2>. QED  BY <1>8, <2>1 DEF NotAfter
<1>11. NotAfter(new, new)
  BY <1>8 DEF NotAfter
<1>12. more[Cardinality({q \in all : NotAfter(q, new)})] = rec[new[1]].frames[new[2]]
  <2>1. {q \in all : NotAfter(q, new)} = all
    BY <1>4, <1>10, <1>11
  <2>2. Cardinality({q \in all : NotAfter(q, new)}) = l + 1
    BY <1>9, <2>1
  <2>. QED  BY <1>1, <1>7, <1>8, <2>2
<1>13. ASSUME NEW p \in taken
       PROVE  more[Cardinality({q \in all : NotAfter(q, p)})] = rec[p[1]].frames[p[2]]
  <2>1. PICK T : T = {q \in taken : NotAfter(q, p)}
    OBVIOUS
  <2>2. {q \in all : NotAfter(q, p)} = T
    BY <1>4, <1>10, <2>1
  <2>3. started[Cardinality(T)] = rec[p[1]].frames[p[2]]
    BY <2>1 DEF Matches
  <2>4. T \in SUBSET taken
    BY <2>1
  <2>5. IsFiniteSet(T) /\ Cardinality(T) <= l
    BY <1>5, <1>6, <2>4, FS_Subset
  <2>6. T # {}
    <3>1. NotAfter(p, p)
      BY DEF NotAfter
    <3>. QED  BY <2>1, <3>1
  <2>7. Cardinality(T) \in 1 .. l
    <3>1. Cardinality(T) \in Nat /\ Cardinality(T) # 0
      BY <2>5, <2>6, FS_CardinalityType, FS_EmptySet
    <3>. QED  BY <2>5, <3>1
  <2>. QED  BY <1>7, <2>2, <2>3, <2>7
<1>14. Matches(more, rec, all)
  <2>1. \A p \in all : p = new \/ p \in taken
    BY <1>4
  <2>2. Len(more) = Cardinality(all)
    BY <1>7, <1>9
  <2>3. \A p \in all : more[Cardinality({q \in all : NotAfter(q, p)})] = rec[p[1]].frames[p[2]]
    BY <1>12, <1>13, <2>1
  <2>. QED  BY <1>7, <1>9, <2>2, <2>3 DEF Matches
<1>. QED  BY <1>1, <1>2, <1>3, <1>4, <1>14

LEMMA AcceptedIsTaken ==
  ASSUME received \in Seq(Message) PROVE Accepted = Taken(received, 0)
<1>1. PICK rec \in Seq(Message) : rec = received
  OBVIOUS
<1>2. PICK n \in Nat : n = Len(rec)
  OBVIOUS
<1>3. \A i \in 1 .. n : rec[i].frames \in Seq(Frame)
  BY <1>2, MessageFrames
<1>4. \A i, j : <<i, j>> \in Accepted
                  <=> i \in 1 .. n /\ j \in 1 .. Len(rec[i].frames) /\ Starts(rec[i], j)
  <2>1. DOMAIN rec = 1 .. n /\ \A i \in 1 .. n : DOMAIN rec[i].frames = 1 .. Len(rec[i].frames)
    BY <1>2, <1>3
  <2>. QED  BY <1>1, <2>1 DEF Accepted
<1>5. \A p : p \in Accepted => p = <<p[1], p[2]>>
  BY DEF Accepted
<1>6. ASSUME NEW i, NEW j PROVE <<i, j>> \in Taken(rec, 0) <=> <<i, j>> \in Accepted
  <2>1. CASE i \in 1 .. n /\ j \in 1 .. Len(rec[i].frames)
    <3>1. PICK l \in Nat : l = Len(rec[i].frames)
      BY <1>3, <2>1
    <3>2. j + 0 <= l /\ i \in Nat /\ j \in Nat
      BY <2>1, <3>1
    <3>. QED  BY <1>2, <1>4, <2>1, <3>1, <3>2 DEF Taken
  <2>2. CASE ~(i \in 1 .. n /\ j \in 1 .. Len(rec[i].frames))
    BY <1>2, <1>4, <2>2 DEF Taken
  <2>. QED  BY <2>1, <2>2
<1>7. \A p : p \in Taken(rec, 0) => p = <<p[1], p[2]>>
  BY DEF Taken
<1>8. \A p : p \in Taken(rec, 0) <=> p \in Accepted
  <2>. TAKE p
  <2>1. CASE p = <<p[1], p[2]>>
    BY <1>6, <2>1
  <2>2. CASE p # <<p[1], p[2]>>
    BY <1>5, <1>7, <2>2
  <2>. QED  BY <2>1, <2>2
<1>. QED  BY <1>1, <1>8

LEMMA ReceiveKeeps ==
  ASSUME StartedInv, NEW m \in Message, Receive(m) PROVE StartedInv'
<1>1. PICK rec \in Seq(Message) : rec = received
  BY DEF StartedInv
<1>2. PICK longer : longer = Append(rec, m)
  OBVIOUS
<1>3. queue = <<>> /\ received' = longer /\ requests' = requests
  BY <1>1, <1>2 DEF Receive
<1>4. PICK n \in Nat : n = Len(rec)
  OBVIOUS
<1>5. longer \in Seq(Message) /\ Len(longer) = n + 1 /\ longer[n + 1] = m
  BY <1>2, <1>4, AppendProperties
<1>6. PICK q : q = queue'
  OBVIOUS
<1>7. q \in Seq(Frame) /\ (Readable(m) => q = m.frames) /\ (~Readable(m) => q = <<>>)
  <2>1. CASE Readable(m)
    BY <1>6, <2>1, FramesOfMessage, MessageFrames DEF Receive
  <2>2. CASE ~Readable(m)
    BY <1>3, <1>6, <2>2, FramesOfMessage, EmptySeq DEF Receive
  <2>. QED  BY <2>1, <2>2
<1>8. PICK left \in Nat : left = Len(q)
  BY <1>7
<1>9. Taken(longer, left) = Taken(rec, 0)
  <2>1. Readable(m) => left = Len(m.frames)
    BY <1>7, <1>8
  <2>. QED  BY <1>2, <2>1, TakenOfNew
<1>10. Matches(requests, longer, Taken(rec, 0))
  <2>1. Len(queue) = 0
    BY <1>3, EmptySeq
  <2>2. Matches(requests, rec, Taken(rec, 0))
    BY <1>1, <2>1 DEF StartedInv
  <2>3. \A p \in Taken(rec, 0) : p[1] \in 1 .. Len(rec)
    BY DEF Taken
  <2>. QED  BY <1>2, <2>2, <2>3, MatchesLonger
<1>11. q # <<>> => Pending(longer, q)
  <2>. SUFFICES ASSUME q # <<>> PROVE Pending(longer, q)
    OBVIOUS
  <2>1. Readable(m) /\ q = m.frames
    BY <1>7
  <2>2. longer # <<>>
    BY <1>5, EmptySeq
  <2>3. Len(longer) = n + 1 /\ longer[Len(longer)] = m
    BY <1>5
  <2>4. Len(m.frames) - Len(q) = 0 /\ Len(q) <= Len(m.frames)
    BY <1>8, <2>1
  <2>5. \A j \in 1 .. Len(q) : q[j] = m.frames[0 + j]
    BY <2>1
  <2>. QED  BY <2>1, <2>2, <2>3, <2>4, <2>5 DEF Pending
<1>12. Matches(requests', received', Taken(received', Len(queue')))
  BY <1>3, <1>6, <1>8, <1>9, <1>10
<1>. QED  BY <1>3, <1>5, <1>6, <1>7, <1>11, <1>12 DEF StartedInv

LEMMA DispatchKeeps ==
  ASSUME StartedInv, Dispatch PROVE StartedInv'
<1>1. PICK rec \in Seq(Message) : rec = received
  BY DEF StartedInv
<1>2. PICK q \in Seq(Frame) : q = queue /\ q # <<>>
  BY DEF StartedInv, Dispatch
<1>3. received' = rec
  BY <1>1 DEF Dispatch
<1>4. Pending(rec, q) /\ Matches(requests, rec, Taken(rec, Len(q)))
  BY <1>1, <1>2 DEF StartedInv
<1>5. rec # <<>>
  BY <1>4 DEF Pending
<1>6. PICK n \in Nat \ {0} : n = Len(rec)
  BY <1>5, EmptySeq
<1>7. PICK m \in Message : m = rec[n]
  BY <1>6
<1>8. PICK l \in Nat : l = Len(m.frames)
  BY MessageFrames
<1>9. PICK left \in Nat \ {0} : left = Len(q)
  BY <1>2, EmptySeq
<1>10. /\ Readable(m) /\ left <= l
       /\ \A j \in 1 .. left : q[j] = m.frames[l - left + j]
       /\ \A k \in 1 .. l - left : m.frames[k] # "garbage"
  BY <1>4, <1>6, <1>7, <1>8, <1>9 DEF Pending
<1>11. PICK at \in 1 .. l : at = l - left + 1
  BY <1>10
<1>12. PICK f \in Frame : f = Head(q) /\ f = q[1] /\ f = m.frames[at]
  <2>1. Head(q) = q[1] /\ q[1] \in Frame
    BY <1>2, <1>9
  <2>2. 1 \in 1 .. left
    BY <1>9
  <2>. QED  BY <1>10, <1>11, <2>1, <2>2
<1>13. PICK T : T = Taken(rec, left)
  OBVIOUS
<1>a. rec # <<>> /\ m = rec[Len(rec)] /\ left <= Len(m.frames) /\ at = Len(m.frames) - left + 1
  BY <1>5, <1>6, <1>7, <1>8, <1>10, <1>11
<1>14. Matches(requests, rec, T)
  BY <1>4, <1>9, <1>13
<1>15. CASE f = "garbage"
  <2>1. queue' = <<>> /\ requests' = requests
    <3>1. ~IsRequest(f)
      BY <1>15 DEF IsRequest, Command
    <3>. QED  BY <1>2, <1>12, <1>15, <3>1 DEF Dispatch
  <2>2. Taken(rec, 0) = T
    <3>1. m.frames[at] = "garbage"
      BY <1>12, <1>15
    <3>2. Taken(rec, 0) = Taken(rec, left)
      BY <1>a, <3>1, TakenBehindGarbage
    <3>. QED  BY <1>13, <3>2
  <2>3. Len(queue') = 0 /\ queue' \in Seq(Frame)
    BY <2>1, EmptySeq
  <2>. QED  BY <1>3, <1>14, <2>1, <2>2, <2>3 DEF StartedInv
<1>16. CASE f # "garbage"
  <2>1. PICK t : t = Tail(q)
    OBVIOUS
  <2>2. queue' = t
    BY <1>2, <1>12, <1>16, <2>1 DEF Dispatch
  <2>3. t \in Seq(Frame) /\ Len(t) = left - 1 /\ \A j \in 1 .. left - 1 : t[j] = q[j + 1]
    BY <1>2, <1>9, <2>1, HeadTailProperties
  <2>4. Pending(rec, t)
    <3>1. PICK d \in Nat : d = l - (left - 1) /\ d = at
      BY <1>10, <1>11
    <3>2. \A j \in 1 .. left - 1 : t[j] = m.frames[d + j]
      <4>. TAKE j \in 1 .. left - 1
      <4>1. j + 1 \in 1 .. left /\ l - left + (j + 1) = d + j
        BY <3>1
      <4>. QED  BY <1>10, <2>3, <4>1
    <3>3. \A k \in 1 .. d : m.frames[k] # "garbage"
      <4>. TAKE k \in 1 .. d
      <4>1. k \in 1 .. l - left \/ k = at
        BY <1>11, <3>1
      <4>. QED  BY <1>10, <1>12, <1>16, <4>1
    <3>4. left - 1 <= l
      BY <1>10
    <3>. QED  BY <1>5, <1>6, <1>7, <1>8, <1>10, <2>3, <3>1, <3>2, <3>3, <3>4 DEF Pending
  <2>5. Taken(rec, left - 1) = T \cup {p \in {<<n, at>>} : Starts(m, at)}
    <3>1. Taken(rec, left - 1) = Taken(rec, left) \cup {p \in {<<Len(rec), at>>} : Starts(m, at)}
      BY <1>a, TakenOfNext
    <3>. QED  BY <1>6, <1>13, <3>1
  <2>6. Starts(m, at) <=> f \in Command
    <3>1. "garbage" \notin {m.frames[k] : k \in 1 .. at}
      <4>1. \A k \in 1 .. at : k \in 1 .. l - left \/ k = at
        BY <1>11
      <4>. QED  BY <1>10, <1>12, <1>16, <4>1
    <3>. QED  BY <1>10, <1>12, <3>1 DEF Starts, Readable
  <2>7. Matches(requests', rec, Taken(rec, left - 1))
    <3>1. CASE f \in Command
      <4>1. requests' = Append(requests, f)
        BY <1>2, <1>12, <3>1 DEF Dispatch, IsRequest
      <4>2. Taken(rec, left - 1) = T \cup {<<n, at>>}
        BY <2>5, <2>6, <3>1
      <4>3. \A p \in T : p[1] < n \/ (p[1] = n /\ p[2] < at)
        <5>. TAKE p \in T
        <5>1. p[1] \in 1 .. n /\ p[2] \in Nat /\ (p[1] < n \/ p[2] + left <= Len(rec[p[1]].frames))
          BY <1>6, <1>13 DEF Taken
        <5>2. p[1] = n => p[2] + left <= l
          BY <1>7, <1>8, <5>1
        <5>3. p[1] = n => p[2] < at
          BY <1>11, <5>1, <5>2
        <5>. QED  BY <5>1, <5>3
      <4>4. T \subseteq Nat \X Nat
        BY <1>13 DEF Taken
      <4>5. f = rec[n].frames[at]
        BY <1>7, <1>12
      <4>6. Matches(Append(requests, f), rec, T \cup {<<n, at>>})
        <5>1. rec[n].frames[at] \in Command /\ n \in Nat /\ at \in Nat
          BY <3>1, <4>5
        <5>2. Matches(Append(requests, rec[n].frames[at]), rec, T \cup {<<n, at>>})
          BY <1>14, <4>3, <4>4, <5>1, MatchesMore
        <5>. QED  BY <4>5, <5>2
      <4>. QED  BY <4>1, <4>2, <4>6
    <3>2. CASE f \notin Command
      <4>1. requests' = requests
        BY <1>2, <1>12, <3>2 DEF Dispatch, IsRequest
      <4>2. Taken(rec, left - 1) = T
        BY <2>5, <2>6, <3>2
      <4>. QED  BY <1>14, <4>1, <4>2
    <3>. QED  BY <3>1, <3>2
  <2>8. Matches(requests', received', Taken(received', Len(queue')))
    BY <1>3, <2>2, <2>3, <2>7
  <2>. QED  BY <1>3, <2>2, <2>3, <2>4, <2>8 DEF StartedInv
<1>. QED  BY <1>15, <1>16

\* Every step keeps the invariant.
LEMMA StartedStep == StartedInv /\ [ConnectionNext]_connection => StartedInv'
<1>. SUFFICES ASSUME StartedInv, [ConnectionNext]_connection PROVE StartedInv'
  OBVIOUS
<1>1. ASSUME NEW m \in Message, Receive(m) PROVE StartedInv'
  BY <1>1, ReceiveKeeps
<1>2. CASE Dispatch
  BY <1>2, DispatchKeeps
<1>3. CASE \/ \E m \in Message : Handshake(m)
           \/ CloseNotice \/ Close \/ Break \/ UNCHANGED connection
           \/ \E g \in DOMAIN requests : Handle(g)
  <2>1. UNCHANGED <<received, queue, requests>>
    BY <1>3 DEF Handshake, CloseNotice, Close, Break, connection, Handle, Progress, Return, Snapshot, Respond
  <2>. QED  BY <2>1 DEF StartedInv
<1>. QED  BY <1>1, <1>2, <1>3 DEF ConnectionNext, Serve

\* The requests that are started are those of the messages, each once and in
\* their order (nativeConnection, decodeNativeFrames).
THEOREM RequestsStartedExactly == ConnectionSpec => []StartedExactly
<1>1. ConnectionInit => StartedInv
  <2>. SUFFICES ASSUME ConnectionInit PROVE StartedInv
    OBVIOUS
  <2>1. queue = <<>> /\ received = <<>> /\ requests = <<>>
    BY DEF ConnectionInit
  <2>2. Len(received) = 0 /\ Len(requests) = 0 /\ received \in Seq(Message) /\ queue \in Seq(Frame)
        /\ requests \in Seq(Command)
    BY <2>1, EmptySeq
  <2>3. Taken(received, Len(queue)) = {}
    BY <2>2 DEF Taken
  <2>4. Matches(requests, received, {})
    BY <2>2, FS_EmptySet DEF Matches
  <2>. QED  BY <2>1, <2>2, <2>3, <2>4 DEF StartedInv
<1>2. StartedInv => StartedExactly
  <2>. SUFFICES ASSUME StartedInv, queue = <<>>
                PROVE  /\ Len(requests) = Cardinality(Accepted)
                       /\ \A p \in Accepted :
                            requests[Cardinality({q \in Accepted : NotAfter(q, p)})]
                              = received[p[1]].frames[p[2]]
    BY DEF StartedExactly
  <2>1. Accepted = Taken(received, 0)
    BY AcceptedIsTaken DEF StartedInv
  <2>2. Len(queue) = 0
    BY EmptySeq
  <2>3. Matches(requests, received, Accepted)
    BY <2>1, <2>2 DEF StartedInv
  <2>. QED  BY <2>3 DEF Matches
<1>. QED  BY <1>1, <1>2, StartedStep, PTL DEF ConnectionSpec
=============================================================================
