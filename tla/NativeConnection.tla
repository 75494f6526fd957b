-------------------------- MODULE NativeConnection --------------------------
(***************************************************************************)
(* One connection of the native protocol (src/protocol/native.go,           *)
(* nativeConnection, handleNativeRequest and commandForNative): the         *)
(* handshake, the messages with their frames, a goroutine for each request, *)
(* and what the client gets to see, in its order.                           *)
(*                                                                          *)
(* A frame is named for what the server makes of it: "hello", "old" (a      *)
(* hello of another version), "other" (any other type), "garbage" (no CBOR, *)
(* here the empty frame), "long" (above the limit), or the command of a     *)
(* request, by what is sent for it: "prompt" stands for prompt and steer,   *)
(* "attach" for every other command that answers with a session, "list" for *)
(* list and detach, "unknown" for one that fails.  What the commands do is  *)
(* the matter of other modules.  A message is text, or the bytes of some    *)
(* frames, of which the last may be cut short (Framing).                    *)
(***************************************************************************)
EXTENDS Framing, FiniteSetsExt

CONSTANTS Message,       \* the messages the client may send
          MaxMessages,   \* bound on their number
          MaxEvents      \* bound on the progress events of a prompt

Kinds == <<"hello", "old", "other", "prompt", "attach", "list", "unknown", "garbage", "long">>
Frame == Range(Kinds)
Command == {"prompt", "attach", "list", "unknown"}

\* The bytes of a frame; those that are not empty or too long are as long as
\* they may be.
Payload(frame) ==
  LET code == CHOOSE k \in DOMAIN Kinds : Kinds[k] = frame
  IN  CASE frame = "garbage" -> <<>>
        [] frame = "long" -> [i \in 1 .. MaxFrame + 1 |-> code]
        [] OTHER -> [i \in 1 .. MaxFrame |-> code]

Named(payload) == CHOOSE frame \in Frame : Payload(frame) = payload

\* The bytes of a message.
Bytes(m) == LET whole == FlattenSeq([i \in DOMAIN m.frames |-> Encode(Payload(m.frames[i]))])
            IN  SubSeq(whole, 1, Len(whole) - m.cut)

\* Frames, and the bytes that are missing of the last one.
Sent == [text : BOOLEAN, frames : Seq(Frame), cut : Nat]

ASSUME ConnectionAssumption ==
  /\ Len(Kinds) < Base /\ MaxFrame + 1 < Power(HeaderLen)
  /\ MaxMessages \in Nat /\ MaxEvents \in Nat
  /\ Message \subseteq Sent
  /\ \A m \in Message :
       m.cut > 0 => m.frames # <<>> /\ m.cut < HeaderLen + Len(Payload(Last(m.frames)))

\* What the reader makes of a message: its frames, if it can be framed.
Framed(m) == IF m.text THEN Refusal ELSE Decode(Bytes(m))
Frames(m) == [i \in DOMAIN Framed(m).frames |-> Named(Framed(m).frames[i])]

\* As many requests as the messages can hold.
Goroutine == 1 .. MaxMessages * Max({Len(m.frames) : m \in Message})

VARIABLES reader,        \* nativeConnection: "hello", "open", "failed" or "closed"
          queue,         \* the frames of the message it has read that are left
          received,      \* the messages it has read after the handshake (history)
          requests,      \* the commands started; request g is the g-th
          stage,         \* where each of them is
          out,           \* what the client was sent
          up             \* the client is there

connection == <<reader, queue, received, requests, stage, out, up>>

ConnectionInit == /\ reader = "hello" /\ queue = <<>> /\ received = <<>>
                  /\ requests = <<>> /\ stage = <<>> /\ out = <<>> /\ up = TRUE

Writable == up /\ reader # "closed" /\ "close" \notin {out[i].type : i \in DOMAIN out}

Write(type, g) == out' = IF Writable THEN Append(out, [type |-> type, of |-> g]) ELSE out

-----------------------------------------------------------------------------
(* The reader.                                                              *)

\* The first message: a single frame that is a hello of this version.
Handshake(m) ==
  /\ reader = "hello" /\ up
  /\ IF ~Framed(m).ok \/ Len(Frames(m)) # 1 \/ Frames(m) = <<"garbage">>
     THEN reader' = "failed" /\ UNCHANGED out
     ELSE IF Frames(m) = <<"hello">>
     THEN reader' = "open" /\ Write("hello", 0)
     ELSE reader' = "closed" /\ Write("hello_error", 0)
  /\ UNCHANGED <<queue, received, requests, stage, up>>

Receive(m) ==
  /\ reader = "open" /\ queue = <<>> /\ up
  /\ Len(received) < MaxMessages
  /\ received' = Append(received, m)
  /\ IF Framed(m).ok THEN queue' = Frames(m) /\ UNCHANGED reader
                     ELSE reader' = "failed" /\ UNCHANGED queue
  /\ UNCHANGED <<requests, stage, out, up>>

IsRequest(frame) == frame \in Command

\* The next frame of the message: a request gets a goroutine.
Dispatch ==
  /\ reader = "open" /\ queue # <<>>
  /\ IF Head(queue) = "garbage"
     THEN reader' = "failed" /\ queue' = <<>>
     ELSE queue' = Tail(queue) /\ UNCHANGED reader
  /\ IF IsRequest(Head(queue))
     THEN requests' = Append(requests, Head(queue)) /\ stage' = Append(stage, "run")
     ELSE UNCHANGED <<requests, stage>>
  /\ UNCHANGED <<received, out, up>>

\* NativeHandler tells the client why, if it can, and closes.
CloseNotice == reader = "failed" /\ Writable /\ Write("close", 0)
               /\ UNCHANGED <<reader, queue, received, requests, stage, up>>

Close == /\ \/ reader = "failed" /\ ~Writable
            \/ reader \in {"hello", "open"} /\ queue = <<>> /\ ~up
         /\ reader' = "closed"
         /\ UNCHANGED <<queue, received, requests, stage, out, up>>

\* The client goes away.
Break == up /\ up' = FALSE /\ UNCHANGED <<reader, queue, received, requests, stage, out>>

-----------------------------------------------------------------------------
(* handleNativeRequest.                                                     *)

GoTo(g, at) == stage' = [stage EXCEPT ![g] = at]

Events(g) == Len(SelectSeq(out, LAMBDA m : m.type = "progress" /\ m.of = g))

Progress(g) == /\ stage[g] = "run" /\ requests[g] = "prompt" /\ Events(g) < MaxEvents
               /\ Writable /\ Write("progress", g)
               /\ UNCHANGED <<reader, queue, received, requests, stage, up>>

\* Mutant: a success is answered without its session.
OutcomesBare(command) == IF command = "unknown" THEN {"error"} ELSE {"ok", "error"}

\* Mutant: the client hears nothing of a failure.
OutcomesSilent(command) == IF command = "list" THEN {"ok"} ELSE {"snapshot", "done"}

\* How a command ends: a success with a session sends the session first.
Outcomes(command) == CASE command \in {"prompt", "attach"} -> {"snapshot", "error"}
                       [] command = "list" -> {"ok"}
                       [] OTHER -> {"error"}

\* The command returns; startRun may have refused it.
Return(g) == /\ stage[g] = "run"
             /\ \E at \in Outcomes(requests[g]) : GoTo(g, at)
             /\ UNCHANGED <<reader, queue, received, requests, out, up>>

\* The session as an event; the response is not tried when that fails.
Snapshot(g) == /\ stage[g] = "snapshot"
               /\ GoTo(g, IF Writable THEN "ok" ELSE "done")
               /\ Write("snapshot", g)
               /\ UNCHANGED <<reader, queue, received, requests, up>>

Respond(g) == /\ stage[g] \in {"ok", "error"}
              /\ Write(stage[g], g) /\ GoTo(g, "done")
              /\ UNCHANGED <<reader, queue, received, requests, up>>

Handle(g) == Progress(g) \/ Return(g) \/ Snapshot(g) \/ Respond(g)

Serve == Dispatch \/ CloseNotice \/ Close

ConnectionNext == \/ \E m \in Message : Handshake(m) \/ Receive(m)
                  \/ Serve
                  \/ Break
                  \/ \E g \in DOMAIN requests : Handle(g)

\* The reader and the goroutines continue; commands return.
ConnectionSpec ==
  /\ ConnectionInit /\ [][ConnectionNext]_connection
  /\ WF_connection(Serve)
  /\ \A g \in Goroutine : WF_connection(g \in DOMAIN requests /\ Handle(g))

-----------------------------------------------------------------------------
(* Properties.                                                              *)

Response == {"ok", "error"}

\* What a request was told by the first n messages to the client.
Told(said, n, g) == {said[i].type : i \in {k \in 1 .. n : said[k].of = g}}

\* For each request the client sees progress, then the session as it is
\* now, if the command succeeded with one, then one response and nothing
\* after it, whatever other requests do on the same connection.
AnsweredInOrder ==
  \A j \in 1 .. Len(out) :
    LET g == out[j].of
        before == Told(out, j - 1, g)
        session == requests[g] \in {"prompt", "attach"}
    IN  g \in DOMAIN requests =>
          /\ out[j].type # "ok" => before \subseteq {"progress"}
          /\ out[j].type = "snapshot" => session
          /\ out[j].type = "ok" => before \subseteq {"progress", "snapshot"}
                                   /\ (session => "snapshot" \in before)

\* Whether the frame at j of a message is to start a request.
Starts(m, j) ==
  /\ ~m.text /\ m.cut = 0 /\ "long" \notin Range(m.frames)
  /\ m.frames[j] \in Command
  /\ "garbage" \notin {m.frames[k] : k \in 1 .. j}

\* The places of these frames in what was received, and their order.
Accepted == UNION {{<<i, j>> : j \in {k \in DOMAIN received[i].frames : Starts(received[i], k)}} :
                     i \in DOMAIN received}

NotAfter(p, q) == p[1] < q[1] \/ (p[1] = q[1] /\ p[2] <= q[2])

\* The requests of a message are started, each once and in their order, up to
\* the first frame that is no CBOR, whatever bytes are in them and up to the
\* limit in length; none of a message that is cut short or has a frame above
\* the limit, and nothing of what comes after either.
StartedExactly ==
  queue = <<>> =>
    /\ Len(requests) = Cardinality(Accepted)
    /\ \A p \in Accepted :
         requests[Cardinality({q \in Accepted : NotAfter(q, p)})] = received[p[1]].frames[p[2]]

\* Every request that was started is answered, unless its connection ends:
\* requests of the same message that fail or take long do not keep it.
EveryRequestAnswered ==
  \A g \in Goroutine :
    g \in DOMAIN requests ~>
      \/ reader \in {"failed", "closed"} \/ ~up
      \/ \E i \in DOMAIN out : out[i].of = g /\ out[i].type \in Response
=============================================================================
