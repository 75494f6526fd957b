----------------------------- MODULE McpClient -----------------------------
(***************************************************************************)
(* The client of an MCP server on a pair of pipes (src/mcp/client.go), that *)
(* all sessions share: calls that first make sure of the handshake and then *)
(* write a request and wait for its line, one at a time under a mutex.      *)
(*                                                                          *)
(* Every wait has a goroutine of its own that reads one line.  A call that  *)
(* is cancelled returns and leaves its reader behind: leaked counts those.  *)
(* They share a bufio.Reader with the reader of the call, without a lock:   *)
(* while there are any, a line may reach the call, be lost to one of them,  *)
(* or be broken.                                                            *)
(*                                                                          *)
(* The server may work on several requests at once and answer in any order, *)
(* write lines that answer nothing, ask requests of its own, and exit.      *)
(* Writes to it do not block.                                               *)
(***************************************************************************)
EXTENDS Naturals, Sequences, SequencesExt

CONSTANTS Call,          \* calls of ListTools or Call
          Cancellable,   \* those whose context may be cancelled
          NoCall,        \* nobody holds the mutex
          MaxNoise,      \* bound on the lines that answer nothing
          Mortal         \* whether the server may exit

ASSUME ClientAssumption == /\ Cancellable \subseteq Call /\ NoCall \notin Call
                           /\ MaxNoise \in Nat /\ Mortal \in BOOLEAN

VARIABLES mu,            \* the holder of StdioClient.mu
          next,          \* StdioClient.next
          initialized,   \* StdioClient.initialized
          pc, id,        \* per call: where it is, the id of its request
          inbox,         \* per call: the line its reader has read, if any
          answer,        \* per call: the request its result belongs to, 0 for none
          leaked,        \* readers without a call
          cancelled,     \* calls whose context is cancelled
          sent,          \* what was written to the server (history)
          due, pipe,     \* requests to answer, lines to be read
          alive, noise

vars == <<mu, next, initialized, pc, id, inbox, answer, leaked, cancelled, sent, due, pipe,
          alive, noise>>
client == <<mu, next, initialized, pc, id, inbox, answer, leaked, sent>>
server == <<due, pipe, alive, noise>>

NoLine == <<>>
Line(i, is, of) == [id |-> i, is |-> is, of |-> of]
Noise == Line(0, "noise", 0)

Init == /\ mu = NoCall /\ next = 0 /\ initialized = FALSE
        /\ pc = [c \in Call |-> "idle"] /\ id = [c \in Call |-> 0]
        /\ inbox = [c \in Call |-> NoLine] /\ answer = [c \in Call |-> 0]
        /\ leaked = 0 /\ cancelled = {} /\ sent = <<>>
        /\ due = {} /\ pipe = <<>> /\ alive = TRUE /\ noise = 0

Go(c, at) == pc' = [pc EXCEPT ![c] = at]
Unlock == mu' = NoCall

\* The method a holder is busy with: the handshake comes before the call.
Method(c) == IF initialized THEN "call" ELSE "initialize"

-----------------------------------------------------------------------------
(* The call.                                                                *)

\* A call whose arguments are no JSON object ends before it reaches the client.
Start(c) == /\ pc[c] = "idle"
            /\ \E at \in {"ensure", "failed"} : Go(c, at)
            /\ UNCHANGED <<mu, next, initialized, id, inbox, answer, leaked, sent, cancelled, server>>

Hold(c) == mu' = c

\* ensureInitialized, and request once it is done; the mutex knows nothing of
\* contexts.
Lock(c) ==
  /\ mu = NoCall
  /\ \/ pc[c] = "ensure" /\ initialized /\ Go(c, "ready") /\ UNCHANGED mu
     \/ pc[c] = "ensure" /\ ~initialized /\ Go(c, "send") /\ Hold(c)
     \/ pc[c] = "ready" /\ Go(c, "send") /\ Hold(c)
  /\ UNCHANGED <<next, initialized, id, inbox, answer, leaked, sent, cancelled, server>>

\* requestLocked draws the next id, writes the request and starts a reader.
Send(c) ==
  /\ pc[c] = "send"
  /\ next' = next + 1
  /\ id' = [id EXCEPT ![c] = next + 1]
  /\ IF alive
     THEN /\ Go(c, "await")
          /\ sent' = Append(sent, Method(c))
          /\ due' = due \cup {next + 1}
          /\ UNCHANGED mu
     ELSE Go(c, "failed") /\ Unlock /\ UNCHANGED <<sent, due>>
  /\ UNCHANGED <<initialized, inbox, answer, leaked, cancelled, pipe, alive, noise>>

Reading(c) == pc[c] = "await" /\ inbox[c] = NoLine

\* The reader of the call reads a line, or the end of the pipe.
Read(c) ==
  /\ Reading(c)
  /\ \/ /\ pipe # <<>>
        /\ pipe' = Tail(pipe)
        /\ leaked' \in {leaked, IF leaked = 0 THEN 0 ELSE leaked - 1}
        /\ \E line \in {Head(pipe)} \cup (IF leaked > 0 THEN {Noise} ELSE {}) :
             inbox' = [inbox EXCEPT ![c] = <<line>>]
     \/ /\ pipe = <<>> /\ ~alive
        /\ inbox' = [inbox EXCEPT ![c] = <<Line(0, "eof", 0)>>]
        /\ UNCHANGED <<pipe, leaked>>
  /\ UNCHANGED <<mu, next, initialized, pc, id, answer, sent, cancelled, due, alive, noise>>

\* A reader that was left behind throws a line away.
ReadLeaked ==
  /\ leaked > 0 /\ pipe # <<>>
  /\ pipe' = Tail(pipe)
  /\ leaked' = leaked - 1
  /\ UNCHANGED <<mu, next, initialized, pc, id, inbox, answer, sent, cancelled, due, alive, noise>>

\* Mutant: whatever is not broken answers the request.
AnyAnswer(c, line) == line.is \notin {"noise", "eof"}

Answers(c, line) == line.is # "eof" /\ line.id = id[c]

Received(c, line) == pc[c] = "await" /\ inbox[c] = <<line>> /\ inbox' = [inbox EXCEPT ![c] = NoLine]

\* A line for somebody else: the loop starts another reader.
Skip(c) ==
  \E line \in ToSet(inbox[c]) :
    /\ Received(c, line) /\ line.is # "eof" /\ ~Answers(c, line)
    /\ UNCHANGED <<mu, next, initialized, pc, id, answer, leaked, sent, cancelled, server>>

\* The line of the request.  A request of the server with the same id has no
\* result: that fails a call, which decodes the result, and ends a handshake.
Accept(c) ==
  \E line \in ToSet(inbox[c]) :
    /\ Received(c, line) /\ Answers(c, line)
    /\ IF line.is # "error" /\ Method(c) = "initialize"
       THEN Go(c, "notify") /\ UNCHANGED <<mu, answer>>
       ELSE /\ Go(c, IF line.is = "result" THEN "done" ELSE "failed")
            /\ answer' = [answer EXCEPT ![c] = IF line.is = "result" THEN line.of ELSE 0]
            /\ Unlock
    /\ UNCHANGED <<next, initialized, id, leaked, sent, cancelled, server>>

\* Mutant: the end of the pipe is skipped like a broken line.
EndSkipped(c) ==
  /\ Received(c, Line(0, "eof", 0))
  /\ UNCHANGED <<mu, next, initialized, pc, id, answer, leaked, sent, cancelled, server>>

EndOfPipe(c) ==
  /\ Received(c, Line(0, "eof", 0)) /\ Go(c, "failed") /\ Unlock
  /\ UNCHANGED <<next, initialized, id, answer, leaked, sent, cancelled, server>>

\* Mutant: only a reader that has its line sees the cancellation.
NoticesLate(c) == c \in cancelled /\ inbox[c] # NoLine

Notices(c) == c \in cancelled

\* The call is cancelled: its reader stays, unless it has its line already.
GiveUp(c) ==
  /\ pc[c] = "await" /\ Notices(c)
  /\ leaked' = IF Reading(c) THEN leaked + 1 ELSE leaked
  /\ inbox' = [inbox EXCEPT ![c] = NoLine]
  /\ Go(c, "failed") /\ Unlock
  /\ UNCHANGED <<next, initialized, id, answer, sent, cancelled, server>>

\* Mutant: the handshake is not remembered.
InitializedForgotten == FALSE

InitializedNow == TRUE

\* The end of the handshake.
Notify(c) ==
  /\ pc[c] = "notify" /\ Unlock
  /\ IF alive
     THEN Go(c, "ready") /\ sent' = Append(sent, "initialized") /\ initialized' = InitializedNow
     ELSE Go(c, "failed") /\ UNCHANGED <<sent, initialized>>
  /\ UNCHANGED <<next, id, inbox, answer, leaked, cancelled, server>>

Cancel(c) == /\ c \in Cancellable \ cancelled /\ pc[c] \notin {"done", "failed"}
             /\ cancelled' = cancelled \cup {c}
             /\ UNCHANGED <<client, server>>

-----------------------------------------------------------------------------
(* The server.                                                              *)

Answer == /\ alive
          /\ \E i \in due, is \in {"result", "error"} :
               due' = due \ {i} /\ pipe' = Append(pipe, Line(i, is, i))
          /\ UNCHANGED <<client, cancelled, alive, noise>>

\* A line that is no answer: a notification, a broken line or a request of
\* the server, whose ids are its own.
Chatter == /\ alive /\ noise < MaxNoise
           /\ noise' = noise + 1
           /\ \E line \in {Noise} \cup {Line(i, "request", 0) : i \in 1 .. 2} :
                pipe' = Append(pipe, line)
           /\ UNCHANGED <<client, cancelled, due, alive>>

\* It exits by itself or because of Close.
Exit == Mortal /\ alive /\ alive' = FALSE /\ UNCHANGED <<client, cancelled, due, pipe, noise>>

Step(c) == \/ Lock(c)
           \/ Send(c)
           \/ Read(c)
           \/ Skip(c)
           \/ Accept(c)
           \/ EndOfPipe(c)
           \/ GiveUp(c)
           \/ Notify(c)

Next == \/ \E c \in Call : Start(c) \/ Step(c) \/ Cancel(c)
        \/ ReadLeaked
        \/ Answer
        \/ Chatter
        \/ Exit

Spec == Init /\ [][Next]_vars

\* Goroutines continue.
FairSpec == Spec /\ WF_vars(ReadLeaked) /\ \A c \in Call : WF_vars(Step(c))

-----------------------------------------------------------------------------
(* Properties.                                                              *)

\* A result returned to a call is the answer to the request of this call,
\* whatever answers of cancelled calls are still on their way.
OwnAnswer == \A c \in Call : pc[c] = "done" => answer[c] = id[c]

\* The server sees one handshake, and it is complete before the first call.
HandshakeFirst ==
  \A i, j \in 1 .. Len(sent) :
    /\ sent[i] = "initialized" /\ sent[j] = "initialized" => i = j
    /\ sent[i] = "call" => \E k \in 1 .. i - 1 : sent[k] = "initialized"
    /\ sent[i] = "initialized" /\ sent[j] = "initialize" => j < i

\* A cancelled call that talks to the server lets go of the mutex, even if
\* the server has stopped answering.
CancelledLetsGo == \A c \in Call : c \in cancelled /\ mu = c ~> mu # c

\* Every call returns if the server, as long as it lives, answers what it is
\* asked, unless a call has been cancelled: what the reader of that one takes
\* away, the handshake of another included, is lost.
CallReturns ==
  WF_vars(Answer) =>
    <>[](cancelled # {} \/ \A c \in Call : pc[c] \in {"idle", "done", "failed"})
=============================================================================
