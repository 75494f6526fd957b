------------------------------ MODULE RunGuard ------------------------------
(***************************************************************************)
(* The run guard of protocol.Server (src/protocol/pi_tui.go, startRun and   *)
(* abortRun) and the goroutines that use it, one per request of a native    *)
(* connection (src/protocol/native.go, handleNativeRequest).                *)
(*                                                                          *)
(* A prompt (or steer, which takes the same path) runs the agent under a    *)
(* context of its own; Server.runs maps a session to the cancel function of *)
(* that context.  An abort reads the map under the read lock and calls what *)
(* it found after unlocking.  A connection whose reader fails cancels the   *)
(* contexts of all its requests.  The mutex is held over single map         *)
(* operations only, so each of them is one step here; what happens between  *)
(* two critical sections interleaves with everything else.                  *)
(*                                                                          *)
(* A cancel function is identified by the request whose context it cancels. *)
(***************************************************************************)
EXTENDS Naturals, FiniteSets

CONSTANTS Session,      \* session identifiers
          Prompt,       \* requests with command prompt or steer
          Abort,        \* requests with command abort
          Conn,         \* native connections
          NoId,         \* the empty session id
          None          \* no cancel function (nil), no request

ASSUME Distinct == /\ Prompt \cap Abort = {}
                   /\ None \notin Prompt \cup Abort
                   /\ NoId \notin Session
ASSUME SomeConn == Conn # {}

Request == Prompt \cup Abort

VARIABLES runs,         \* Server.runs: session -> request, None when absent
          cancelled,    \* the prompts whose context is cancelled
          link,         \* state of each connection
          pc,           \* where the goroutine of each request is
          sess,         \* message.Request.SessionID
          conn,         \* the connection a request came on
          target,       \* abortRun: the cancel function read from the map
          result,       \* commandErr of the command, by kind
          reply         \* the response the client received

vars == <<runs, cancelled, link, pc, sess, conn, target, result, reply>>

\* Program points of handleNativeRequest at which a prompt owns its slot.
\* "blind" is a part of the run that does not look at its context: the wait
\* for the mutex of an MCP client, a local command whose background processes
\* hold its output, a file operation, an extension hook.
Holding == {"working", "blind", "snapshot", "respond", "cancel", "release"}

Stage == Holding \cup {"idle", "received", "refused", "abort", "done"}

TypeOK == /\ runs \in [Session -> Prompt \cup {None}]
          /\ cancelled \subseteq Prompt
          /\ link \in [Conn -> {"open", "broken", "closed"}]
          /\ pc \in [Request -> Stage]
          /\ sess \in [Request -> Session \cup {NoId}]
          /\ conn \in [Request -> Conn]
          /\ target \in [Abort -> Prompt \cup {None}]
          /\ result \in [Request -> {"none", "ok", "aborted", "error"}]
          /\ reply \in [Request -> {"none", "ok", "aborted", "error"}]

Init == /\ runs = [s \in Session |-> None]
        /\ cancelled = {}
        /\ link = [c \in Conn |-> "open"]
        /\ pc = [r \in Request |-> "idle"]
        /\ sess = [r \in Request |-> NoId]
        /\ conn \in [Request -> Conn]
        /\ target = [a \in Abort |-> None]
        /\ result = [r \in Request |-> "none"]
        /\ reply = [r \in Request |-> "none"]

-----------------------------------------------------------------------------
(* The reader of a connection.                                              *)

\* A frame with request r is read and its goroutine started.
Receive(r) == /\ pc[r] = "idle"
              /\ link[conn[r]] # "closed"
              /\ \E s \in Session \cup {NoId} : sess' = [sess EXCEPT ![r] = s]
              /\ pc' = [pc EXCEPT ![r] = "received"]
              /\ UNCHANGED <<runs, cancelled, link, conn, target, result, reply>>

\* The client goes away: from here on every write fails.
Break(c) == /\ link[c] = "open"
            /\ link' = [link EXCEPT ![c] = "broken"]
            /\ UNCHANGED <<runs, cancelled, pc, sess, conn, target, result, reply>>

\* The contexts that descend from the context of connection c.
Derived(c) == {p \in Prompt : conn[p] = c /\ pc[p] \in Holding}

\* ReadMessage fails, or a frame cannot be decoded: nativeConnection returns,
\* the context of the connection is cancelled and every context derived from
\* it with it.
ReaderReturns(c) == /\ link[c] # "closed"
                    /\ link' = [link EXCEPT ![c] = "closed"]
                    /\ cancelled' = cancelled \cup Derived(c)
                    /\ UNCHANGED <<runs, pc, sess, conn, target, result, reply>>

-----------------------------------------------------------------------------
(* startRun.                                                                *)

\* Mutant: the existing cancel function is not looked at.
StartRunUnchecked(p) ==
  /\ pc[p] = "received"
  /\ sess[p] # NoId
  /\ runs' = [runs EXCEPT ![sess[p]] = p]
  /\ cancelled' = IF link[conn[p]] = "closed" THEN cancelled \cup {p} ELSE cancelled
  /\ pc' = [pc EXCEPT ![p] = "working"]
  /\ UNCHANGED <<link, sess, conn, target, result, reply>>

\* Mutant: the context of the run is derived from the background context.
StartRunDetached(p) ==
  /\ pc[p] = "received"
  /\ sess[p] # NoId
  /\ runs[sess[p]] = None
  /\ runs' = [runs EXCEPT ![sess[p]] = p]
  /\ pc' = [pc EXCEPT ![p] = "working"]
  /\ UNCHANGED <<cancelled, link, sess, conn, target, result, reply>>

\* The slot is free: store the cancel function.  A context derived from a
\* cancelled one is born cancelled.
StartRun(p) ==
  /\ pc[p] = "received"
  /\ sess[p] # NoId
  /\ runs[sess[p]] = None
  /\ runs' = [runs EXCEPT ![sess[p]] = p]
  /\ cancelled' = IF link[conn[p]] = "closed" THEN cancelled \cup {p} ELSE cancelled
  /\ pc' = [pc EXCEPT ![p] = "working"]
  /\ UNCHANGED <<link, sess, conn, target, result, reply>>

\* An empty session id, or a session that is already running.
RefuseRun(p) ==
  /\ pc[p] = "received"
  /\ IF sess[p] = NoId THEN TRUE ELSE runs[sess[p]] # None
  /\ pc' = [pc EXCEPT ![p] = "refused"]
  /\ UNCHANGED <<runs, cancelled, link, sess, conn, target, result, reply>>

\* Mutant: finish is deferred before the error is looked at.
RefusalFrees(p) ==
  /\ pc[p] = "refused"
  /\ pc' = [pc EXCEPT ![p] = "done"]
  /\ runs' = IF sess[p] = NoId THEN runs ELSE [runs EXCEPT ![sess[p]] = None]
  /\ reply' = IF link[conn[p]] = "open" THEN [reply EXCEPT ![p] = "error"] ELSE reply
  /\ UNCHANGED <<cancelled, link, sess, conn, target, result>>

\* Mutant: a refused request returns without writing an error.
RefusalSilent(p) ==
  /\ pc[p] = "refused"
  /\ pc' = [pc EXCEPT ![p] = "done"]
  /\ UNCHANGED <<runs, cancelled, link, sess, conn, target, result, reply>>

\* writeNativeError, and return without a deferred finish.
WriteRefusal(p) ==
  /\ pc[p] = "refused"
  /\ pc' = [pc EXCEPT ![p] = "done"]
  /\ reply' = IF link[conn[p]] = "open" THEN [reply EXCEPT ![p] = "error"] ELSE reply
  /\ UNCHANGED <<runs, cancelled, link, sess, conn, target, result>>

-----------------------------------------------------------------------------
(* abortRun: the map is read under the lock, the function called after it.  *)

\* runs[id] of an id that is not in the map is nil.
SlotOf(s) == IF s = NoId THEN None ELSE runs[s]

\* Mutant: a nil cancel function is not told apart from a run.
AbortReadNil(a) ==
  /\ pc[a] = "received"
  /\ target' = [target EXCEPT ![a] = SlotOf(sess[a])]
  /\ pc' = [pc EXCEPT ![a] = "abort"]
  /\ UNCHANGED <<runs, cancelled, link, sess, conn, result, reply>>

AbortRead(a) ==
  /\ pc[a] = "received"
  /\ target' = [target EXCEPT ![a] = SlotOf(sess[a])]
  /\ pc' = [pc EXCEPT ![a] = IF SlotOf(sess[a]) = None THEN "working" ELSE "abort"]
  /\ UNCHANGED <<runs, cancelled, link, sess, conn, result, reply>>

\* Mutant: the map is read again when the function is called.
AbortWhoeverRuns(a) ==
  /\ pc[a] = "abort"
  /\ cancelled' = cancelled \cup ({SlotOf(sess[a])} \ {None})
  /\ pc' = [pc EXCEPT ![a] = "working"]
  /\ UNCHANGED <<runs, link, sess, conn, target, result, reply>>

\* Mutant: the function is found but never called.
AbortForgets(a) ==
  /\ pc[a] = "abort"
  /\ pc' = [pc EXCEPT ![a] = "working"]
  /\ UNCHANGED <<runs, cancelled, link, sess, conn, target, result, reply>>

AbortCancel(a) ==
  /\ pc[a] = "abort"
  /\ cancelled' = cancelled \cup {target[a]}
  /\ pc' = [pc EXCEPT ![a] = "working"]
  /\ UNCHANGED <<runs, link, sess, conn, target, result, reply>>

-----------------------------------------------------------------------------
(* The command itself and the answer.                                       *)

\* The run of a prompt enters a call that does not look at its context.
EnterBlind(p) ==
  /\ pc[p] = "working"
  /\ pc' = [pc EXCEPT ![p] = "blind"]
  /\ UNCHANGED <<runs, cancelled, link, sess, conn, target, result, reply>>

\* That call returns; nothing obliges it to.
LeaveBlind(p) ==
  /\ pc[p] = "blind"
  /\ pc' = [pc EXCEPT ![p] = "working"]
  /\ UNCHANGED <<runs, cancelled, link, sess, conn, target, result, reply>>

\* The command of a request returns: the agent run of a prompt, the store
\* read of an abort.  The error is context.Canceled ("aborted") only for a
\* request whose context is cancelled.  A cancelled run may still succeed.
CommandReturns(r) ==
  /\ pc[r] = "working"
  /\ \E k \in {"ok", "aborted", "error"} :
       /\ k = "aborted" => r \in cancelled \/ link[conn[r]] = "closed"
       /\ result' = [result EXCEPT ![r] = k]
       /\ pc' = [pc EXCEPT ![r] = IF k = "ok" THEN "snapshot" ELSE "respond"]
  /\ UNCHANGED <<runs, cancelled, link, sess, conn, target, reply>>

\* Mutant: finish deletes the slot and does not call cancel.
FinishWithoutCancel(r) == IF r \in Prompt THEN "release" ELSE "done"

\* The deferred finish is the empty function for anything but a prompt.
AfterReturn(r) == IF r \in Prompt THEN "cancel" ELSE "done"

\* The session_snapshot event; when the write fails the handler returns.
WriteSnapshot(r) ==
  /\ pc[r] = "snapshot"
  /\ pc' = [pc EXCEPT ![r] = IF link[conn[r]] = "open" THEN "respond" ELSE AfterReturn(r)]
  /\ UNCHANGED <<runs, cancelled, link, sess, conn, target, result, reply>>

WriteResponse(r) ==
  /\ pc[r] = "respond"
  /\ reply' = IF link[conn[r]] = "open" THEN [reply EXCEPT ![r] = result[r]] ELSE reply
  /\ pc' = [pc EXCEPT ![r] = AfterReturn(r)]
  /\ UNCHANGED <<runs, cancelled, link, sess, conn, target, result>>

\* finish: cancel(), then, in a critical section of its own, the delete.
FinishCancel(p) ==
  /\ pc[p] = "cancel"
  /\ cancelled' = cancelled \cup {p}
  /\ pc' = [pc EXCEPT ![p] = "release"]
  /\ UNCHANGED <<runs, link, sess, conn, target, result, reply>>

FinishDelete(p) ==
  /\ pc[p] = "release"
  /\ runs' = [runs EXCEPT ![sess[p]] = None]
  /\ pc' = [pc EXCEPT ![p] = "done"]
  /\ UNCHANGED <<cancelled, link, sess, conn, target, result, reply>>

PromptStep(p) == \/ StartRun(p)
                 \/ RefuseRun(p)
                 \/ WriteRefusal(p)
                 \/ FinishCancel(p)
                 \/ FinishDelete(p)

AbortStep(a) == \/ AbortRead(a)
                \/ AbortCancel(a)

AnswerStep(r) == \/ WriteSnapshot(r)
                 \/ WriteResponse(r)

Next == \/ \E r \in Request : Receive(r) \/ CommandReturns(r) \/ AnswerStep(r)
        \/ \E p \in Prompt : PromptStep(p) \/ EnterBlind(p) \/ LeaveBlind(p)
        \/ \E a \in Abort : AbortStep(a)
        \/ \E c \in Conn : Break(c) \/ ReaderReturns(c)

Spec == Init /\ [][Next]_vars

(***************************************************************************)
(* A goroutine that can take a step takes it, and a reader notices that its *)
(* client is gone. A provider call has no timeout of its own, so a run need *)
(* not return before its context is cancelled. After that it does, unless   *)
(* it stays in a call that does not look at its context: no fairness makes  *)
(* those return. A cancelled run makes only the calls left in its turn, so  *)
(* it does not enter such calls for ever: its return is strongly fair. The  *)
(* store read of an abort returns. Clients owe nothing: Receive and Break   *)
(* are not fair.                                                            *)
(***************************************************************************)
ReaderNotices(c) == link[c] = "broken" /\ ReaderReturns(c)

CancelledReturns(p) == p \in cancelled /\ CommandReturns(p)

Fairness ==
  /\ \A p \in Prompt : WF_vars(PromptStep(p)) /\ SF_vars(CancelledReturns(p))
  /\ \A a \in Abort : WF_vars(AbortStep(a)) /\ WF_vars(CommandReturns(a))
  /\ \A r \in Request : WF_vars(AnswerStep(r))
  /\ \A c \in Conn : WF_vars(ReaderNotices(c))

FairSpec == Spec /\ Fairness

-----------------------------------------------------------------------------
(* Properties.                                                              *)

\* At most one agent run per session: from the moment startRun accepts a
\* prompt until its slot is deleted no other prompt of that session runs,
\* whatever aborts, disconnects and refused prompts do in between.
RunMutex == \A p, q \in Prompt :
               /\ pc[p] \in Holding
               /\ pc[q] \in Holding
               /\ sess[p] = sess[q]
               => p = q

\* The map and the goroutines agree: a slot names exactly the prompt that
\* holds it, so that finish never deletes the slot of a successor and no
\* slot outlives its run (a leaked slot refuses the session for ever).
SlotOwned == \A s \in Session : \A p \in Prompt :
                runs[s] = p <=> (pc[p] \in Holding /\ sess[p] = s)

\* A run is interrupted only for a cause: its own connection is gone, or an
\* abort of the same session found it in the slot.  In particular an abort
\* that lost the race with finish never hits the next run of the session.
InterruptHasCause ==
  \A p \in Prompt : p \in cancelled /\ pc[p] \in {"working", "blind", "snapshot", "respond"} =>
     \/ link[conn[p]] = "closed"
     \/ \E a \in Abort : /\ target[a] = p
                         /\ sess[a] = sess[p]
                         /\ pc[a] \notin {"idle", "received", "abort"}

\* What an abort reports is what it did: once the client has the response of
\* an abort that found a run, the context of that run is cancelled.
AbortedIsCancelled ==
  \A a \in Abort : reply[a] = "ok" /\ target[a] # None => target[a] \in cancelled

\* A run whose calls come back.
CallsComeBack(p) == []<>(pc[p] # "blind")

\* A session is given back, by whatever way its run ends, if the calls the run
\* makes come back: a run that an abort found does not keep its slot, and every
\* prompt of a connection that is gone ends, those received but not yet started
\* included.  Without the condition it is false of the code: a run waiting for
\* an MCP server that is silent keeps its session although it is cancelled.
SessionsFreed ==
  \A p \in Prompt : CallsComeBack(p) =>
    /\ \A a \in Abort : (pc[a] = "abort" /\ target[a] = p)
                          ~> (pc[p] = "done" /\ SlotOf(sess[p]) # p)
    /\ (link[conn[p]] = "closed" /\ pc[p] # "idle") ~> pc[p] = "done"

\* Every abort, and every prompt that is refused, is answered unless the
\* connection goes away first.
RequestAnswered ==
  \A r \in Request :
     (pc[r] = "refused" \/ (r \in Abort /\ pc[r] = "received"))
        ~> (reply[r] # "none" \/ link[conn[r]] # "open")

-----------------------------------------------------------------------------
(* The guard implements a lock per session.  The holder is read off the     *)
(* goroutines, not off the map: that the map gives the same answer is what  *)
(* has to be shown.                                                         *)

HolderOf(s) == IF \E p \in Prompt : pc[p] \in Holding /\ sess[p] = s
               THEN CHOOSE p \in Prompt : pc[p] \in Holding /\ sess[p] = s
               ELSE None

Finished == {p \in Prompt : pc[p] = "done" /\ p \in cancelled}

Lock == INSTANCE SessionLock WITH Run <- Prompt,
                                  holder <- [s \in Session |-> HolderOf(s)],
                                  stopped <- cancelled,
                                  finished <- Finished

\* Every behaviour of the guard is one of the abstract session lock.
LockSpec == Lock!Spec
=============================================================================
