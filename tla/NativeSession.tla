--------------------------- MODULE NativeSession ---------------------------
(***************************************************************************)
(* A session used through the native protocol: prompts go through the run   *)
(* guard and then through Runner, the service and the SQL store, while      *)
(* set_model and set_thinking go to the store without asking the guard      *)
(* (src/protocol/native.go, handleNativeRequest and commandForNative).      *)
(* The HTTP API knows nothing of the guard either, and may append to the    *)
(* same session (src/httpapi/server.go).  The process may die at any moment *)
(* and be started again: the row is all that is left.                       *)
(*                                                                          *)
(* The guard appears as the session lock it implements (RunGuard), the      *)
(* store statement by statement (SessionStore).                             *)
(***************************************************************************)
EXTENDS SessionStore

CONSTANTS TheSession,   \* the session
          Workloads,    \* sets of calls of which one is made
          MaxCrash      \* bound on the number of crashes

ASSUME NativeAssumption == Workloads \subseteq SUBSET Call /\ MaxCrash \in Nat

VARIABLES holder, stopped, finished,    \* of the lock
          crashes,                      \* how often the process died
          workload                      \* the calls that are made

nativeVars == <<vars, holder, stopped, finished, crashes, workload>>
lockState == <<holder, stopped, finished>>

Prompt == {c \in Call : Kind[c] = "run"}

\* The session is used over HTTP as well.
OverHttp == \E c \in workload : Kind[c] = "append"

Lock == INSTANCE SessionLock WITH Session <- {TheSession}, Run <- Prompt, None <- NoCall

NativeInit == Init /\ Lock!Init /\ crashes = 0 /\ workload \in Workloads

\* startRun accepts the prompt and its goroutine goes on to the runner.
StartPrompt(p) == /\ Lock!Acquire(TheSession, p)
                  /\ Begin(p)
                  /\ UNCHANGED <<crashes, workload>>

\* startRun refuses the prompt.
RefusePrompt(p) == /\ pc[p] = "idle"
                   /\ holder[TheSession] # NoCall
                   /\ Answer(p, "error")
                   /\ UNCHANGED <<row, written, todo, copy, kept, batch, seen, made, lockState, crashes, workload>>

\* What asks no guard: a settings command, or an append over HTTP.
StartUnguarded(c) == /\ Kind[c] # "run"
                     /\ Begin(c)
                     /\ UNCHANGED <<lockState, crashes, workload>>

StoreStep(c) == Step(c) /\ UNCHANGED <<lockState, crashes, workload>>

\* An abort, a disconnect, or the cancel() of finish.
StopPrompt == Lock!Stop /\ UNCHANGED <<vars, crashes, workload>>

\* Mutant: the slot is freed while the run still stores its trace.
ReleaseEarly(p) == /\ Lock!Release(TheSession, p)
                   /\ UNCHANGED <<vars, crashes, workload>>

\* The deferred finish frees the slot once the request has been answered.
ReleasePrompt(p) == /\ pc[p] = "done"
                    /\ Lock!Release(TheSession, p)
                    /\ UNCHANGED <<vars, crashes, workload>>

\* The process dies with all its goroutines, the runs map included; nobody
\* is answered any more.  The requests it served are not resumed.
Crash == /\ crashes < MaxCrash
         /\ crashes' = crashes + 1
         /\ pc' = [c \in Call |-> IF pc[c] = "idle" THEN "idle" ELSE "done"]
         /\ holder' = [holder EXCEPT ![TheSession] = NoCall]
         /\ finished' = finished \cup ({holder[TheSession]} \ {NoCall})
         /\ UNCHANGED <<row, written, todo, copy, kept, batch, seen, made, reply, stopped, workload>>

NativeNext == \/ \E p \in Prompt \cap workload : StartPrompt(p) \/ RefusePrompt(p) \/ ReleasePrompt(p)
              \/ \E c \in workload : StartUnguarded(c) \/ StoreStep(c)
              \/ StopPrompt
              \/ Crash

NativeSpec == NativeInit /\ [][NativeNext]_nativeVars

-----------------------------------------------------------------------------
(* Properties.                                                              *)

\* The messages of one prompt stay together: no message of another prompt
\* gets between a user message, the tool calls and the tool results.
TurnsContiguous ==
  ~OverHttp =>
    \A i, j, k \in 1 .. Len(written) :
      i < j /\ j < k /\ written[i].by = written[k].by => written[j].by = written[i].by

\* The agent of a prompt starts from a transcript that ends in its prompt.
AgentSeesPrompt ==
  ~OverHttp => \A p \in Prompt : seen[p] # <<>> => Last(seen[p]) = Msg(p, 1)

\* Only a complete turn is reported as a success: its user message and every
\* message the agent returned are written (the integration test reads them
\* back after the response).  An error in the middle of the trace, which
\* leaves a part of it in the row, is never reported as a success.
AckedTurnStored ==
  \A p \in Prompt : reply[p] = "ok" =>
     made[p] > 0 /\ \A i \in 1 .. 1 + made[p] : Contains(written, Msg(p, i))

\* A session is a transcript: the statements of all runs together implement
\* it, one write or one forgetting at a time, and no update of it is lost.
\* A session that is used over HTTP as well promises nothing of the kind and
\* maps to one that is never written.
Abstract == INSTANCE Transcript WITH log <- IF OverHttp THEN <<>> ELSE row.messages,
                                     history <- IF OverHttp THEN <<>> ELSE written

TranscriptSpec == Abstract!Spec
=============================================================================
