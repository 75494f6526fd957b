----------------------------- MODULE Execution -----------------------------
(***************************************************************************)
(* A command of a tool in the sandbox: Execute of Local and of Bwrap        *)
(* (src/sandbox/local.go, src/sandbox/bwrap.go).  The command may leave     *)
(* processes in the background that go on and hold its output.  cmd.Run     *)
(* kills the process it has started, and only that, once the context is     *)
(* done; it waits for that process and then for the end of its output,      *)
(* that is for every process that could still write (no WaitDelay is set).  *)
(*                                                                          *)
(* Bwrap starts bwrap with --die-with-parent and --unshare-pid: when bwrap  *)
(* ends, whatever runs in its sandbox is killed with it.                    *)
(***************************************************************************)
EXTENDS Naturals

CONSTANTS MaxChildren,    \* bound on the processes in the background
          MaxOutput       \* bound on the pieces of output

ASSUME ExecutionAssumption == MaxChildren \in Nat /\ MaxOutput \in Nat

VARIABLES sandbox,      \* which of the two it is: "local" or "bwrap"
          phase,        \* of cmd.Run: "start", "wait", "drain", "done"
          ctx,          \* "live", "deadline" or "cancelled"
          main,         \* the process started, or how it ended
          children,     \* processes in the background that hold the output
          written,      \* pieces of output written
          collected,    \* pieces of output in the buffers
          result        \* what Execute returned

command == <<sandbox, phase, ctx, main, children, written, collected, result>>

Ended == {"0", "1", "killed"}

CommandInit == /\ sandbox \in {"local", "bwrap"}
        /\ phase = "start" /\ ctx = "live" /\ main = "none"
        /\ children = 0 /\ written = 0 /\ collected = 0 /\ result = "none"

\* The deadline of the command passes, or the run is aborted.
Interrupt == /\ ctx = "live" /\ phase # "done"
             /\ ctx' \in {"deadline", "cancelled"}
             /\ UNCHANGED <<sandbox, phase, main, children, written, collected, result>>

-----------------------------------------------------------------------------
(* The processes.                                                           *)

Fork == /\ main = "running" /\ children < MaxChildren
        /\ children' = children + 1
        /\ UNCHANGED <<sandbox, phase, ctx, main, written, collected, result>>

Output == /\ main = "running" \/ children > 0
          /\ written < MaxOutput
          /\ written' = written + 1
          /\ UNCHANGED <<sandbox, phase, ctx, main, children, collected, result>>

Exit == /\ main = "running" /\ main' \in {"0", "1"}
        /\ UNCHANGED <<sandbox, phase, ctx, children, written, collected, result>>

ChildExits == /\ children > 0 /\ children' = children - 1
              /\ UNCHANGED <<sandbox, phase, ctx, main, written, collected, result>>

\* The process namespace ends with bwrap.
SandboxEnds == /\ sandbox = "bwrap" /\ main \in Ended /\ children > 0
               /\ children' = 0
               /\ UNCHANGED <<sandbox, phase, ctx, main, written, collected, result>>

-----------------------------------------------------------------------------
(* cmd.Run and Execute.                                                     *)

\* Local looks at the context first.
LocalResult(status, c) ==
  CASE c # "live" -> c
    [] status = "0" -> "ok"
    [] OTHER -> "exit"

\* Bwrap returns what cmd.Run returns.
BwrapResult(status, c) == IF status = "0" THEN "ok" ELSE "exit"

Return(status) ==
  /\ phase' = "done"
  /\ result' = IF sandbox = "local" THEN LocalResult(status, ctx) ELSE BwrapResult(status, ctx)

\* A command that cannot be started, and one whose context is done already.
StartFails == /\ phase = "start"
              /\ phase' = "done"
              /\ result' = IF ctx = "live" THEN "exit" ELSE ctx
              /\ UNCHANGED <<sandbox, ctx, main, children, written, collected>>

Start == /\ phase = "start" /\ ctx = "live"
         /\ phase' = "wait" /\ main' = "running"
         /\ UNCHANGED <<sandbox, ctx, children, written, collected, result>>

\* Mutant: only the deadline reaches the process.
KillAtDeadline == /\ ctx = "deadline" /\ main = "running"
                  /\ main' = "killed"
                  /\ UNCHANGED <<sandbox, phase, ctx, children, written, collected, result>>

Kill == /\ ctx # "live" /\ main = "running"
        /\ main' = "killed"
        /\ UNCHANGED <<sandbox, phase, ctx, children, written, collected, result>>

Wait == /\ phase = "wait" /\ main \in Ended
        /\ phase' = "drain"
        /\ UNCHANGED <<sandbox, ctx, main, children, written, collected, result>>

Collect == /\ phase \in {"wait", "drain"} /\ collected < written
           /\ collected' = collected + 1
           /\ UNCHANGED <<sandbox, phase, ctx, main, children, written, result>>

\* Mutant: what the background still writes is not waited for.
EndOfOutputEarly == collected = written

\* Nobody is left to write, and everything is read.
EndOfOutput == collected = written /\ children = 0

Drained == /\ phase = "drain" /\ EndOfOutput
           /\ Return(main)
           /\ UNCHANGED <<sandbox, ctx, main, children, written, collected>>

Run == StartFails \/ Start \/ Wait \/ Collect \/ Drained

CommandNext == Interrupt \/ Fork \/ Output \/ Exit \/ ChildExits \/ SandboxEnds \/ Kill \/ Run

\* The goroutines of cmd.Run go on and the kernel ends a sandbox; no process
\* need ever exit by itself.
CommandSpec == /\ CommandInit /\ [][CommandNext]_command
               /\ WF_command(Run) /\ WF_command(Kill) /\ WF_command(SandboxEnds)

-----------------------------------------------------------------------------
(* Properties.                                                              *)

\* What the agent is told of a command is true.  One that is reported to have
\* succeeded was not interrupted, and what is returned with it is all that it
\* and its background have written or will write; one that was killed is
\* never reported as a success, and Local names the deadline or the
\* cancellation that killed it rather than the signal.
ResultIsTrue ==
  /\ result = "ok" => main = "0" /\ collected = written /\ children = 0
  /\ main = "killed" /\ phase = "done" => result = IF sandbox = "local" THEN ctx ELSE "exit"

\* A command that is interrupted in bwrap ends, whatever it has left in the
\* background: the call returns and the session is free again.
InterruptEnds == sandbox = "bwrap" /\ ctx # "live" ~> phase = "done"
=============================================================================
