----------------------------- MODULE AgentLoop -----------------------------
(***************************************************************************)
(* One run of the agent (src/agent/agent.go, RunWithEvents,                 *)
(* completeWithRetry and complete): a loop of turns, each a provider request *)
(* that is retried and then the tool calls of its response, one after the   *)
(* other.  The context of the run may be cancelled at any moment; only the  *)
(* wait between two attempts looks at it directly, a provider or a tool     *)
(* that is given a cancelled context may still answer.                      *)
(*                                                                          *)
(* Messages are what the loop generates: an assistant message of a turn     *)
(* with its number of tool calls, and the result of a tool call.            *)
(***************************************************************************)
EXTENDS Naturals, Sequences

CONSTANTS MaxTurns,     \* Config.MaxTurns
          Retries,      \* Config.Retries
          MaxCalls      \* bound on the tool calls of one response

ASSUME LoopAssumption == /\ MaxTurns \in Nat \ {0}
                         /\ Retries \in Nat
                         /\ MaxCalls \in Nat

VARIABLES pc,           \* where the loop is
          cancelled,    \* ctx.Done() is closed
          turn,         \* completed iterations of the turn loop
          attempt,      \* failed attempts of this turn's request
          pending,      \* tool calls of the response not yet made
          messages,     \* the transcript given to the provider, after the input
          trace,        \* what the run returns for the session to store
          effects,      \* the tool calls made (history variable)
          outcome       \* "none", "ok" or "error", and the trace returned

vars == <<pc, cancelled, turn, attempt, pending, messages, trace, effects,
          outcome>>

Assistant(t, n) == [role |-> "assistant", turn |-> t, calls |-> n]
ToolResult(t, i) == [role |-> "tool", turn |-> t, call |-> i]

Init == /\ pc = "turn"
        /\ cancelled = FALSE
        /\ turn = 0
        /\ attempt = 0
        /\ pending = 0
        /\ messages = <<>>
        /\ trace = <<>>
        /\ effects = <<>>
        /\ outcome = [status |-> "none", trace |-> <<>>]

Cancel == /\ ~cancelled
          /\ pc # "done"
          /\ cancelled' = TRUE
          /\ UNCHANGED <<pc, turn, attempt, pending, messages, trace, effects, outcome>>

Return(status, returned) == /\ outcome' = [status |-> status, trace |-> returned]
                            /\ pc' = "done"

-----------------------------------------------------------------------------
(* The head of a turn.                                                      *)

\* The Before hooks of the middleware pass; a request with all messages so
\* far is ready.
StartTurn ==
  /\ pc = "turn"
  /\ turn < MaxTurns
  /\ attempt' = 0
  /\ pc' = "request"
  /\ UNCHANGED <<cancelled, turn, pending, messages, trace, effects, outcome>>

\* A Before hook or an After hook fails.
HookFails ==
  /\ \/ pc = "turn" /\ turn < MaxTurns
     \/ pc = "after"
  /\ Return("error", <<>>)
  /\ UNCHANGED <<cancelled, turn, attempt, pending, messages, trace, effects>>

\* The turns are used up: the one error that returns the trace.
TurnsExceeded ==
  /\ pc = "turn"
  /\ turn >= MaxTurns
  /\ Return("error", trace)
  /\ UNCHANGED <<cancelled, turn, attempt, pending, messages, trace, effects>>

-----------------------------------------------------------------------------
(* completeWithRetry.                                                       *)

\* complete returns a response.
ProviderAnswers ==
  /\ pc = "request"
  /\ pc' = "after"
  /\ UNCHANGED <<cancelled, turn, attempt, pending, messages, trace, effects, outcome>>

\* Mutant: a failed attempt is not counted.
ProviderFailsUncounted ==
  /\ pc = "request"
  /\ pc' = "backoff"
  /\ UNCHANGED <<cancelled, turn, attempt, pending, messages, trace, effects, outcome>>

\* complete fails: an error of the provider, a stream that ends without a
\* response, a response that is an error.  After the last attempt the error
\* is returned, and nothing of the turns before.
ProviderFails ==
  /\ pc = "request"
  /\ attempt' = attempt + 1
  /\ IF attempt < Retries
     THEN pc' = "backoff" /\ UNCHANGED outcome
     ELSE Return("error", <<>>)
  /\ UNCHANGED <<cancelled, turn, pending, messages, trace, effects>>

\* The timer fires.  It may win against a context that is already cancelled.
Retry ==
  /\ pc = "backoff"
  /\ pc' = "request"
  /\ UNCHANGED <<cancelled, turn, attempt, pending, messages, trace, effects, outcome>>

BackoffCancelled ==
  /\ pc = "backoff"
  /\ cancelled
  /\ Return("error", <<>>)
  /\ UNCHANGED <<cancelled, turn, attempt, pending, messages, trace, effects>>

-----------------------------------------------------------------------------
(* The response and its tool calls.                                         *)

\* The After hooks pass; they may have rewritten the response, and what they
\* have left of it is added and decides which tools are called.  A response
\* without tool calls ends the run.
TakeResponse ==
  /\ pc = "after"
  /\ pending' \in 0 .. MaxCalls
  /\ LET m == Assistant(turn, pending')
     IN  /\ messages' = Append(messages, m)
         /\ trace' = Append(trace, m)
         /\ IF pending' = 0
            THEN Return("ok", Append(trace, m))
            ELSE pc' = "tools" /\ UNCHANGED outcome
  /\ UNCHANGED <<cancelled, turn, attempt, effects>>

\* The position of the response whose calls are made.
Response == CHOOSE i \in 1 .. Len(messages) :
              messages[i].role = "assistant" /\ messages[i].turn = turn

\* The number of the call that is next.
CallIndex == messages[Response].calls - pending + 1

\* The turn ends with its last call.
AfterCall == IF pending = 1 THEN /\ turn' = turn + 1
                                 /\ pc' = "turn"
                            ELSE UNCHANGED <<turn, pc>>

\* Mutant: a call of an unknown tool is skipped without a result.
SkipUnknownTool ==
  /\ pc = "tools"
  /\ pending' = pending - 1
  /\ AfterCall
  /\ UNCHANGED <<cancelled, attempt, messages, trace, effects, outcome>>

\* A call of a tool the agent does not have is answered with an error.
UnknownTool ==
  /\ pc = "tools"
  /\ LET m == ToolResult(turn, CallIndex)
     IN  /\ messages' = Append(messages, m)
         /\ trace' = Append(trace, m)
  /\ pending' = pending - 1
  /\ AfterCall
  /\ UNCHANGED <<cancelled, attempt, effects, outcome>>

\* Mutant: the result goes to the provider but not into the trace.
CallToolUntraced ==
  /\ pc = "tools"
  /\ messages' = Append(messages, ToolResult(turn, CallIndex))
  /\ effects' = Append(effects, <<turn, CallIndex>>)
  /\ pending' = pending - 1
  /\ AfterCall
  /\ UNCHANGED <<cancelled, attempt, trace, outcome>>

\* Mutant: a tool that fails is called again.
CallToolAgain ==
  /\ pc = "tools"
  /\ effects' = Append(effects, <<turn, CallIndex>>)
  /\ \/ /\ LET m == ToolResult(turn, CallIndex)
           IN  /\ messages' = Append(messages, m)
               /\ trace' = Append(trace, m)
        /\ pending' = pending - 1
        /\ AfterCall
     \/ /\ Len(effects) < 3
        /\ UNCHANGED <<messages, trace, pending, turn, pc>>
  /\ UNCHANGED <<cancelled, attempt, outcome>>

\* The tool is called; its output or its error is the result.
CallTool ==
  /\ pc = "tools"
  /\ LET m == ToolResult(turn, CallIndex)
     IN  /\ messages' = Append(messages, m)
         /\ trace' = Append(trace, m)
  /\ effects' = Append(effects, <<turn, CallIndex>>)
  /\ pending' = pending - 1
  /\ AfterCall
  /\ UNCHANGED <<cancelled, attempt, outcome>>

Loop == \/ StartTurn
        \/ HookFails
        \/ TurnsExceeded
        \/ ProviderAnswers
        \/ ProviderFails
        \/ Retry
        \/ BackoffCancelled
        \/ TakeResponse
        \/ UnknownTool
        \/ CallTool

Next == Loop \/ Cancel

Spec == Init /\ [][Next]_vars

-----------------------------------------------------------------------------
(* Properties.                                                              *)

\* Whenever the provider is asked, every tool call it has made before has its
\* result right behind it, in the order of the calls: providers reject a
\* transcript with a call that is not answered.
CallsAnswered ==
  pc \in {"turn", "request"} =>
    \A i \in 1 .. Len(messages) :
      messages[i].role = "assistant" =>
        \A k \in 1 .. messages[i].calls :
          /\ i + k <= Len(messages)
          /\ messages[i + k] = ToolResult(messages[i].turn, k)

\* What a successful run hands to the session is all it generated, so that
\* the next prompt continues from what the provider has seen.
TraceComplete == outcome.status = "ok" => outcome.trace = messages

\* Every tool call runs at most once, however often requests are retried,
\* and no call runs before those in front of it.
EffectsOnce ==
  \A i, j \in 1 .. Len(effects) :
    i < j => \/ effects[i][1] < effects[j][1]
             \/ effects[i][1] = effects[j][1] /\ effects[i][2] < effects[j][2]

\* Every run ends, cancelled or not.
RunEnds == <>(pc = "done")

\* The comment on Run: it returns every generated assistant and tool message,
\* and persisting this trace is required for correct continuation.
EveryMessageReturned == pc = "done" => outcome.trace = messages
=============================================================================
