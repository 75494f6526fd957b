------------------------------ MODULE Progress ------------------------------
(***************************************************************************)
(* What a client sees of a run while it goes on: the events of the provider *)
(* streams and the tool calls of AgentLoop, translated to the progress of   *)
(* one item at a time (src/protocol/native.go, nativeProgressEmitter and    *)
(* nativeProgressState.apply; src/agent/agent.go, complete and the tool     *)
(* events of RunWithEvents); and what a client sees that attaches later     *)
(* (nativeSession).                                                         *)
(*                                                                          *)
(* The request of AgentLoop becomes a stream of events.  What one expects   *)
(* is a start, deltas, and in the end a done with its response or an error; *)
(* but neither apply nor complete looks at the order, and any event may     *)
(* come at any time.  An event changes the last item, also one of an        *)
(* earlier stream or of a tool.  An item is its id, its role, its status,   *)
(* the response or the result its content is, and the deltas behind that.   *)
(***************************************************************************)
EXTENDS AgentLoop, FiniteSets, SequencesExt

CONSTANTS MaxDeltas,    \* bound on the deltas of an item
          MaxOdd        \* bound on what is unusual in a run: events out of place
                        \* or not translated, responses with several calls

ASSUME ProgressAssumption == MaxDeltas \in Nat /\ MaxOdd \in Nat

VARIABLES stream,       \* the stream of the request: "none" before its start,
                        \* "open", "ended" by a done or an error
          answer,       \* complete has a response, and it is not an error
          running,      \* a tool runs
          sequence, item,   \* nativeProgressState
          log,          \* the progress events the client was sent
          failures,     \* the tool results of the run that are errors
          cuts,         \* the items whose stream ended before them (history)
          odd           \* the items hit by events out of place (history)

progress == <<stream, answer, running, sequence, item, log, failures, cuts, odd>>

NoItem == [id |-> 0, role |-> "", status |-> "", deltas |-> 0, shows |-> <<>>]

\* What the content of an item is: the response of a turn, as its provider
\* sent it or as the hooks left it, or the result of a tool.
Reply(t) == [role |-> "assistant", turn |-> t]

Shown(m) == IF m.role = "assistant" THEN Reply(m.turn) ELSE m

ProgressInit == /\ Init
                /\ stream = "none" /\ answer = FALSE /\ running = FALSE
                /\ sequence = 0 /\ item = NoItem /\ log = <<>>
                /\ failures = {} /\ cuts = {} /\ odd = <<>>

-----------------------------------------------------------------------------
(* nativeProgressState.apply.                                               *)

\* Nothing changes and nothing is sent before the first item.
Emit(change, i) ==
  IF i.id = 0 THEN UNCHANGED <<item, log>>
              ELSE item' = i /\ log' = Append(log, [change |-> change, item |-> i])

Started(role) ==
  /\ sequence' = sequence + 1
  /\ Emit("item_started", [id |-> sequence + 1, role |-> role, deltas |-> 0, shows |-> <<>>,
                           status |-> IF role = "tool" THEN "running" ELSE "streaming"])

Updated == Emit("item_updated", [item EXCEPT !.deltas = @ + 1])

\* The content is replaced.
Finished(status, shown) ==
  Emit("item_finished", [item EXCEPT !.status = status, !.shows = <<shown>>, !.deltas = 0])

\* The content stays.
Failed == Emit("item_finished", [item EXCEPT !.status = "error"])

\* Mutant: an event that is not translated counts as a change.
AgainUpdated == Emit("item_updated", item)

\* An event that is not translated: the last progress is sent again.
Again == item' = item /\ log' = IF log = <<>> THEN log ELSE Append(log, Last(log))

\* The events out of place, those that were sent again, and the responses with
\* several calls.
OddBound ==
  LET again == {i \in 2 .. Len(log) : log[i] = log[i - 1]}
      several == {i \in DOMAIN messages : messages[i].role = "assistant" /\ messages[i].calls > 1}
  IN  Len(odd) + Cardinality(again) + Cardinality(several) < MaxOdd

-----------------------------------------------------------------------------
(* complete, with its stream.                                               *)

Event(to) == /\ pc = "request" /\ stream' = to
             /\ UNCHANGED <<vars, running, failures, cuts>>

\* Whether an event is where one expects it.
Place(expected) == IF expected THEN odd' = odd
                               ELSE OddBound /\ odd' = Append(odd, sequence)

\* A start leaves the item in front of it as it is.
StreamStarts == Event("open") /\ Place(stream = "none") /\ Started("assistant") /\ UNCHANGED answer

StreamDelta == /\ Event(stream) /\ Place(stream = "open")
               /\ item.deltas < MaxDeltas /\ Updated
               /\ UNCHANGED <<sequence, answer>>

\* A done without a response is one of these.
StreamOther == Event(stream) /\ OddBound /\ Again /\ UNCHANGED <<sequence, answer, odd>>

End == IF stream = "open" THEN "ended" ELSE stream

\* The response of a done may be an error, and an error may come with a
\* response that is none.
StreamDone == /\ Event(End) /\ answer' \in BOOLEAN /\ Place(stream = "open" /\ answer')
              /\ Finished("complete", Reply(turn))
              /\ UNCHANGED sequence

\* Mutant: an error is left for the response to tell.
StreamErrorUntold == /\ Event(End) /\ answer' \in BOOLEAN /\ Place(stream = "open" /\ ~answer')
                     /\ UNCHANGED <<sequence, item, log>>

StreamError == /\ Event(End) /\ answer' \in BOOLEAN /\ Place(stream = "open" /\ ~answer')
               /\ Failed
               /\ UNCHANGED sequence

\* The channel is closed: the last response decides.
StreamCloses ==
  /\ IF answer THEN ProviderAnswers ELSE ProviderFails
  /\ stream' = "none" /\ answer' = FALSE
  /\ cuts' = IF stream = "open" THEN cuts \cup {sequence} ELSE cuts
  /\ UNCHANGED <<running, sequence, item, log, failures, odd>>

-----------------------------------------------------------------------------
(* The tool calls.                                                          *)

\* Mutant: the call is not announced.
ToolStartsUntold == /\ pc = "tools" /\ ~running
                    /\ running' = TRUE
                    /\ UNCHANGED <<vars, stream, answer, sequence, item, log, failures, cuts, odd>>

ToolStarts == /\ pc = "tools" /\ ~running
              /\ running' = TRUE
              /\ Started("tool")
              /\ UNCHANGED <<vars, stream, answer, failures, cuts, odd>>

\* A tool the agent does not have ends with an error, the others as they do.
ToolEnds == /\ running
            /\ running' = FALSE
            /\ \E status \in {"complete", "error"} :
                 /\ (UnknownTool /\ status = "error") \/ CallTool
                 /\ Finished(status, ToolResult(turn, CallIndex))
                 /\ failures' = failures \cup
                      (IF status = "error" THEN {ToolResult(turn, CallIndex)} ELSE {})
            /\ UNCHANGED <<stream, answer, sequence, cuts, odd>>

\* nativeSession: the item of a stored message.
SnapshotItem(m) == [shows |-> <<Shown(m)>>, deltas |-> 0, role |-> m.role,
                    status |-> IF m \in failures THEN "error" ELSE "complete"]

Snapshot(stored) == [i \in DOMAIN stored |-> SnapshotItem(stored[i])]

\* The steps nobody is told of.
Silent == /\ \/ StartTurn \/ HookFails \/ TurnsExceeded \/ Retry \/ BackoffCancelled
             \/ TakeResponse /\ (pending' > 1 => OddBound)
          /\ UNCHANGED progress

Continue == \/ StreamStarts
            \/ StreamDelta
            \/ StreamOther
            \/ StreamDone
            \/ StreamError
            \/ StreamCloses
            \/ ToolStarts
            \/ ToolEnds
            \/ Silent

ProgressNext == Continue \/ (Cancel /\ UNCHANGED progress)

\* The goroutine of the run goes on; provider and tools return.
ProgressSpec == /\ ProgressInit
                /\ [][ProgressNext]_<<vars, progress>>
                /\ WF_<<vars, progress>>(Continue)

-----------------------------------------------------------------------------
(* Properties.                                                              *)

\* What a client keeps that replaces an item by its last state.
View == [i \in 1 .. sequence |-> log[SelectLastInSeq(log, LAMBDA e : e.item.id = i)].item]

\* How many of the items up to i show a message: what failed and was repeated
\* shows none.
Rank(i) == Cardinality({j \in 1 .. i : View[j].shows # <<>>})

\* A run that succeeds, and whose streams sent no event out of place, has
\* shown its client the items that a client gets which attaches later: as many,
\* in the same order, with their roles, standing for the same responses and
\* results and for nothing besides, and with what became of each tool.  The
\* rest of an item is not compared, and differs: its id and its timestamp; the
\* stop reason, which is always "stop" in the item of a stored message; the
\* input of a tool call, which is always empty there; and the content of a
\* response that an After hook rewrote after its done was sent.
ViewIsSnapshot ==
  outcome.status = "ok" /\ odd = <<>> =>
    /\ Rank(sequence) = Len(outcome.trace)
    /\ \A i \in 1 .. sequence :
         LET seen == View[i]
         IN  seen.shows # <<>> =>
               [shows |-> seen.shows, deltas |-> seen.deltas, role |-> seen.role, status |-> seen.status]
                 = Snapshot(outcome.trace)[Rank(i)]

Hit == {odd[i] : i \in DOMAIN odd}

\* What a client was told is finished changes only by an event out of place:
\* retries, the streams and tool calls that follow, and events that are not
\* translated leave it alone.
FinishedIsFinal ==
  \A i, j \in 1 .. Len(log) :
    /\ i < j
    /\ log[i].change = "item_finished" /\ log[i].item.id = log[j].item.id
    /\ log[i].item.id \notin Hit
    => log[j] = log[i]

\* Between streams and tool calls, and in the end, the client waits for the
\* rest of the items whose stream was cut short, and of no others, those aside
\* that were hit by an event out of place.
OpenWereCut ==
  stream = "none" /\ ~running =>
    {i \in 1 .. sequence : View[i].status \in {"streaming", "running"}} \ Hit = cuts \ Hit
=============================================================================
