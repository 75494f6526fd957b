# gaia-harness in TLA+

Models, TLC runs and TLAPS proofs for the agent harness in `src/`: a server that keeps coding
sessions, runs an agent for each prompt, stores the transcript of the agent in SQL, and talks to
its clients over a framed CBOR protocol on WebSocket and over a plain HTTP API.
Paths below are relative to the repository.

## 1. The system

| Part | Source | State | Operations | Correct when |
|---|---|---|---|---|
| Run guard | `protocol/pi_tui.go:102-143`, `protocol/native.go:74-163` | `Server.runs` (session to cancel function) under `mu`, one context per prompt, one goroutine per request | `startRun`, the `finish` it returns, `abortRun`, loss of the connection | one run per session; the map names exactly the running prompts; only the connection or an abort of that run interrupts a run; an interrupted run gives the session back when its calls come back |
| Token compressor | `session/compress.go` | none | `Compress` | keeps the longest newest part that fits, puts one summary before it |
| Session service | `session/session.go:44-89` | none of its own | `Create`, `Append`, `AppendMessages`, `compact` | the stored transcript is the most recent history without gaps |
| Stores | `session/sqlite.go`, `session/postgres.go`, `session/session.go:91-168` | a row (record) per session | `Create`, `Get`, `Append`, `ReplaceMessages`, `UpdateModel`, `UpdateThinking`, `List` | what was acknowledged is what is read |
| Runner | `session/runner.go` | none | `Run`, `RunWithEvents` | the agent sees the prompt it was given; its trace is stored after the prompt |
| Agent loop | `agent/agent.go` | messages, trace, turn, attempt of one run | `RunWithEvents`, `completeWithRetry`, `complete` | every tool call answered, run once, within the budget; the trace is all that was generated |
| Metadata cache | `protocol/pi_tui.go:233-336`, `protocol/native.go:386-431` | `Server.states` | `create`, `get`, `list`, `setModel`, `setThinking` | agrees with the stored record |
| Native connection | `protocol/native.go:74-125`, `433-500` | handshake, write mutex | framing, requests, responses, events | one response per request, frames not mixed |
| Progress translator | `protocol/native.go:243-384` | the current item, its sequence number | `apply` | items start, change and finish in order |
| HTTP API | `httpapi/server.go` | none | create, get, append, run | as the service and the runner; it does not use the run guard |
| MCP client | `mcp/client.go` | request counter, pipe reader, mutex | `requestLocked`, `Call` | a response reaches the request it belongs to |
| WASM middleware | `wasmext/wasm.go` | none | `Before`, `After` | changes a request, not the transcript |
| Sandbox paths | `sandbox/path.go`, `Read` and `Write` of both sandboxes | the files of a session | `securePath`, `Read`, `Write` | only the workspace changes; what is written at a path is read at it |
| Sandbox execution | `sandbox/local.go`, `sandbox/bwrap.go` | one process | `Execute` | an interrupted command ends and is reported as such; a success is complete |
| Skills | `skills/skills.go` | files | `List`, `Load` | what is listed can be read |

How they interact. A native connection starts a goroutine for every request it reads. A prompt asks
the run guard for its session and gets a context of its own; the runner appends the prompt through
the service, reads the record, runs the agent and appends the trace; then the request is answered
and the guard frees the session. Aborts, changes of the model or the thinking level, and everything
on the HTTP API run next to that, without the guard. The store serves all of them with statements
that are atomic one by one and never together. (The store in memory, whose operations are one critical
section each, is used by tests only.)

What is hard: the interleavings of those goroutines around two small critical sections; read and
write of a whole row in separate statements; statements that fail in the middle of a batch, or take
effect and fail; a process that dies between the user's message and the agent's; cuts of the
transcript at any place of a turn; a cancellation that races with a retry; a map of sessions that is
lost with the process and read next to the row; readers of a pipe that outlive their request; commands
that leave processes behind; links anywhere in a path. `PROJECT.json` lists each such hazard at its
line, with the properties that cover it or the reason why none does.

## 2. Modules

| Module | Models | Kind |
|---|---|---|
| `SessionLock` | what the run guard promises: one holder per session, told to stop before it lets go | abstract |
| `RunGuard` | `startRun`, `finish`, `abortRun`, the goroutines of prompts and aborts, connections that break | detailed, implements `SessionLock` |
| `RunGuardProofs` | theorems about `RunGuard` | proofs |
| `Compression` | `TokenCompressor` as operators, and a reference definition | algorithm |
| `CompressionProofs` | theorems about these operators, for any transcript | proofs |
| `Transcript` | what a session promises about its transcript: write at the end, forget at the front | abstract |
| `SessionService` | `AppendMessages` and `compact` with one caller, and changes of the window | detailed, implements `Transcript` |
| `SessionServiceProofs` | theorems about `SessionService` | proofs |
| `SessionStore` | the row and the SQL statements of several calls, the runner included | detailed, without a next-state relation of its own |
| `NativeSession` | `SessionStore` under `SessionLock`, with crashes and calls that ask no lock | composition, implements `Transcript` |
| `NativeSessionProofs` | theorems about `NativeSession` and the statements of `SessionStore` | proofs |
| `SessionCache` | `Server.states` next to the rows: create, get, list, settings, restarts | detailed |
| `SessionCacheProofs` | theorems about `SessionCache` | proofs |
| `AgentLoop` | one agent run: turns, retries, tools, hooks, cancellation | detailed |
| `Progress` | the streams and tool calls of a run as its client sees them | extends `AgentLoop` |
| `AgentRunProofs` | theorems about `AgentLoop` and `Progress` | proofs |
| `NativeConnection` | handshake, messages, the goroutines of requests, what is written | detailed |
| `Framing` | frames as bytes: `Encode`, `Decode` | algorithm |
| `McpClient` | calls of an MCP server over pipes | detailed |
| `ConnectionProofs` | theorems about `McpClient`, `NativeConnection` and `Framing` | proofs |
| `Execution` | a command and its background under either sandbox | detailed |
| `Workspace` | `securePath`, reads, writes and skills on file systems with links | detailed |
| `SandboxProofs` | theorems about `Workspace` and `Execution` | proofs |
| `MCSessionService`, `MCNativeSession`, `MCSessionCache`, `MCNativeConnection`, `MCWorkspace` | values of the constants for TLC | |

**RunGuard.** A cancel function is identified by the prompt whose context it cancels, so `runs` maps
a session to a prompt or `None`, and `cancelled` is the set of prompts whose context is cancelled.
`pc[r]` is the place of the goroutine of request `r` in `handleNativeRequest`; each critical section
of `mu`, each write to the connection and each call of a cancel function is one action. `steer` is
the same code as `prompt`. A connection is `open`, `broken` (the client is gone, writes fail) or
`closed` (`nativeConnection` has returned, so its context and all contexts derived from it are
cancelled). The agent run itself is one action that may return success, an error, or, when the
context is cancelled, the cancellation; before that it may go into calls that do not look at the
context and come back from them, or not (`blind`: the wait for the mutex of an MCP client, a command
of `Local` whose background holds its output, file operations, hooks). Goroutines finish their writes:
a client that neither reads nor goes away is not modelled.

**Compression, SessionService.** A message is its id, its role and the number of characters
`messageTokens` counts. `Kept` is the loop of `Compress` as a function of the number of messages
looked at. In `SessionService` each call to the store is an action: the `Append`s of a batch, the `Get`
of `compact` and its `ReplaceMessages`. There is one caller, but `set_model` can change the window
between any two of them, and each may report an error with or without an effect (`CallFails`, and the
errors of `StoreAppend` and `CompactPut`), which `AppendMessages` returns at once. `reply` is what the last
batch returned, `recent`, a history variable, the windows since its last message.

**SessionStore.** Here every SQL statement is an action: `AppendGet`/`AppendPut` are
`SQLiteStore.Append`, `CompactGet` and `ReplaceGet`/`ReplacePut` are `Service.compact`, `Load` is the
runner's `Get`. `copy[c]` is the record a call read last; the update writes that copy back with the
messages changed, model and thinking level included. `UpdateModel` and `UpdateThinking` are one
update of one column. Each statement can fail (`StatementFails`), or take effect and fail
(`UpdateLost`). Postgres runs the same statements. `written` and `made`, how many messages the agent of
a run returned, are history variables.

**NativeSession.** The guard enters as `SessionLock`, which `RunGuard` is proved to implement, the
store as `SessionStore`. A prompt starts when it acquires the session and releases it once it has
been answered; settings commands and appends over HTTP start at any time and ask no lock
(`StartUnguarded`). A behaviour has the calls of its `workload`, chosen at the start and constant. In a
workload with an append over HTTP (`OverHttp`) the code promises neither whole turns nor that the
agent sees its prompt, and the record is no transcript: there only `RowOrdered` is claimed. `Crash`
ends all goroutines, empties the lock and leaves the row.

**SessionCache.** `rows` has the thinking level of each session, `states` the entries of
`Server.states`: a name, a level, an id. Each statement and each critical section of `mu` is an
action: `create` is `Insert`, `Cache`, `GetRow`, `GetState`; `set_thinking` is `Update`, `SetThinking`,
where the entry is missing `Fill` and `Put` in another critical section, and the two reads of `get`.
`mixed` is a history variable: the sessions whose writers overlapped, or of which a statement took
effect and failed. For those nothing is promised, and the code promises nothing.

**AgentLoop.** The transcript given to the provider and the trace to be stored are two variables, as
in the code. A provider request succeeds or fails; hooks pass or fail; what the `After` hooks leave of
the response is taken, with any number of tool calls; a tool call always yields a result. `effects`
records the calls that ran. That `Before` hooks rewrite messages is not followed (section 5).

**Progress.** The request of `AgentLoop` becomes a stream of events. Neither `apply` nor `complete` looks at
their order, and the model does not either: a start, a delta, a done or an error may come at any time, also
before the start of a stream or after its end, and hits the last item, whatever that is; `odd` records
the items that were hit out of place. `item` and `sequence` are those of `nativeProgressState`, `log` is
what `nativeProgressEmitter` has written, `answer` whether `complete` has a response that is no error. The
content of an item is the response or the result it stands for (`Reply`, `Shown`). `View` is what a client
keeps that replaces an item by its last state, `Snapshot` is the transcript `nativeSession` builds from the
stored messages. `ViewIsSnapshot` compares how many items show something, their order, roles, contents and
the outcome of each. It leaves out what does differ in the code: ids (`message-N` against `stream-...` and
`tool-...`), timestamps, the stop reason (always `stop` in a snapshot), the input of a tool call (always empty
in a snapshot), and the content of a response that an `After` hook rewrote once the client had been shown it.

**NativeConnection, Framing.** A WebSocket message is a sequence of frames, each named for what the
server makes of it, and the number of bytes cut off its end. `Encode` (`writeNative`) turns it into
bytes and `Decode` (`decodeNativeFrames`, a recursive function on the positions of a message) back
into frames or an error: what the connection does with a message follows from its bytes. `reader` is
`nativeConnection`, `stage[g]` the goroutine of the `g`-th request, `out` what the client got; the
specification is `ConnectionSpec`.

**McpClient.** `ensureInitialized` and `requestLocked` step by step: lock, write, read, look at the line,
give up, unlock. The reader of a request is a goroutine; `leaked` counts those whose request has been
cancelled. They use the `bufio.Reader` of the client without a lock, so that a line they race for
reaches either side or is broken. The server answers in any order, writes lines that are no answers,
sends requests with ids of its own, and exits if `Mortal`. Its pipe takes every write.

**Execution.** `sandbox` is the kind of the sandbox, chosen at the start and constant. `cmd.Run` as it is
without `WaitDelay`: start, wait for the process, wait for the end of its output. Children in the
background hold the output. Under bwrap they end with the process (`--unshare-pid`,
`--die-with-parent`). The specification is `CommandSpec`.

**Workspace.** A file system is a function from places to directories, files and links. `Walk` is the
resolution of the operating system, `SecurePath` the code's, which asks it and `Lstat`. Nothing else
changes the files while an operation runs.

## 3. Runs

Bounds are the constants of the `.cfg` files. Definitions commented "Mutant" are wrong variants of
the definition after them; each property is known to fail on at least one of them.

| Run | Instance | Shows |
|---|---|---|
| `run_guard` | 2 prompts, 1 abort, 2 sessions and the empty id, 1 connection, fairness | `TypeOK`, `RunMutex`, `SlotOwned`, `InterruptHasCause`, `AbortedIsCancelled`, `LockSpec` (refinement), `SessionsFreed`, `RequestAnswered` |
| `compaction` | 5 messages of 1 or 3 tokens, batches of 1 and 3, limits -2, 1 and 4 tokens that change at any moment, summary of 2, any call to the store may fail | `ScanIsLongest`, `CompactIdempotent`, `CompactedFits`, `TranscriptSpec` (refinement) |
| `compaction_turn` | as above | violated: `NewestTurnKept` |
| `native_session` | 2 prompts and a change of the thinking level, or a prompt, an append over HTTP and such a change; traces of 1 or 2 messages, limit of 3, 1 crash | `RowOrdered`, `TurnsContiguous`, `AgentSeesPrompt`, `AckedTurnStored`, `TranscriptSpec` (refinement) |
| `http_append` | a prompt and an append over HTTP, compaction off | violated: `AckedMessageStored` |
| `agent_run` | 2 turns, 1 retry, responses of 0 to 2 calls, 1 delta per item, 1 event out of place or sent again or 1 response of two calls, fairness | `CallsAnswered`, `TraceComplete`, `EffectsOnce`, `ViewIsSnapshot`, `FinishedIsFinal`, `OpenWereCut`, `RunEnds` |
| `agent_trace` | `AgentLoop` alone, 3 turns, 2 retries, responses of 0 to 2 calls | violated: `EveryMessageReturned` |
| `session_cache` | a create, 2 `set_thinking` and a `set_model`, or a create over each protocol, a `set_model` and a list; 2 sessions, 2 levels, 1 restart, symmetry | `SettledAgrees`, `AckedNameKept`, `ListComplete` |
| `mcp_client` | 2 calls that may be cancelled, 2 lines of noise, a server that may exit, fairness | `OwnAnswer`, `HandshakeFirst`, `CancelledLetsGo`, `CallReturns` |
| `native_connection` | eleven kinds of messages, 2 of them, 1 event per request, bytes below 16, headers of 2 bytes, frames of up to 2, fairness | `AnsweredInOrder`, `StartedExactly`, `EveryRequestAnswered` |
| `execution` | either sandbox, 2 processes in the background, 3 pieces of output, fairness | `ResultIsTrue`, `InterruptEnds` (of bwrap) |
| `workspace` | file systems with seven places that may be links, three of them followed, paths of up to 3 names, 1 operation | `OnlyWorkspaceChanges`, `ReadAfterWrite`, `SkillsReadable` |

Why the bounds are enough. The conflicts of the guard and of the store are between two requests:
one that holds or writes, and one that comes in between; the abort that hits a successor needs two
prompts and one abort. With one connection `run_guard` does not see an abort from a second client; the
safety properties and the refinement are proved for any number of connections, and the code treats
requests of two connections as it does two requests of one, except for the loss of the connection.
In `compaction`, a window of one token keeps a single message, one of four tokens keeps up to four, so
that five messages see several compactions, each cutting off the summary of the one before, as well
as messages above the limit and windows that change in between. In `native_session` a turn of three
messages reaches the limit by itself, so the second one always compacts; its workloads keep apart
what the lock orders from what it does not. Two turns in `agent_run` have a first and a last one, a
turn that goes on with the messages of the one before and a run that ends with the budget; one
retry gives each of them a second attempt. One event out of place is enough to hit a finished item, an item
that was cut, or a tool's, in each of these places. A response of two calls has
a call behind which another one waits, and in the run it meets a turn before or after it; that more of
these come together is left to the proofs. In `session_cache` two changes of the level are what it
takes to overlap, and one restart loses the map. A lost answer of the MCP server takes a cancelled
call and one that comes after. Messages of up to three frames, cut inside a frame or between the
frames' headers, and frames of no byte, of the limit and above it meet every case of `Decode`. In
`workspace` a skill behind a linked directory is at the limit: `List` follows one link to the directory and
three from there to the file, each in a resolution of its own, and `Read` would have to follow all four in one.
This is why `SkillsReadable` leaves out what fails with too many links.

Deadlock checking is off where requests, calls and runs are finite in number and simply end.

Fairness. `RunGuard`: a goroutine that can continue does, a reader whose connection broke returns, the
store read of an abort returns, and so does the agent run once its context is cancelled, unless it stays in a
call that does not look at its context. `CancelledReturns` is strongly fair, since a run may go in and out of
such calls; a cancelled run makes only those left in its turn. Nothing makes a `blind` call return: a call
of the MCP client waits for the mutex whatever its context says (`client.go:67`), and a command of `Local` is
waited for, after it was killed, until its background has ended (`local.go:72`). Both are in what the main
program starts, so that `SessionsFreed` has the return of such calls (`CallsComeBack`) as its premise, in the
formula: without it the code does not give the session back. Nothing is assumed of clients, nor of an agent run that is not cancelled: the provider
request has no timeout. `Progress`: the run's goroutine continues, that is, provider and tools
return and the streams of the provider end (an event out of place or without a translation, or a
response with several calls, comes `MaxOdd` times at most, an item has `MaxDeltas` deltas); cancellation
is never forced. `McpClient`: the goroutines of the client continue, leaked readers included (the calls
are finite in number, so that nobody starves at the mutex). Nothing is assumed of the server: that it
answers, as long as it lives, is the premise of `CallReturns`, in the formula.
`NativeConnection`: the reader and the goroutines of requests continue, commands return. `Execution`:
`cmd.Run` continues, the kernel ends a sandbox; no command need end.

### What the violated runs say

- `compaction_turn`: `compress.go:9-10` says the newest turn is never dropped; the code protects the
  newest message only. The user message of the turn that is being stored is dropped as soon as the
  answer fills the window.
- `http_append`: `POST /v1/sessions/{id}/messages` answers ok and the message is overwritten by a
  run that read the row before. `compact` has the same effect even when it drops nothing, since it
  writes back what it read.
- `agent_trace`: any error after the first turn returns an empty trace although tools have run and
  `agent.go:106-107` asks for every message; only the error for too many turns returns it, and the
  runner drops it (`runner.go:38`).

### What the models also show

No sentence of the repository contradicts the following, so that no run is made of it; each is the
reason for a condition in a property or in the fairness above.

- `set_thinking` and `set_model` during a prompt are acknowledged and then undone when the prompt stores
  its next message, because `Replace` writes all columns (`SessionStore`, `copy`).
- `get` answers with the level in `Server.states` although it has read the row. After a restart the map is
  empty and a session is reported with level off until the next `set_thinking`, while its prompts run
  with the level in the row: hence `restarts = 0` in `SettledAgrees`.
- A cancelled MCP request leaves its reader on the pipe. It takes the next line, possibly the answer of
  the next call, and that call waits with the mutex held; further calls wait for the mutex and do not
  notice a cancellation. Hence `cancelled # {}` in `CallReturns`. What is safe is that nobody gets a
  wrong answer (`OwnAnswer`), since ids are compared.
- A frame must lie in one WebSocket message: one that is split over two is refused, while several in one
  message are accepted (`StartedExactly`).
- After the deadline `Local.Execute` waits for every process that holds the output of the command, for
  ever if need be. Under bwrap they die with the command: hence `InterruptEnds` is about bwrap.
- A run that waits for the mutex of an MCP client keeps its session although it was aborted: hence
  `CallsComeBack` in `SessionsFreed`.
- A delta after a done, and a delta, a done or an error before a start, change the item that is last, also
  one the client was told is finished, or one that an earlier stream left open: hence `Hit` in
  `FinishedIsFinal` and `OpenWereCut`, and `odd` in `ViewIsSnapshot`.
- A `set_model` between the `Get` of a compaction and its `ReplaceMessages` is not heeded by it: the transcript
  may be above the new window until the next batch. Hence `recent` in `CompactedFits`.
- Where writers of a session overlap, the map and the row may differ for good, and a name may be lost
  (`setThinking` unlocks between the look at the map and its change): hence `mixed` in the properties of
  `SessionCache`.
- The hook's answer is decoded into the request, which shares its array of messages, and what they point
  to, with the loop (`wasm.go:91`): what the hook writes for one request is there for the next and can reach
  the trace that is stored. The models do not follow the memory, and no property is about it.

## 4. Proofs

Eight modules hold theorems, each for every value of the constants that satisfies the named assumptions of
the component's module. Where two components share a module, neither uses anything of the other.

`RunGuardProofs` proves, for any sets of sessions, prompts, aborts and connections (assuming only
that prompts and aborts are different, that `None` is no request, the empty id no session, and that
there is a connection):

| Theorem | States |
|---|---|
| `TypeCorrect` | `Spec => []TypeOK` |
| `SlotsAgree` | `Spec => []SlotOwned` |
| `MutualExclusion` | `Spec => []RunMutex` |
| `InterruptsHaveCause` | `Spec => []InterruptHasCause` |
| `AbortsCancel` | `Spec => []AbortedIsCancelled` |
| `ImplementsLock` | `Spec => LockSpec` |

The argument. None of the properties is inductive. Mutual exclusion follows from `SlotOwned`, since
two holders of a session would both be named by its one slot; `SlotOwned` survives `finish` only
because the prompt that frees a slot has a session and the slot names it (`HolderNamed`). The cause
of an interruption needs the fate of what an abort has read: it stays a run of the same session that
still holds its slot or has ended cancelled (`TargetNamed`), contexts exist only from `startRun` on
and are cancelled before their slot is freed (`CancelledStarted`), and an abort past its critical
step has called what it found (`AbortCalled`). `GuardInv` is the conjunction; one lemma per action
shows that it is kept. For the refinement, `HolderMapIsRuns` shows under `GuardInv` that the holders
read off the goroutines are the entries of the map; then `startRun` is `Acquire`, the delete of
`finish` is `Release`, abort, disconnect and the cancel of `finish` are `Stop`, and all else changes
nothing in the lock.

What the transcript keeps. `CompressionProofs` is about the operators alone, for any message with a
length, any transcript and any limit; `SessionServiceProofs` applies it to what the service reaches.

| Theorem | States |
|---|---|
| `CompressionProofs!KeptIsLongest` | `Kept(messages, limit) = LongestThatFits(messages, limit)` |
| `CompressionProofs!CompressTwice` | compacting what is compacted changes nothing |
| `SessionServiceProofs!ScansLongest` | `Spec => []ScanIsLongest` |
| `SessionServiceProofs!CompactsOnce` | `Spec => []CompactIdempotent` |
| `SessionServiceProofs!LeavesReserve` | `Spec => []CompactedFits` |
| `SessionServiceProofs!ImplementsTranscript` | `Spec => TranscriptSpec` |

The argument. `Kept` and `Tokens` are recursive functions. That such a function exists and has the values
of its equation is shown by induction with a set in the place of the property (`NatSetInduction`, from
the well-foundedness of `<`): all natural numbers are in the set of those `k` for which the equation has
a solution up to `k`. A second induction (`ScanOK`) says of each state of the scan what it has kept, and,
once it has stopped, that one message more would not fit; since more messages have more tokens
(`TokensMonotonic`), nothing longer fits. `ServiceInv` adds what only the reachable states have: no summary
is inside of a transcript (`SummaryInFront`), without which `CompactedFits` is not inductive; what a compaction
has read is still the transcript, whatever became of the window, and the window it read is one of `recent`
(`ReadIsLog`); and there is room for the rest of the batch (`Room`). Assumed: lengths and windows are natural numbers, the summary is
one message that is none of the caller's, or nothing (`SummaryAssumption`).

A session in its store. `NativeSessionProofs`, for any number of calls, any lengths of traces (up to a
maximum), any windows, any number of crashes.

| Theorem | States |
|---|---|
| `RowStaysOrdered` | `NativeSpec => []RowOrdered` |
| `TurnsStayTogether` | `NativeSpec => []TurnsContiguous` |
| `AgentStartsFromPrompt` | `NativeSpec => []AgentSeesPrompt` |
| `SuccessIsComplete` | `NativeSpec => []AckedTurnStored` |
| `ImplementsTranscript` | `NativeSpec => TranscriptSpec` |

The argument has the three layers of the code. `CallsOK`: of a call's messages the first are written and the
rest are in `todo`, in order, whatever the others do; so that a run that answers with success, which has
nothing left to do, has written all its agent `made`. `OrderInv`: every transcript that is anywhere, in the
row, in the copy of a call that may be old, in what `Compress` has returned, is ordered and behind what its
calls write next; so that any of them may overwrite any other. It holds for any callers, locked or not.
`SoleWriterInv`, while nobody uses HTTP: whoever writes has the lock (`LockHeld`), so that what the holder
has read is still what the row has, which makes its read and its write one step of `Transcript`.

The map and the row. `SessionCacheProofs`, for any sessions, requests, levels and restarts.

| Theorem | States |
|---|---|
| `SnapshotsAgree` | `Spec => []SettledAgrees` |
| `NamesAreKept` | `Spec => []AckedNameKept` |
| `ListsAreComplete` | `Spec => []ListComplete` |

The argument. A session that is not in `mixed` has at most one writer (`SoleWriter`), and no two requests
create the same session (`OneCreator`). `SessionOK`: its entry is the one its creation has made, or its creation
is about to make it (`NameOK`); the entry's level is that of the row, or a writer is between the two
(`LevelOK`). `RequestOK` says what each request may rely on at its step, among it that a writer between the two
carries the level of the row; `ListOK` that the copy of a list has every session that was acknowledged when it
was asked for, and none without a row. Assumed besides the kinds of the requests: `None` is neither a session,
a level nor an entry.

The agent and its client. `AgentRunProofs`, for any number of turns, retries, calls and events.

| Theorem | States |
|---|---|
| `AnswersReachProvider` | `Spec => []CallsAnswered` |
| `SuccessReturnsAll` | `Spec => []TraceComplete` |
| `CallsMadeOnce` | `Spec => []EffectsOnce` |
| `ProgressImplementsRun` | `ProgressSpec => Spec`: streams and items refine the run, which gives the three above for `Progress` |
| `FinishedNeverChanges` | `ProgressSpec => []FinishedIsFinal` |
| `OnlyCutsStayOpen` | `ProgressSpec => []OpenWereCut` |
| `ClientSeesWhatIsStored` | `ProgressSpec => []ViewIsSnapshot` |

The argument. `RunInv` says where the loop is in terms of the transcript: turns that are over have all their
results, the response of this turn is missing, or it has the results of the calls in front of the next one
and nothing behind them; the calls made are before the next one. `ClientInv`: what was sent is about items
up to `sequence`; only the last of them changes, in its place only while its stream or tool goes on
(`Changing`); once it is finished, and as long as nothing hits it out of place, that is the last thing sent and
the only thing that can be sent again. `CutsInv`: of each item up to `sequence` something was sent, and those
that are open are the ones that were cut and the one that is `Changing`, apart from those that were hit.
`SeenInv`, of runs without an event out of place: leaving out what failed and was repeated, the items of the
client show, by their rank, what the transcript stands for (`Contents`), with the role and the outcome the
snapshot gives it, and the response in addition that the loop is about to take (`Ahead`); the item that is
`Changing` shows nothing yet. For that `RunInv` also says which messages of the trace are results
(`ResultsBehind`). A retry adds an item that shows nothing, so that ranks, not numbers of items, are what the
two sides have in common.

Answers and requests. `ConnectionProofs`, for any number of calls and requests.

| Theorem | States |
|---|---|
| `AnswersAreOwn` | `Spec => []OwnAnswer` |
| `AnswersNotShared` | no two calls return the same answer |
| `HandshakeComesFirst` | `Spec => []HandshakeFirst` |
| `RequestsAnsweredInOrder` | `ConnectionSpec => []AnsweredInOrder` |
| `DecodeOfEncoded` | decoding the bytes of some frames gives these frames; if the last is cut or one is above the limit, a refusal |
| `RequestsStartedExactly` | `ConnectionSpec => []StartedExactly` |

The argument. `AnswerInv`: a result on the pipe or in an inbox is that of the request whose id it carries, and
no two calls have an id in common. `HandshakeInv`: the call that has the mutex talks to the server and no
other does, and `initialized` says whether the handshake is complete. `OrderInv`: the place of a goroutine says what
its request has been told by now, and requests that are not started have been told nothing.

From the bytes to the requests. That the recursive functions of `Framing` exist and have the values of their
equations is shown as for `Kept` (`Recursion` and `FollowsSteps` upwards, `Decoding` from the last byte to the
first). The digits of a length below `Power(HeaderLen)` are the number in the header (`NumberOfHeader`); each
frame lies at its place in the bytes of the message (`PartsLieInWhole`, after `FlattenSeq` has been unfolded in
`Flattening`); from the place of a whole frame is decoded that frame and what is decoded from the place behind it,
or a refusal if it is above the limit (`DecodedFrame`), and a refusal if it is cut (`DecodedCut`). `FramesOfMessage`
says this of a message: what the server makes of its bytes are its frames, or an error. `StartedInv` then follows them: what is left
in the queue is the end of the newest message, and the requests are the commands at the places that were taken, in
their order; the order of a place is the cardinality of the places up to it, which no place that comes later changes
(`MatchesMore`). Assumed of the constants: the longest frame that is accepted has a length that fits in the header, with
room for one above it (`MaxFrame + 1 < Power(HeaderLen)`; the code has 2^24 and 2^32), and there are more bytes
than kinds of frames.

The sandbox. `SandboxProofs`, for any files, links and paths, and any number of operations; for any number of
processes and pieces of output.

| Theorem | States |
|---|---|
| `OutsideIsKept` | `Spec => []OnlyWorkspaceChanges` |
| `WrittenIsRead` | `Spec => []ReadAfterWrite` |
| `ListedSkillsAreRead` | `Spec => []SkillsReadable` |
| `ReportsTrue` | `CommandSpec => []ResultIsTrue` |

The argument. A write changes one file, at the place `SecurePath` returns, and makes the directories above it
that are missing (`WriteEffect`). That place is below the root, by the comparison at the end of `SecurePath`
(`SecurePathInside`); what is above it is below the root as well or above the root (`AboveInside`), and what is
above the root has always been there: this is the conjunct `FilesInv` adds to the property. All of it
presupposes that what is compared is a place. `Walk` is a function that is recursive in the names and the links
that are left: `Leads`, the least relation its equation allows, has exactly one result for each state, by
induction on links and names (`LeadsToOne`), so that there is such a function and `Walk` is one (`WalkIsOne`).

A write is read because its place is the one the path leads to afterwards: the longest part of the path that
is there leads to a directory (`WayTo`), nothing of the rest is there, and the walk in the new files is the old
walk as far as that goes (`WalkOn`: a write changes no directory and no link), then one along the new directories
(`WalkAlong`). `FilesInv` has for this that files lie in directories whatever was written (`Rooted`). A listed
skill was found in two walks, one to the directory and one from the place it leads to; the walk of a read is
their concatenation (`WalkAcross`), and what a walk finds does not depend on the links it has left
(`WalkFurther`) unless these do not suffice.

Assumed of a file system: places are sequences of names, and what exists is in directories, the root
included. `ExecutionInv`: nothing is returned before the end, at the end nobody holds the output and all of it
is collected (`Settled`), and only a context that is done kills (`KilledByContext`).

Only model-checked, and why:

- Liveness: `SessionsFreed`, `RequestAnswered`, `RunEnds`, `CancelledLetsGo`, `CallReturns`,
  `EveryRequestAnswered`, `InterruptEnds`. Fairness and `ENABLED` are beyond the prover.

## 5. Not modelled

The main program is wiring. `sandbox/tools.go` decodes arguments and calls the sandbox. Logging, status
codes and the encoding of snapshots are output without a protocol of their own. The JSON handler of
`pi_tui.go` is not served by the main program; what it shares with the native protocol is modelled
there. `agent.New` sets defaults, and `mergeModelMetadata` fills in fields of a model; neither has a state.
The calling convention of `WasmHook.Invoke` is between the host and a module that is not in the
repository. Of the rewriting by `After` its failure is modelled, and
that the response it leaves has any number of tool calls; of the rewriting by `Before` only its failure. `Postgres` runs the
statements of `SQLiteStore`. The final read of the record for the answer of a prompt (`native.go:240`) can
only turn a success into an error and is left out of `NativeSession`. The store in memory (`session.go:91-168`)
is used by tests only; each of its operations is one critical section on a map, a special case of two
statements with nothing in between. A run over HTTP is the runner without the guard: its statements are
those of `SessionStore`, but no run has one; what it would lose is what the append over HTTP loses.
Which memory a hook's answer shares with the trace is not modelled.

Assumed of what is outside: the streams of a provider end, and hooks leave the messages of the transcript
in their number and kind. Two goroutines that use one `bufio.Reader` at once lose or break a line; that
they might also panic is left out. Writes to the MCP server and to a client that is there do not block.
A process in the background keeps the output it was given. No two operations on files overlap.

## 6. Plan

In this order; all of it is done.

1. `RunGuard`, `SessionLock`: the guard and its promise.
2. `RunGuardProofs`: invariants and the refinement.
3. `Compression`, `SessionService`, `Transcript`: the transcript with one caller.
4. `SessionStore`, `NativeSession`: the statements; guard and store together, with crashes.
5. `AgentLoop`, `Progress`: turns, retries, tools, cancellation, and what a client sees of them.
6. `SessionCache`: the server's map against the rows.
7. `McpClient`: readers that outlive their request, lost lines, the handshake.
8. `NativeConnection`, `Framing`: handshake, frames, one response per request.
9. `Execution`: deadlines and processes in the background.
10. `Workspace`: resolution with links, and the skills.
11. `CompressionProofs`, `SessionServiceProofs`, `NativeSessionProofs`: the transcript from its algorithm to
    its statements under the lock.
12. `AgentRunProofs`, `SessionCacheProofs`, `ConnectionProofs`, `SandboxProofs`: the invariants of the others.
13. `ViewIsSnapshot`, `ReadAfterWrite`, `SkillsReadable` and `StartedExactly`, the last from the bytes to the requests.
    With them every invariant and every refinement of the passing runs is a theorem; liveness stays with TLC.
14. Streams whose events come in any order (`Progress`), calls that do not look at their context (`RunGuard`), a
    window that changes between the two statements of a compaction (`SessionService`).

