---------------------------- MODULE SessionCache ----------------------------
(***************************************************************************)
(* What protocol.Server remembers of a session next to its row: the map     *)
(* Server.states, filled by create, changed by set_thinking and set_model,  *)
(* read by every answer that carries a snapshot (src/protocol/pi_tui.go,    *)
(* create, get and list; src/protocol/native.go, setModel and setThinking). *)
(* It is not persisted.  An entry is a name, a thinking level and the id in *)
(* its metadata; the model in it is written and never read.  Of the row,    *)
(* the thinking level matters: get takes everything else from the row.      *)
(*                                                                          *)
(* Each statement on the store and each critical section of Server.mu is a  *)
(* step.  A statement may fail with or without having taken effect.         *)
(***************************************************************************)
EXTENDS Naturals, FiniteSets

CONSTANTS Session,      \* session identifiers
          Request,      \* the requests
          Kind,         \* what each of them asks for
          Level,        \* the thinking levels; "off" is the default
          Workloads,    \* sets of requests of which one is made
          None,         \* no row, no entry
          NoId,         \* the empty id
          MaxRestart    \* bound on the restarts of the server

\* What the map has of a session.
Entry == [id : Session \cup {NoId}, named : BOOLEAN, thinking : Level \cup {""}]

ASSUME CacheAssumption ==
  /\ Kind \in [Request -> {"create", "http_create", "attach", "list", "set_thinking", "set_model"}]
  /\ Workloads \subseteq SUBSET Request
  /\ "off" \in Level /\ "" \notin Level
  /\ None \notin Session \cup Level \cup Entry /\ NoId \notin Session
  /\ MaxRestart \in Nat

VARIABLES rows,         \* thinking_level of each session, None without a row
          states,       \* Server.states, None without an entry
          pc,           \* the next step of each request
          sess,         \* its session, None before it has one
          level,        \* the thinking level it carries
          copy,         \* list: the copy of the map
          answer,       \* what the client was told
          acked,        \* sessions whose creation was acknowledged (history)
          before,       \* list: acked when it arrived (history)
          mixed,        \* sessions whose writes overlapped or half failed (history)
          restarts,
          workload      \* the requests that are made

vars == <<rows, states, pc, sess, level, copy, answer, acked, before, mixed, restarts, workload>>
store == <<rows, restarts>>
fixed == <<sess, level, before, workload>>

Init == /\ rows = [s \in Session |-> None]
        /\ states = [s \in Session |-> None]
        /\ pc = [r \in Request |-> "idle"]
        /\ sess = [r \in Request |-> None]
        /\ level = [r \in Request |-> "off"]
        /\ copy = [r \in Request |-> states]
        /\ answer = [r \in Request |-> [status |-> "none"]]
        /\ acked = {}
        /\ before = [r \in Request |-> {}]
        /\ mixed = {}
        /\ restarts = 0
        /\ workload \in Workloads

Go(r, at) == pc' = [pc EXCEPT ![r] = at]

Tell(r, a) == Go(r, "done") /\ answer' = [answer EXCEPT ![r] = a]

Fail(r) == Tell(r, [status |-> "error"])

\* The requests that write to session s and are under way.
Writers(s) == {r \in Request : /\ Kind[r] \notin {"attach", "list"}
                               /\ sess[r] = s
                               /\ pc[r] \notin {"idle", "done"}}

FirstStep(kind) == CASE kind \in {"create", "http_create"} -> "insert"
                     [] kind = "attach" -> "getRow"
                     [] kind = "list" -> "copy"
                     [] OTHER -> "update"

\* A request arrives.  create draws an id of its own from the clock; the HTTP
\* API takes the id from the client and leaves the map alone, so that what it
\* creates counts as mixed.  Anybody may name any session.
Receive(r) ==
  /\ pc[r] = "idle"
  /\ Go(r, FirstStep(Kind[r]))
  /\ \E s \in Session, l \in Level :
       /\ Kind[r] = "create" => rows[s] = None /\ \A q \in Request : sess[q] # s
       /\ sess' = [sess EXCEPT ![r] = s]
       /\ level' = [level EXCEPT ![r] = l]
       /\ mixed' = IF Kind[r] = "http_create" \/ (Kind[r] \notin {"attach", "list"} /\ Writers(s) # {})
                   THEN mixed \cup {s} ELSE mixed
  /\ before' = [before EXCEPT ![r] = acked]
  /\ UNCHANGED <<store, states, copy, answer, acked, workload>>

\* setThinking and setModel refuse an invalid level, a missing or an unknown
\* model; create a bad directory.
Refuse(r) == /\ pc[r] \in {"insert", "update"}
             /\ Fail(r)
             /\ UNCHANGED <<store, states, copy, acked, mixed, fixed>>

-----------------------------------------------------------------------------
(* Statements on the store.                                                 *)

\* The statement writes the row or not, and reports success or not.
Write(r, next) ==
  /\ \/ rows' = [rows EXCEPT ![sess[r]] = IF Kind[r] = "set_model" THEN @ ELSE level[r]]
     \/ rows' = rows
  /\ \/ Fail(r) /\ mixed' = mixed \cup (IF rows' = rows THEN {} ELSE {sess[r]})
     \/ /\ rows'[sess[r]] = IF Kind[r] = "set_model" THEN rows[sess[r]] ELSE level[r]
        /\ Go(r, next)
        /\ UNCHANGED <<answer, mixed>>

\* Service.Create: INSERT, which fails when the id is taken.
Insert(r) ==
  /\ pc[r] = "insert"
  /\ IF rows[sess[r]] = None
     THEN Write(r, IF Kind[r] = "create" THEN "cache" ELSE "getRow")
     ELSE Fail(r) /\ UNCHANGED <<rows, mixed>>
  /\ UNCHANGED <<states, copy, acked, restarts, fixed>>

\* UpdateThinking or UpdateModel, which fails when no row is affected.
Update(r) ==
  /\ pc[r] = "update"
  /\ IF rows[sess[r]] = None
     THEN Fail(r) /\ UNCHANGED <<rows, mixed>>
     ELSE Write(r, IF Kind[r] = "set_model" THEN "setModel" ELSE "setThinking")
  /\ UNCHANGED <<states, copy, acked, restarts, fixed>>

\* Store.Get: of get, or of setThinking when the map has no entry.
Get(r, at, next) ==
  /\ pc[r] = at
  /\ \/ Fail(r) /\ mixed' = mixed \cup (IF at = "fill" THEN {sess[r]} ELSE {})
     \/ rows[sess[r]] # None /\ Go(r, next) /\ UNCHANGED <<answer, mixed>>
  /\ UNCHANGED <<store, states, copy, acked, fixed>>

Fill(r) == Get(r, "fill", "put")

GetRow(r) == Kind[r] # "http_create" /\ Get(r, "getRow", "getState")

Acknowledge(r, l) ==
  /\ Tell(r, [status |-> "ok", thinking |-> l])
  /\ acked' = IF Kind[r] \in {"create", "http_create"} THEN acked \cup {sess[r]} ELSE acked

\* The HTTP API answers with the row itself.
AnswerRow(r) == /\ pc[r] = "getRow" /\ Kind[r] = "http_create"
                /\ Acknowledge(r, rows[sess[r]])
                /\ UNCHANGED <<store, states, copy, mixed, fixed>>

-----------------------------------------------------------------------------
(* Critical sections of Server.mu.                                          *)

NewEntry(s, l, named) == [id |-> s, named |-> named, thinking |-> l]

PutEntry(r, e, next) == /\ states' = [states EXCEPT ![sess[r]] = e]
                        /\ Go(r, next)
                        /\ UNCHANGED <<store, copy, answer, acked, mixed, fixed>>

\* create caches what it has stored.
Cache(r) == pc[r] = "cache" /\ PutEntry(r, NewEntry(sess[r], level[r], TRUE), "getRow")

\* Mutant: the entry keeps its level.
KeptLevel(e, l) == e

\* An entry with the level changed.
WithLevel(e, l) == [e EXCEPT !.thinking = l]

\* setThinking changes the entry, or unlocks to read the row for a new one.
SetThinking(r) ==
  /\ pc[r] = "setThinking"
  /\ IF states[sess[r]] # None
     THEN PutEntry(r, WithLevel(states[sess[r]], level[r]), "getRow")
     ELSE PutEntry(r, None, "fill")

\* The new entry is stored over whatever is there by now.
Put(r) == pc[r] = "put" /\ PutEntry(r, NewEntry(sess[r], level[r], FALSE), "getRow")

\* Mutant: setModel starts from an empty entry.
BlankModel(e) == [id |-> NoId, named |-> FALSE, thinking |-> ""]

\* setModel changes the entry as far as there is one; the zero entry has
\* neither id nor level.
AfterModel(e) == IF e = None THEN [id |-> NoId, named |-> FALSE, thinking |-> ""] ELSE e

SetModel(r) == pc[r] = "setModel" /\ PutEntry(r, AfterModel(states[sess[r]]), "getRow")

\* The level a snapshot reports.
Reported(s) == IF states[s] = None THEN "off"
               ELSE IF states[s].thinking = "" THEN "off" ELSE states[s].thinking

\* get reads the entry and the request is answered.
GetState(r) ==
  /\ pc[r] = "getState"
  /\ Acknowledge(r, Reported(sess[r]))
  /\ UNCHANGED <<store, states, copy, mixed, fixed>>

-----------------------------------------------------------------------------
(* list: the map is copied, then the store is read.                         *)

CopyStates(r) == /\ pc[r] = "copy"
                 /\ copy' = [copy EXCEPT ![r] = states]
                 /\ Go(r, "listRows")
                 /\ UNCHANGED <<store, states, answer, acked, mixed, fixed>>

Stored == {s \in Session : rows[s] # None}

\* Mutant: only what the map knows is looked up in the store.
ListKnown(c) == {s \in Stored : c[s] # None}

\* What a list answers: every stored session, then the entries of the copy
\* that have no row.
ListAll(c) == Stored \cup {c[s].id : s \in {t \in Session \ Stored : c[t] # None}}

\* A store that fails leaves the copy.
ListCopy(c) == {c[s].id : s \in {t \in Session : c[t] # None}}

ListRows(r) ==
  /\ pc[r] = "listRows"
  /\ \E failed \in BOOLEAN :
       Tell(r, [status |-> IF failed THEN "partial" ELSE "ok",
                ids |-> IF failed THEN ListCopy(copy[r]) ELSE ListAll(copy[r])])
  /\ UNCHANGED <<store, states, copy, acked, mixed, fixed>>

\* The process dies and is started again: nobody is answered any more and
\* the map is empty.
Restart == /\ restarts < MaxRestart
           /\ restarts' = restarts + 1
           /\ states' = [s \in Session |-> None]
           /\ pc' = [r \in Request |-> IF pc[r] = "idle" THEN "idle" ELSE "done"]
           /\ UNCHANGED <<rows, copy, answer, acked, mixed, fixed>>

Step(r) == \/ Receive(r)
           \/ Refuse(r)
           \/ Insert(r)
           \/ Update(r)
           \/ Fill(r)
           \/ GetRow(r)
           \/ AnswerRow(r)
           \/ Cache(r)
           \/ SetThinking(r)
           \/ Put(r)
           \/ SetModel(r)
           \/ GetState(r)
           \/ CopyStates(r)
           \/ ListRows(r)

Next == Restart \/ \E r \in workload : Step(r)

Spec == Init /\ [][Next]_vars

-----------------------------------------------------------------------------
(* Properties.                                                              *)

\* When nobody writes to a session that this process created, and its writes
\* came one after the other, a snapshot reports the level in its row: the
\* level the next prompt runs with.  create, set_thinking and set_model all
\* have to leave the entry in step with the row for that.
SettledAgrees ==
  \A s \in Session :
    restarts = 0 /\ rows[s] # None /\ s \notin mixed /\ Writers(s) = {} => Reported(s) = rows[s]

\* The name given at creation is reported as long as the process lives: no
\* later command of the session replaces its entry.
AckedNameKept ==
  \A s \in acked \ mixed : restarts = 0 => states[s] # None /\ states[s].named

\* No session is missing from a list that arrives after its creation was
\* acknowledged, restarts in between included, and nothing else is on it.  If
\* the store fails, the list still has the sessions created since the process
\* was started.
ListComplete ==
  \A r \in {q \in Request : Kind[q] = "list"} :
    /\ answer[r].status = "ok" =>
         before[r] \subseteq answer[r].ids /\ answer[r].ids \subseteq Stored
    /\ answer[r].status = "partial" /\ restarts = 0 => before[r] \ mixed \subseteq answer[r].ids
=============================================================================
