------------------------- MODULE SessionCacheProofs -------------------------
(***************************************************************************)
(* The map of the server next to the store, for any sessions, requests and  *)
(* workloads: what a snapshot reports, the names, and the lists.            *)
(*                                                                         *)
(* A session that is not in "mixed" has at most one writer at a time        *)
(* (SoleWriter).  CacheInv, the inductive invariant, says for such a        *)
(* session how its entry and its row relate while that writer is between    *)
(* the two, for each request what it may rely on at its step, and for each  *)
(* list what its copy of the map is good for.                               *)
(***************************************************************************)
EXTENDS SessionCache, TLAPS

Stage == {"idle", "insert", "update", "cache", "setThinking", "fill", "put", "setModel",
          "getRow", "getState", "copy", "listRows", "done"}

Map == [Session -> Entry \cup {None}]

TypeOK == /\ rows \in [Session -> Level \cup {None}]
          /\ states \in Map
          /\ pc \in [Request -> Stage]
          /\ sess \in [Request -> Session \cup {None}]
          /\ level \in [Request -> Level]
          /\ copy \in [Request -> Map]
          /\ answer = [r \in Request |-> answer[r]]
          /\ acked \subseteq Session
          /\ before \in [Request -> SUBSET Session]
          /\ mixed \subseteq Session
          /\ restarts \in Nat
          /\ workload \subseteq Request

\* The steps that belong to a kind of request.
StageOK(r) == /\ pc[r] = "insert" => Kind[r] \in {"create", "http_create"}
              /\ pc[r] = "update" => Kind[r] \in {"set_thinking", "set_model"}
              /\ pc[r] = "cache" => Kind[r] = "create"
              /\ pc[r] \in {"setThinking", "fill", "put"} => Kind[r] = "set_thinking"
              /\ pc[r] = "setModel" => Kind[r] = "set_model"
              /\ pc[r] = "getRow" => Kind[r] # "list"
              /\ pc[r] = "getState" => Kind[r] \notin {"list", "http_create"}
              /\ pc[r] \in {"copy", "listRows"} => Kind[r] = "list"

\* A request behind its statement: there is a row.
HasRow(r) == \/ pc[r] \in {"cache", "setThinking", "fill", "put", "setModel", "getState"}
             \/ pc[r] = "getRow" /\ Kind[r] = "http_create"

RequestOK(r) ==
  /\ StageOK(r)
  /\ IF pc[r] = "idle" THEN sess[r] = None ELSE sess[r] \in Session
  /\ Kind[r] = "http_create" /\ pc[r] # "idle" => sess[r] \in mixed
  /\ HasRow(r) => rows[sess[r]] # None
  /\ pc[r] \in {"cache", "setThinking"} /\ sess[r] \notin mixed => rows[sess[r]] = level[r]
  /\ pc[r] \in {"fill", "put"} /\ restarts = 0 => sess[r] \in mixed
  /\ before[r] \subseteq acked

Writing(r) == Kind[r] \notin {"attach", "list"} /\ pc[r] \notin {"idle", "done"}

SoleWriter == \A q, r \in Request :
                Writing(q) /\ Writing(r) /\ sess[q] = sess[r] /\ sess[r] \notin mixed => q = r

\* create draws a new id.
OneCreator == \A c, d \in Request :
                Kind[c] = "create" /\ Kind[d] = "create" /\ sess[c] = sess[d] /\ sess[c] # None => c = d

CreatedBy(c, s) == Kind[c] = "create" /\ sess[c] = s

\* The entry of s is the one its creation has made, with another level at most.
HasName(s) == states[s] # None /\ states[s].named /\ states[s].id = s

\* The sessions the properties are about.
Known(s) == restarts = 0 /\ rows[s] # None /\ s \notin mixed

NameOK(s) == Known(s) => \E c \in Request : CreatedBy(c, s) /\ (pc[c] = "cache" \/ HasName(s))

LevelOK(s) == Known(s) => \/ states[s] # None /\ states[s].thinking = rows[s]
                          \/ \E w \in Request : sess[w] = s /\ pc[w] \in {"cache", "setThinking"}

SessionOK(s) ==
  /\ states[s] # None => rows[s] # None
  /\ s \in acked => rows[s] # None
  /\ s \in acked \ mixed => \E c \in Request : CreatedBy(c, s) /\ pc[c] = "done"
  /\ NameOK(s)
  /\ LevelOK(s)

\* A copy has only stored sessions, and all that were acknowledged before.
ListOK(r) ==
  Kind[r] = "list" =>
    /\ \A s \in Session : copy[r][s] # None => rows[s] # None
    /\ pc[r] = "listRows" /\ restarts = 0 =>
         \A s \in before[r] \ mixed : copy[r][s] # None /\ copy[r][s].id = s
    /\ pc[r] # "done" => answer[r].status = "none"

\* ListComplete of one request.
Complete(r) ==
  Kind[r] = "list" =>
    /\ answer[r].status = "ok" => before[r] \subseteq answer[r].ids /\ answer[r].ids \subseteq Stored
    /\ answer[r].status = "partial" /\ restarts = 0 => before[r] \ mixed \subseteq answer[r].ids

CacheInv == /\ TypeOK
            /\ \A r \in Request : RequestOK(r) /\ ListOK(r)
            /\ SoleWriter
            /\ OneCreator
            /\ \A s \in Session : SessionOK(s)
            /\ \A r \in Request : Complete(r)

-----------------------------------------------------------------------------
(* What follows from the invariant.                                         *)

LEMMA EntryFields ==
  /\ None \notin Entry /\ None \notin Level /\ None \notin Session
  /\ \A s \in Session, l \in Level, b \in BOOLEAN :
       /\ NewEntry(s, l, b) \in Entry
       /\ NewEntry(s, l, b).id = s /\ NewEntry(s, l, b).named = b /\ NewEntry(s, l, b).thinking = l
  /\ \A e \in Entry, l \in Level :
       /\ WithLevel(e, l) \in Entry
       /\ WithLevel(e, l).id = e.id /\ WithLevel(e, l).named = e.named /\ WithLevel(e, l).thinking = l
  /\ \A e \in Entry : AfterModel(e) = e
  /\ AfterModel(None) \in Entry
<1>1. None \notin Entry /\ None \notin Level /\ None \notin Session
  BY CacheAssumption
<1>2. \A s \in Session, l \in Level, b \in BOOLEAN :
        /\ NewEntry(s, l, b) \in Entry
        /\ NewEntry(s, l, b).id = s /\ NewEntry(s, l, b).named = b /\ NewEntry(s, l, b).thinking = l
  BY DEF NewEntry, Entry
<1>3. \A e \in Entry, l \in Level :
        /\ WithLevel(e, l) \in Entry
        /\ WithLevel(e, l).id = e.id /\ WithLevel(e, l).named = e.named /\ WithLevel(e, l).thinking = l
  BY DEF WithLevel, Entry
<1>4. \A e \in Entry : AfterModel(e) = e
  BY <1>1 DEF AfterModel
<1>5. AfterModel(None) \in Entry
  BY DEF AfterModel, Entry
<1>. QED  BY <1>1, <1>2, <1>3, <1>4, <1>5

LEMMA CompleteIsListComplete == (\A r \in Request : Complete(r)) <=> ListComplete
BY DEF Complete, ListComplete

\* A request at one of these steps writes.
LEMMA AtStepWrites ==
  ASSUME NEW r \in Request, StageOK(r), pc[r] \in {"cache", "setThinking", "fill", "put", "setModel", "update"}
  PROVE  Writing(r)
BY DEF StageOK, Writing

\* While r writes to a session that is not mixed, no other request is between
\* its row and its entry.
LEMMA WriterAlone ==
  ASSUME CacheInv, NEW r \in Request, Writing(r), sess[r] \notin mixed,
         NEW w \in Request, sess[w] = sess[r], pc[w] \in {"cache", "setThinking"}
  PROVE  w = r
<1>1. Writing(w)
  BY AtStepWrites DEF CacheInv, RequestOK
<1>. QED  BY <1>1 DEF CacheInv, SoleWriter

\* Unless the writer r is about to make the entry itself, the entry is there
\* and agrees with the row.
LEMMA EntryBehindWriter ==
  ASSUME CacheInv, NEW r \in Request, Writing(r), NEW s \in Session, s = sess[r], Known(s)
  PROVE  /\ pc[r] # "cache" => HasName(s)
         /\ pc[r] \notin {"cache", "setThinking"} => states[s] # None /\ states[s].thinking = rows[s]
<1>1. s \notin mixed /\ NameOK(s) /\ LevelOK(s)
  BY DEF Known, CacheInv, SessionOK
<1>2. \A w \in Request : sess[w] = s /\ pc[w] \in {"cache", "setThinking"} => w = r
  BY <1>1, WriterAlone
<1>3. pc[r] # "cache" => HasName(s)
  BY <1>1, <1>2 DEF NameOK, CreatedBy
<1>4. pc[r] \notin {"cache", "setThinking"} => states[s] # None /\ states[s].thinking = rows[s]
  BY <1>1, <1>2 DEF LevelOK
<1>. QED  BY <1>3, <1>4

\* What was created, acknowledged and left alone has its entry.
LEMMA AckedHasName ==
  ASSUME CacheInv, NEW s \in acked \ mixed, restarts = 0
  PROVE  HasName(s)
<1>1. s \in Session /\ SessionOK(s)
  BY DEF CacheInv, TypeOK
<1>2. PICK c \in Request : CreatedBy(c, s) /\ pc[c] = "done"
  BY <1>1 DEF SessionOK
<1>3. PICK d \in Request : CreatedBy(d, s) /\ (pc[d] = "cache" \/ HasName(s))
  BY <1>1 DEF SessionOK, NameOK, Known
<1>4. c = d
  BY <1>1, <1>2, <1>3, EntryFields DEF CreatedBy, CacheInv, OneCreator
<1>. QED  BY <1>2, <1>3, <1>4

-----------------------------------------------------------------------------
(* Steps of one request.                                                    *)

\* What a step of r leaves alone.
Frame(r) ==
  /\ pc[r] \notin {"idle", "done"} /\ pc'[r] # "idle"
  /\ UNCHANGED <<sess, level, before, workload, restarts>>
  /\ mixed \subseteq mixed' /\ acked \subseteq acked'
  /\ \A q \in Request \ {r} : pc'[q] = pc[q] /\ copy'[q] = copy[q] /\ answer'[q] = answer[q]
  /\ \A s \in Session : rows[s] # None => rows'[s] # None
  /\ \A s \in Session : (s # sess[r] \/ ~Writing(r)) => rows'[s] = rows[s] /\ states'[s] = states[s]
  /\ \A s \in Session : (s # sess[r] /\ s \in acked') => s \in acked

\* Names and levels of sessions that r does not write to.
LEMMA OthersKept ==
  ASSUME CacheInv, NEW r \in Request, Frame(r), NEW s \in Session,
         rows'[s] = rows[s], states'[s] = states[s],
         s # sess[r] \/ pc[r] \notin {"cache", "setThinking"}
  PROVE  NameOK(s)' /\ LevelOK(s)'
<1>1. NameOK(s) /\ LevelOK(s)
  BY DEF CacheInv, SessionOK
<1>2. Known(s)' => Known(s)
  BY DEF Known, Frame
<1>3. \A w \in Request : sess[w] = s /\ pc[w] \in {"cache", "setThinking"} => sess'[w] = s /\ pc'[w] = pc[w]
  BY DEF Frame
<1>4. NameOK(s)'
  <2>1. \A c \in Request : CreatedBy(c, s) => CreatedBy(c, s)'
    BY DEF CreatedBy, Frame
  <2>2. HasName(s) => HasName(s)'
    BY DEF HasName
  <2>3. \A c \in Request : CreatedBy(c, s) /\ pc[c] = "cache" => pc'[c] = "cache"
    BY <1>3 DEF CreatedBy
  <2>. QED  BY <1>1, <1>2, <2>1, <2>2, <2>3 DEF NameOK
<1>5. LevelOK(s)'
  BY <1>1, <1>2, <1>3 DEF LevelOK
<1>. QED  BY <1>4, <1>5

\* What is left to show of a step of r.
LEMMA FrameKeeps ==
  ASSUME CacheInv, NEW r \in Request, Frame(r), TypeOK', NEW s \in Session, s = sess[r],
         RequestOK(r)', ListOK(r)', Complete(r)',
         states'[s] # None => rows'[s] # None,
         s \in acked' => rows'[s] # None,
         s \in acked' \ mixed' => \E c \in Request : CreatedBy(c, s)' /\ pc'[c] = "done",
         NameOK(s)' /\ LevelOK(s)'
  PROVE  CacheInv'
<1>0. TypeOK /\ SoleWriter /\ OneCreator
  BY DEF CacheInv
<1>1. ASSUME NEW q \in Request \ {r} PROVE RequestOK(q)' /\ ListOK(q)' /\ Complete(q)'
  <2>1. RequestOK(q) /\ ListOK(q) /\ Complete(q)
    BY DEF CacheInv
  <2>2. /\ pc'[q] = pc[q] /\ copy'[q] = copy[q] /\ answer'[q] = answer[q]
        /\ UNCHANGED <<sess, level, before, workload, restarts>>
        /\ mixed \subseteq mixed' /\ acked \subseteq acked'
        /\ \A t \in Session : rows[t] # None => rows'[t] # None
    BY DEF Frame
  <2>3. StageOK(q)' /\ (HasRow(q)' => HasRow(q))
    BY <2>1, <2>2 DEF StageOK, RequestOK, HasRow
  <2>4. (pc[q] \in {"cache", "setThinking"} /\ sess[q] \notin mixed') => rows'[sess[q]] = level[q]
    <3>. SUFFICES ASSUME pc[q] \in {"cache", "setThinking"}, sess[q] \notin mixed'
                  PROVE  rows'[sess[q]] = level[q]
      OBVIOUS
    <3>1. sess[q] \in Session /\ sess[q] \notin mixed /\ rows[sess[q]] = level[q]
      BY <2>1, <2>2 DEF RequestOK
    <3>2. ~(sess[q] = sess[r] /\ Writing(r))
      BY <3>1, WriterAlone
    <3>3. rows'[sess[q]] = rows[sess[q]]
      BY <3>1, <3>2 DEF Frame
    <3>. QED  BY <3>1, <3>3
  <2>5. pc[q] # "idle" => sess[q] \in Session
    BY <2>1 DEF RequestOK
  <2>6. HasRow(q) => pc[q] # "idle"
    BY DEF HasRow
  <2>7. RequestOK(q)'
    BY <2>1, <2>2, <2>3, <2>4, <2>5, <2>6 DEF RequestOK
  <2>8. ListOK(q)'
    BY <2>1, <2>2 DEF ListOK
  <2>9. Stored \subseteq Stored'
    BY <2>2 DEF Stored
  <2>10. Complete(q)'
    BY <2>1, <2>2, <2>9 DEF Complete
  <2>. QED  BY <2>7, <2>8, <2>10
<1>2. SoleWriter'
  <2>1. \A q \in Request : Writing(q)' => Writing(q)
    BY DEF Writing, Frame
  <2>. QED  BY <1>0, <2>1 DEF SoleWriter, Frame
<1>3. OneCreator'
  BY <1>0 DEF OneCreator, Frame
<1>4. ASSUME NEW t \in Session, t # s PROVE SessionOK(t)'
  <2>1. SessionOK(t) /\ rows'[t] = rows[t] /\ states'[t] = states[t]
    BY <1>4 DEF CacheInv, Frame
  <2>2. NameOK(t)' /\ LevelOK(t)'
    BY <1>4, <2>1, OthersKept
  <2>3. (t \in acked' => t \in acked) /\ (t \in acked' \ mixed' => t \in acked \ mixed)
    BY <1>4 DEF Frame
  <2>4. \A c \in Request : CreatedBy(c, t) /\ pc[c] = "done" => CreatedBy(c, t)' /\ pc'[c] = "done"
    BY DEF CreatedBy, Frame
  <2>. QED  BY <2>1, <2>2, <2>3, <2>4 DEF SessionOK
<1>5. SessionOK(s)'
  BY DEF SessionOK
<1>. QED  BY <1>1, <1>2, <1>3, <1>4, <1>5 DEF CacheInv

\* Steps that neither change rows nor entries.
LEMMA QuietKeeps ==
  ASSUME CacheInv, NEW r \in Request, Frame(r), TypeOK', UNCHANGED <<rows, states>>,
         pc[r] \notin {"cache", "setThinking"},
         RequestOK(r)', ListOK(r)', Complete(r)',
         \/ acked' = acked
         \/ /\ acked' = acked \cup {sess[r]} /\ rows[sess[r]] # None
            /\ sess[r] \in mixed \/ (Kind[r] = "create" /\ pc'[r] = "done")
  PROVE  CacheInv'
<1>1. PICK s \in Session : s = sess[r]
  BY DEF CacheInv, RequestOK, Frame
<1>2. SessionOK(s)
  BY DEF CacheInv
<1>3. NameOK(s)' /\ LevelOK(s)'
  BY OthersKept
<1>4. states'[s] # None => rows'[s] # None
  BY <1>2 DEF SessionOK
<1>5. s \in acked' => rows'[s] # None
  BY <1>1, <1>2 DEF SessionOK
<1>6. s \in acked' \ mixed' => \E c \in Request : CreatedBy(c, s)' /\ pc'[c] = "done"
  <2>1. \A c \in Request : CreatedBy(c, s) /\ pc[c] = "done" => CreatedBy(c, s)' /\ pc'[c] = "done"
    BY DEF CreatedBy, Frame
  <2>2. mixed \subseteq mixed' /\ sess' = sess
    BY DEF Frame
  <2>3. CASE s \in acked
    BY <2>1, <2>2, <2>3, <1>2 DEF SessionOK
  <2>4. CASE s \notin acked /\ s \in acked' \ mixed'
    <3>1. Kind[r] = "create" /\ pc'[r] = "done"
      BY <2>2, <2>4, <1>1
    <3>2. CreatedBy(r, s)'
      BY <3>1, <2>2, <1>1 DEF CreatedBy
    <3>. QED  BY <3>1, <3>2
  <2>. QED  BY <2>3, <2>4
<1>. QED  BY <1>1, <1>3, <1>4, <1>5, <1>6, FrameKeeps

LEMMA Goes ==
  ASSUME TypeOK, NEW r \in Request, NEW at \in Stage, Go(r, at)
  PROVE  pc' \in [Request -> Stage] /\ pc'[r] = at /\ \A q \in Request \ {r} : pc'[q] = pc[q]
BY DEF TypeOK, Go

LEMMA Tells ==
  ASSUME TypeOK, NEW r \in Request, NEW a, Tell(r, a)
  PROVE  /\ pc' \in [Request -> Stage] /\ pc'[r] = "done"
         /\ answer' = [q \in Request |-> answer'[q]] /\ answer'[r] = a
         /\ \A q \in Request \ {r} : pc'[q] = pc[q] /\ answer'[q] = answer[q]
<1>1. Go(r, "done") /\ answer' = [answer EXCEPT ![r] = a] /\ "done" \in Stage
  BY DEF Tell, Stage
<1>2. pc' \in [Request -> Stage] /\ pc'[r] = "done" /\ \A q \in Request \ {r} : pc'[q] = pc[q]
  BY <1>1, Goes
<1>3. /\ answer' = [q \in Request |-> answer'[q]] /\ answer'[r] = a
      /\ \A q \in Request \ {r} : answer'[q] = answer[q]
  BY <1>1 DEF TypeOK
<1>. QED  BY <1>2, <1>3

\* A request that is over relies on nothing any more.
LEMMA DoneOK ==
  ASSUME NEW r \in Request, RequestOK(r), Frame(r), pc'[r] = "done"
  PROVE  RequestOK(r)'
<1>1. StageOK(r)' /\ ~HasRow(r)'
  BY DEF StageOK, HasRow
<1>. QED  BY <1>1 DEF RequestOK, Frame

\* No list: nothing to show for its copy and its answer.
LEMMA NotAList == ASSUME NEW r \in Request, Kind[r] # "list" PROVE ListOK(r)' /\ Complete(r)'
BY DEF ListOK, Complete

LEMMA RefuseStep == ASSUME CacheInv, NEW r \in Request, Refuse(r) PROVE CacheInv'
<1>0. TypeOK /\ RequestOK(r)
  BY DEF CacheInv
<1>1. /\ pc[r] \in {"insert", "update"} /\ Tell(r, [status |-> "error"])
      /\ UNCHANGED <<rows, restarts, states, copy, acked, mixed, sess, level, before, workload>>
  BY DEF Refuse, Fail, store, fixed
<1>2. Frame(r) /\ TypeOK' /\ pc'[r] = "done"
  BY <1>0, <1>1, Tells DEF Frame, TypeOK
<1>3. RequestOK(r)'
  BY <1>0, <1>2, DoneOK
<1>4. ListOK(r)' /\ Complete(r)'
  BY <1>0, <1>1, NotAList DEF RequestOK, StageOK
<1>. QED  BY <1>1, <1>2, <1>3, <1>4, QuietKeeps

LEMMA GetStep ==
  ASSUME CacheInv, NEW r \in Request, Fill(r) \/ GetRow(r)
  PROVE  CacheInv'
<1>0. TypeOK /\ RequestOK(r)
  BY DEF CacheInv
<1>1. PICK at, next : /\ Get(r, at, next)
                      /\ \/ at = "fill" /\ next = "put"
                         \/ at = "getRow" /\ next = "getState" /\ Kind[r] # "http_create"
  BY DEF Fill, GetRow
<1>2. /\ pc[r] = at
      /\ UNCHANGED <<rows, restarts, states, copy, acked, sess, level, before, workload>>
      /\ \/ Tell(r, [status |-> "error"]) /\ mixed' = mixed \cup (IF at = "fill" THEN {sess[r]} ELSE {})
         \/ rows[sess[r]] # None /\ Go(r, next) /\ UNCHANGED <<answer, mixed>>
  BY <1>1 DEF Get, Fail, store, fixed
<1>3. sess[r] \in Session /\ Kind[r] # "list"
  BY <1>0, <1>1, <1>2 DEF RequestOK, StageOK
<1>4. CASE Tell(r, [status |-> "error"]) /\ mixed' = mixed \cup (IF at = "fill" THEN {sess[r]} ELSE {})
  <2>1. mixed \subseteq mixed' /\ mixed' \subseteq Session
    BY <1>0, <1>3, <1>4 DEF TypeOK
  <2>2. Frame(r) /\ TypeOK' /\ pc'[r] = "done"
    BY <1>0, <1>1, <1>2, <1>4, <2>1, Tells DEF Frame, TypeOK
  <2>. QED  BY <1>0, <1>1, <1>2, <1>3, <2>2, DoneOK, NotAList, QuietKeeps
<1>5. CASE rows[sess[r]] # None /\ Go(r, next) /\ UNCHANGED <<answer, mixed>>
  <2>1. next \in Stage
    BY <1>1 DEF Stage
  <2>2. Frame(r) /\ TypeOK' /\ pc'[r] = next
    BY <1>0, <1>1, <1>2, <1>5, <2>1, Goes DEF Frame, TypeOK
  <2>3. RequestOK(r)'
    BY <1>0, <1>1, <1>2, <1>3, <1>5, <2>2 DEF RequestOK, StageOK, HasRow
  <2>. QED  BY <1>0, <1>1, <1>2, <1>3, <2>2, <2>3, NotAList, QuietKeeps
<1>. QED  BY <1>2, <1>4, <1>5

LEMMA AcknowledgeStep ==
  ASSUME CacheInv, NEW r \in Request, AnswerRow(r) \/ GetState(r)
  PROVE  CacheInv'
<1>0. TypeOK /\ RequestOK(r)
  BY DEF CacheInv
<1>1. PICK l : /\ Acknowledge(r, l) /\ pc[r] \in {"getRow", "getState"} /\ HasRow(r)
               /\ UNCHANGED <<rows, restarts, states, copy, mixed, sess, level, before, workload>>
  BY DEF AnswerRow, GetState, HasRow, store, fixed
<1>2. /\ Tell(r, [status |-> "ok", thinking |-> l])
      /\ \/ acked' = acked
         \/ Kind[r] \in {"create", "http_create"} /\ acked' = acked \cup {sess[r]}
  BY <1>1 DEF Acknowledge
<1>3. sess[r] \in Session /\ rows[sess[r]] # None /\ Kind[r] # "list"
  BY <1>0, <1>1 DEF RequestOK, StageOK
<1>4. acked \subseteq acked' /\ acked' \subseteq Session /\ (\A s \in acked' : s # sess[r] => s \in acked)
  BY <1>0, <1>2, <1>3 DEF TypeOK
<1>5. Frame(r) /\ TypeOK' /\ pc'[r] = "done"
  BY <1>0, <1>1, <1>2, <1>4, Tells DEF Frame, TypeOK
<1>6. RequestOK(r)' /\ ListOK(r)' /\ Complete(r)'
  BY <1>0, <1>3, <1>5, DoneOK, NotAList
<1>7. sess[r] \in mixed \/ Kind[r] # "http_create"
  BY <1>0, <1>1 DEF RequestOK
<1>. QED  BY <1>1, <1>2, <1>3, <1>5, <1>6, <1>7, QuietKeeps

LEMMA CopyStep == ASSUME CacheInv, NEW r \in Request, CopyStates(r) PROVE CacheInv'
<1>0. TypeOK /\ RequestOK(r) /\ ListOK(r)
  BY DEF CacheInv
<1>1. /\ pc[r] = "copy" /\ Go(r, "listRows") /\ copy' = [copy EXCEPT ![r] = states]
      /\ UNCHANGED <<rows, restarts, states, answer, acked, mixed, sess, level, before, workload>>
  BY DEF CopyStates, store, fixed
<1>2. "listRows" \in Stage /\ Kind[r] = "list" /\ answer[r].status = "none"
  BY <1>0, <1>1 DEF Stage, RequestOK, StageOK, ListOK
<1>3. copy' \in [Request -> Map] /\ copy'[r] = states /\ \A q \in Request \ {r} : copy'[q] = copy[q]
  BY <1>0, <1>1 DEF TypeOK
<1>4. Frame(r) /\ TypeOK' /\ pc'[r] = "listRows"
  BY <1>0, <1>1, <1>2, <1>3, Goes DEF Frame, TypeOK
<1>5. RequestOK(r)'
  BY <1>0, <1>1, <1>2, <1>4 DEF RequestOK, StageOK, HasRow
<1>6. \A s \in Session : states[s] # None => rows[s] # None
  BY DEF CacheInv, SessionOK
<1>7. restarts = 0 => \A s \in before[r] \ mixed : states[s] # None /\ states[s].id = s
  BY <1>0, AckedHasName DEF RequestOK, HasName
<1>8. ListOK(r)' /\ Complete(r)'
  BY <1>1, <1>2, <1>3, <1>4, <1>6, <1>7 DEF ListOK, Complete
<1>. QED  BY <1>1, <1>4, <1>5, <1>8, QuietKeeps

LEMMA ListStep == ASSUME CacheInv, NEW r \in Request, ListRows(r) PROVE CacheInv'
<1>0. TypeOK /\ RequestOK(r) /\ ListOK(r)
  BY DEF CacheInv
<1>1. PICK failed \in BOOLEAN :
        Tell(r, [status |-> IF failed THEN "partial" ELSE "ok",
                 ids |-> IF failed THEN ListCopy(copy[r]) ELSE ListAll(copy[r])])
  BY DEF ListRows
<1>2. /\ pc[r] = "listRows"
      /\ UNCHANGED <<rows, restarts, states, copy, acked, mixed, sess, level, before, workload>>
  BY DEF ListRows, store, fixed
<1>3. /\ Frame(r) /\ TypeOK' /\ pc'[r] = "done"
      /\ answer'[r] = [status |-> IF failed THEN "partial" ELSE "ok",
                       ids |-> IF failed THEN ListCopy(copy[r]) ELSE ListAll(copy[r])]
  BY <1>0, <1>1, <1>2, Tells DEF Frame, TypeOK
<1>4. Kind[r] = "list"
  BY <1>0, <1>2 DEF RequestOK, StageOK
<1>5. ListOK(r)'
  BY <1>0, <1>2, <1>3, <1>4 DEF ListOK
<1>6. ListAll(copy[r]) = Stored
  BY <1>0, <1>4 DEF ListOK, ListAll, Stored
<1>7. before[r] \subseteq Stored
  BY <1>0 DEF RequestOK, CacheInv, SessionOK, TypeOK, Stored
<1>8. restarts = 0 => before[r] \ mixed \subseteq ListCopy(copy[r])
  BY <1>0, <1>2, <1>4 DEF ListOK, ListCopy, TypeOK
<1>9. Complete(r)'
  BY <1>2, <1>3, <1>6, <1>7, <1>8 DEF Complete, Stored
<1>. QED  BY <1>0, <1>2, <1>3, <1>5, <1>9, DoneOK, QuietKeeps

-----------------------------------------------------------------------------
(* The statements that write.                                               *)

LEMMA WriteStep ==
  ASSUME CacheInv, NEW r \in Request, NEW next \in Stage, Write(r, next),
         \/ pc[r] = "insert" /\ rows[sess[r]] = None /\ next = (IF Kind[r] = "create" THEN "cache" ELSE "getRow")
         \/ pc[r] = "update" /\ rows[sess[r]] # None
              /\ next = (IF Kind[r] = "set_model" THEN "setModel" ELSE "setThinking"),
         UNCHANGED <<states, copy, acked, restarts, sess, level, before, workload>>
  PROVE  CacheInv'
<1>0. TypeOK /\ RequestOK(r)
  BY DEF CacheInv
<1>1. PICK s \in Session : s = sess[r]
  BY <1>0 DEF RequestOK
<1>2. Kind[r] \in {"create", "http_create", "set_thinking", "set_model"} /\ Writing(r)
      /\ (Kind[r] = "set_model" => rows[s] # None)
  BY <1>0, <1>1 DEF RequestOK, StageOK, Writing
<1>3. PICK l \in Level \cup {None} : l = IF Kind[r] = "set_model" THEN rows[s] ELSE level[r]
  BY <1>0 DEF TypeOK
<1>4. l # None
  BY <1>0, <1>2, <1>3, EntryFields DEF TypeOK
<1>5. rows' = [rows EXCEPT ![s] = l] \/ rows' = rows
  BY <1>1, <1>3 DEF Write
<1>6. /\ rows' \in [Session -> Level \cup {None}]
      /\ \A t \in Session : t # s => rows'[t] = rows[t]
      /\ rows'[s] \in {rows[s], l}
  BY <1>0, <1>5 DEF TypeOK
<1>7. \/ /\ Tell(r, [status |-> "error"])
         /\ mixed' = mixed \cup (IF rows' = rows THEN {} ELSE {s})
      \/ rows'[s] = l /\ Go(r, next) /\ UNCHANGED <<answer, mixed>>
  BY <1>1, <1>3 DEF Write, Fail
<1>8. mixed \subseteq mixed' /\ mixed' \subseteq Session
  BY <1>0, <1>7 DEF TypeOK
<1>9. pc' \in [Request -> Stage] /\ (\A q \in Request \ {r} : pc'[q] = pc[q] /\ answer'[q] = answer[q])
      /\ answer' = [q \in Request |-> answer'[q]] /\ pc'[r] \in {"done", next}
  BY <1>0, <1>7, Goes, Tells DEF TypeOK
<1>10. next \notin {"idle", "done"} /\ pc[r] \notin {"idle", "done", "cache", "setThinking"}
  OBVIOUS
<1>11. Frame(r) /\ TypeOK'
  BY <1>0, <1>1, <1>2, <1>4, <1>6, <1>8, <1>9, <1>10 DEF Frame, TypeOK
<1>12. ListOK(r)' /\ Complete(r)'
  BY <1>2, NotAList
<1>13. SessionOK(s) /\ (rows[s] # None => rows'[s] # None) /\ (pc[r] = "insert" => s \notin acked)
  BY <1>4, <1>6, <1>1 DEF CacheInv, SessionOK
<1>14. s \in acked' \ mixed' => \E c \in Request : CreatedBy(c, s)' /\ pc'[c] = "done"
  <2>1. \A c \in Request : CreatedBy(c, s) /\ pc[c] = "done" => CreatedBy(c, s)' /\ pc'[c] = "done"
    BY <1>11 DEF CreatedBy, Frame
  <2>. QED  BY <1>8, <1>13, <2>1 DEF SessionOK
<1>15. CASE Tell(r, [status |-> "error"]) /\ mixed' = mixed \cup (IF rows' = rows THEN {} ELSE {s})
  <2>1. RequestOK(r)'
    BY <1>0, <1>11, <1>15, Tells, DoneOK
  <2>2. CASE rows' = rows
    BY <1>11, <1>12, <2>1, <2>2, <1>10, QuietKeeps
  <2>3. CASE rows' # rows
    <3>1. NameOK(s)' /\ LevelOK(s)'
      BY <1>15, <2>3 DEF NameOK, LevelOK, Known
    <3>. QED  BY <1>1, <1>11, <1>12, <1>13, <1>14, <2>1, <3>1, FrameKeeps DEF SessionOK
  <2>. QED  BY <2>2, <2>3
<1>16. CASE rows'[s] = l /\ Go(r, next) /\ UNCHANGED <<answer, mixed>>
  <2>1. pc'[r] = next /\ mixed' = mixed
    BY <1>0, <1>16, Goes
  <2>2. next \in {"cache", "setThinking"} => l = level[r]
    BY <1>2, <1>3, <1>0 DEF RequestOK, StageOK
  <2>3. StageOK(r)'
    BY <1>0, <1>2, <2>1 DEF StageOK, RequestOK
  <2>4. next \notin {"fill", "put"}
    OBVIOUS
  <2>5. RequestOK(r)'
    BY <1>0, <1>1, <1>4, <1>11, <1>16, <2>1, <2>2, <2>3, <2>4 DEF RequestOK, Frame
  <2>6. ASSUME Known(s)' PROVE Kind[r] # "http_create" /\ (pc[r] = "update" => Known(s))
    BY <2>6, <2>1, <1>0, <1>1, <1>10, <1>11 DEF Known, RequestOK, Frame
  <2>7. NameOK(s)'
    <3>. SUFFICES ASSUME Known(s)'
                  PROVE  \E c \in Request : CreatedBy(c, s)' /\ (pc'[c] = "cache" \/ HasName(s)')
      BY DEF NameOK
    <3>1. CASE pc[r] = "insert"
      <4>1. Kind[r] = "create" /\ pc'[r] = "cache"
        BY <3>1, <2>6, <2>1, <1>0 DEF RequestOK, StageOK
      <4>. QED  BY <4>1, <1>1, <1>11 DEF CreatedBy, Frame
    <3>2. CASE pc[r] = "update"
      <4>1. HasName(s)
        BY <3>2, <2>6, <1>1, <1>2, EntryBehindWriter
      <4>2. \E c \in Request : CreatedBy(c, s)
        BY <3>2, <2>6, <1>13 DEF SessionOK, NameOK
      <4>3. HasName(s)' /\ \A c \in Request : CreatedBy(c, s) => CreatedBy(c, s)'
        BY <4>1 DEF HasName, CreatedBy
      <4>. QED  BY <4>2, <4>3
    <3>. QED  BY <3>1, <3>2
  <2>8. LevelOK(s)'
    <3>. SUFFICES ASSUME Known(s)'
                  PROVE  \/ states[s] # None /\ states[s].thinking = rows'[s]
                         \/ \E w \in Request : sess[w] = s /\ pc'[w] \in {"cache", "setThinking"}
      BY DEF LevelOK
    <3>1. CASE next = "setModel"
      <4>1. pc[r] = "update" /\ Kind[r] = "set_model"
        BY <3>1
      <4>2. states[s] # None /\ states[s].thinking = rows[s]
        BY <4>1, <2>6, <1>1, <1>2, EntryBehindWriter
      <4>. QED  BY <4>1, <4>2, <1>16, <1>3
    <3>2. CASE next # "setModel"
      <4>1. next \in {"cache", "setThinking"}
        BY <3>2, <2>6, <1>2, <1>0 DEF RequestOK, StageOK
      <4>. QED  BY <4>1, <2>1, <1>1
    <3>. QED  BY <3>1, <3>2
  <2>. QED  BY <1>1, <1>11, <1>12, <1>13, <1>14, <1>4, <1>16, <2>5, <2>7, <2>8, FrameKeeps DEF SessionOK
<1>. QED  BY <1>7, <1>15, <1>16

LEMMA InsertStep == ASSUME CacheInv, NEW r \in Request, Insert(r) PROVE CacheInv'
<1>0. TypeOK /\ RequestOK(r)
  BY DEF CacheInv
<1>1. pc[r] = "insert" /\ UNCHANGED <<states, copy, acked, restarts, sess, level, before, workload>>
  BY DEF Insert, fixed
<1>2. CASE rows[sess[r]] = None
  <2>1. PICK next \in Stage : next = IF Kind[r] = "create" THEN "cache" ELSE "getRow"
    BY DEF Stage
  <2>. QED  BY <1>1, <1>2, <2>1, WriteStep DEF Insert
<1>3. CASE rows[sess[r]] # None
  <2>1. Tell(r, [status |-> "error"]) /\ UNCHANGED <<rows, mixed>>
    BY <1>3 DEF Insert, Fail
  <2>2. Frame(r) /\ TypeOK' /\ pc'[r] = "done"
    BY <1>0, <1>1, <2>1, Tells DEF Frame, TypeOK
  <2>3. RequestOK(r)' /\ ListOK(r)' /\ Complete(r)'
    BY <1>0, <1>1, <2>2, DoneOK, NotAList DEF RequestOK, StageOK
  <2>. QED  BY <1>1, <2>1, <2>2, <2>3, QuietKeeps
<1>. QED  BY <1>2, <1>3

LEMMA UpdateStep == ASSUME CacheInv, NEW r \in Request, Update(r) PROVE CacheInv'
<1>0. TypeOK /\ RequestOK(r)
  BY DEF CacheInv
<1>1. pc[r] = "update" /\ UNCHANGED <<states, copy, acked, restarts, sess, level, before, workload>>
  BY DEF Update, fixed
<1>2. CASE rows[sess[r]] # None
  <2>1. PICK next \in Stage : next = IF Kind[r] = "set_model" THEN "setModel" ELSE "setThinking"
    BY DEF Stage
  <2>. QED  BY <1>1, <1>2, <2>1, WriteStep DEF Update
<1>3. CASE rows[sess[r]] = None
  <2>1. Tell(r, [status |-> "error"]) /\ UNCHANGED <<rows, mixed>>
    BY <1>3 DEF Update, Fail
  <2>2. Frame(r) /\ TypeOK' /\ pc'[r] = "done"
    BY <1>0, <1>1, <2>1, Tells DEF Frame, TypeOK
  <2>3. RequestOK(r)' /\ ListOK(r)' /\ Complete(r)'
    BY <1>0, <1>1, <2>2, DoneOK, NotAList DEF RequestOK, StageOK
  <2>. QED  BY <1>1, <2>1, <2>2, <2>3, QuietKeeps
<1>. QED  BY <1>2, <1>3

-----------------------------------------------------------------------------
(* The critical sections that change an entry.                              *)

\* What is left to show when an entry is put.
LEMMA PutStep ==
  ASSUME CacheInv, NEW r \in Request, NEW s \in Session, s = sess[r],
         NEW e \in Entry \cup {None}, NEW next \in Stage, PutEntry(r, e, next),
         pc[r] \in {"cache", "setThinking", "put", "setModel"},
         next \in {"getRow", "fill"}, next = "fill" => pc[r] = "setThinking",
         next = "fill" /\ restarts = 0 => s \in mixed,
         Known(s) =>
           /\ e # None /\ e.named /\ e.id = s /\ e.thinking = rows[s]
           /\ \E c \in Request : CreatedBy(c, s)
  PROVE  CacheInv'
<1>0. TypeOK /\ RequestOK(r) /\ SessionOK(s)
  BY DEF CacheInv
<1>1. /\ states' = [states EXCEPT ![s] = e] /\ Go(r, next)
      /\ UNCHANGED <<rows, restarts, copy, answer, acked, mixed, sess, level, before, workload>>
  BY DEF PutEntry, store, fixed
<1>2. states' \in Map /\ states'[s] = e /\ \A t \in Session : t # s => states'[t] = states[t]
  BY <1>0, <1>1 DEF TypeOK, Map
<1>3. Writing(r) /\ Kind[r] # "list" /\ rows[s] # None
  BY <1>0, AtStepWrites DEF RequestOK, StageOK, HasRow
<1>4. Frame(r) /\ TypeOK' /\ pc'[r] = next
  BY <1>0, <1>1, <1>2, <1>3, Goes DEF Frame, TypeOK
<1>5. RequestOK(r)'
  <2>1. StageOK(r)' /\ Kind[r] # "http_create"
    BY <1>0, <1>3, <1>4 DEF StageOK, RequestOK
  <2>. QED  BY <1>0, <1>1, <1>3, <1>4, <2>1 DEF RequestOK, HasRow
<1>6. ListOK(r)' /\ Complete(r)'
  BY <1>3, NotAList
<1>7. Known(s)' => Known(s)
  BY <1>1 DEF Known
<1>8. NameOK(s)' /\ LevelOK(s)'
  <2>. SUFFICES ASSUME Known(s) PROVE NameOK(s)' /\ LevelOK(s)'
    BY <1>7 DEF NameOK, LevelOK
  <2>1. HasName(s)'
    BY <1>2 DEF HasName
  <2>2. \A c \in Request : CreatedBy(c, s) => CreatedBy(c, s)'
    BY <1>1 DEF CreatedBy
  <2>3. NameOK(s)'
    BY <2>1, <2>2 DEF NameOK
  <2>4. LevelOK(s)'
    BY <1>1, <1>2 DEF LevelOK
  <2>. QED  BY <2>3, <2>4
<1>9. s \in acked' \ mixed' => \E c \in Request : CreatedBy(c, s)' /\ pc'[c] = "done"
  <2>1. \A c \in Request : CreatedBy(c, s) /\ pc[c] = "done" => CreatedBy(c, s)' /\ pc'[c] = "done"
    BY <1>4 DEF CreatedBy, Frame
  <2>. QED  BY <1>0, <1>1, <2>1 DEF SessionOK
<1>. QED  BY <1>1, <1>3, <1>4, <1>5, <1>6, <1>8, <1>9, FrameKeeps

LEMMA EntryStep ==
  ASSUME CacheInv, NEW r \in Request, Cache(r) \/ SetThinking(r) \/ Put(r) \/ SetModel(r)
  PROVE  CacheInv'
<1>0. TypeOK /\ RequestOK(r) /\ pc[r] \in {"cache", "setThinking", "put", "setModel"}
  BY DEF CacheInv, Cache, SetThinking, Put, SetModel
<1>1. PICK s \in Session : s = sess[r]
  BY <1>0 DEF RequestOK
<1>2. Writing(r) /\ rows[s] # None /\ level[r] \in Level /\ states[s] \in Entry \cup {None}
  BY <1>0, <1>1, AtStepWrites DEF RequestOK, HasRow, TypeOK, Map
<1>3. "getRow" \in Stage /\ "fill" \in Stage
  BY DEF Stage
<1>4. Known(s) /\ pc[r] \in {"cache", "setThinking"} => rows[s] = level[r]
  BY <1>0, <1>1 DEF Known, RequestOK
<1>5. Known(s) => /\ \E c \in Request : CreatedBy(c, s)
                  /\ pc[r] # "cache" => HasName(s)
                  /\ pc[r] = "setModel" => states[s].thinking = rows[s]
  BY <1>1, <1>2, EntryBehindWriter DEF CacheInv, SessionOK, NameOK
<1>6. CASE Cache(r)
  <2>1. PICK e \in Entry : e = NewEntry(s, level[r], TRUE)
    BY <1>2, EntryFields
  <2>2. e # None /\ e.named /\ e.id = s /\ e.thinking = level[r]
    <3>1. e # None /\ e.id = s /\ e.thinking = level[r]
      BY <2>1, EntryFields DEF NewEntry
    <3>2. e.named = TRUE
      BY <2>1 DEF NewEntry
    <3>. QED  BY <3>1, <3>2
  <2>3. pc[r] = "cache" /\ PutEntry(r, e, "getRow")
    BY <1>1, <1>6, <2>1 DEF Cache
  <2>. QED  BY <1>1, <1>3, <1>4, <1>5, <2>2, <2>3, PutStep
<1>7. CASE SetThinking(r)
  <2>1. pc[r] = "setThinking"
    BY <1>7 DEF SetThinking
  <2>2. CASE states[s] # None
    <3>1. PICK e \in Entry : e = WithLevel(states[s], level[r])
      BY <1>2, <2>2, EntryFields
    <3>2. /\ e # None /\ e.named = states[s].named /\ e.id = states[s].id /\ e.thinking = level[r]
      BY <1>2, <2>2, <3>1, EntryFields
    <3>3. PutEntry(r, e, "getRow")
      BY <1>1, <1>7, <2>2, <3>1 DEF SetThinking
    <3>. QED  BY <1>1, <1>3, <1>4, <1>5, <2>1, <3>2, <3>3, PutStep DEF HasName
  <2>3. CASE states[s] = None
    <3>1. ~Known(s)
      BY <1>5, <2>1, <2>3 DEF HasName
    <3>2. restarts = 0 => s \in mixed
      BY <1>2, <3>1 DEF Known
    <3>3. PutEntry(r, None, "fill")
      BY <1>1, <1>7, <2>3 DEF SetThinking
    <3>. QED  BY <1>1, <1>3, <2>1, <3>1, <3>2, <3>3, PutStep
  <2>. QED  BY <2>2, <2>3
<1>8. CASE Put(r)
  <2>1. PICK e \in Entry : e = NewEntry(s, level[r], FALSE)
    BY <1>2, EntryFields
  <2>2. pc[r] = "put" /\ PutEntry(r, e, "getRow")
    BY <1>1, <1>8, <2>1 DEF Put
  <2>3. ~Known(s)
    BY <1>0, <1>1, <2>2 DEF Known, RequestOK
  <2>. QED  BY <1>1, <1>3, <2>2, <2>3, PutStep
<1>9. CASE SetModel(r)
  <2>1. PICK e \in Entry : e = AfterModel(states[s])
    BY <1>2, EntryFields
  <2>2. pc[r] = "setModel" /\ PutEntry(r, e, "getRow")
    BY <1>1, <1>9, <2>1 DEF SetModel
  <2>3. Known(s) => e = states[s] /\ e # None
    BY <1>2, <1>5, <2>1, <2>2, EntryFields DEF HasName
  <2>. QED  BY <1>1, <1>3, <1>5, <2>2, <2>3, PutStep DEF HasName
<1>. QED  BY <1>6, <1>7, <1>8, <1>9

-----------------------------------------------------------------------------
(* A request arrives; the process dies.                                     *)

LEMMA ReceiveStep == ASSUME CacheInv, NEW r \in Request, Receive(r) PROVE CacheInv'
<1>0. TypeOK /\ RequestOK(r) /\ ListOK(r) /\ SoleWriter /\ OneCreator
  BY DEF CacheInv
<1>1. PICK s \in Session, l \in Level :
        /\ Kind[r] = "create" => rows[s] = None /\ \A q \in Request : sess[q] # s
        /\ sess' = [sess EXCEPT ![r] = s]
        /\ level' = [level EXCEPT ![r] = l]
        /\ mixed' = IF Kind[r] = "http_create" \/ (Kind[r] \notin {"attach", "list"} /\ Writers(s) # {})
                    THEN mixed \cup {s} ELSE mixed
  BY DEF Receive
<1>2. /\ pc[r] = "idle" /\ Go(r, FirstStep(Kind[r])) /\ before' = [before EXCEPT ![r] = acked]
      /\ UNCHANGED <<rows, restarts, states, copy, answer, acked, workload>>
  BY DEF Receive, store
<1>3. Kind[r] \in {"create", "http_create", "attach", "list", "set_thinking", "set_model"}
  BY CacheAssumption
<1>4. PICK at \in {"insert", "getRow", "copy", "update"} : at = FirstStep(Kind[r])
  BY <1>3 DEF FirstStep
<1>5. /\ at = "insert" => Kind[r] \in {"create", "http_create"}
      /\ at = "getRow" => Kind[r] = "attach"
      /\ at = "copy" => Kind[r] = "list"
      /\ at = "update" => Kind[r] \in {"set_thinking", "set_model"}
  BY <1>3, <1>4 DEF FirstStep
<1>6. /\ pc' \in [Request -> Stage] /\ pc'[r] = at
      /\ \A q \in Request \ {r} : pc'[q] = pc[q]
  <2>1. at \in Stage /\ Go(r, at)
    BY <1>2, <1>4 DEF Stage
  <2>. QED  BY <1>0, <2>1, Goes
<1>7. /\ sess'[r] = s /\ level'[r] = l /\ before'[r] = acked
      /\ sess' \in [Request -> Session \cup {None}] /\ level' \in [Request -> Level]
      /\ before' \in [Request -> SUBSET Session]
      /\ \A q \in Request \ {r} : sess'[q] = sess[q] /\ level'[q] = level[q] /\ before'[q] = before[q]
  BY <1>0, <1>1, <1>2 DEF TypeOK
<1>8. mixed \subseteq mixed' /\ mixed' \subseteq Session /\ (Kind[r] = "http_create" => s \in mixed')
      /\ (Kind[r] \notin {"attach", "list"} /\ s \notin mixed' => Writers(s) = {})
  BY <1>0, <1>1 DEF TypeOK
<1>9. TypeOK'
  BY <1>0, <1>2, <1>6, <1>7, <1>8 DEF TypeOK
<1>10. RequestOK(r)' /\ ListOK(r)' /\ Complete(r)'
  <2>1. StageOK(r)' /\ ~HasRow(r)'
    BY <1>5, <1>6 DEF StageOK, HasRow
  <2>2. RequestOK(r)'
    BY <2>1, <1>2, <1>6, <1>7, <1>8 DEF RequestOK
  <2>3. Kind[r] = "list" => answer[r].status = "none"
    BY <1>0, <1>2 DEF ListOK
  <2>4. ListOK(r)' /\ Complete(r)'
    BY <2>3, <1>0, <1>2, <1>6 DEF ListOK, Complete
  <2>. QED  BY <2>2, <2>4
<1>11. ASSUME NEW q \in Request \ {r} PROVE RequestOK(q)' /\ ListOK(q)' /\ Complete(q)'
  <2>1. RequestOK(q) /\ ListOK(q) /\ Complete(q)
    BY DEF CacheInv
  <2>2. RequestOK(q)'
    BY <2>1, <1>2, <1>6, <1>7, <1>8 DEF RequestOK, StageOK, HasRow
  <2>3. ListOK(q)' /\ Complete(q)'
    BY <2>1, <1>2, <1>6, <1>7, <1>8 DEF ListOK, Complete, Stored
  <2>. QED  BY <2>2, <2>3
<1>12. SoleWriter'
  <2>. SUFFICES ASSUME NEW q \in Request, NEW p \in Request, Writing(q)', Writing(p)',
                       sess'[q] = sess'[p], sess'[p] \notin mixed'
                PROVE  q = p
    BY DEF SoleWriter
  <2>1. \A w \in Request \ {r} : Writing(w)' => Writing(w) /\ sess'[w] = sess[w]
    BY <1>6, <1>7 DEF Writing
  <2>2. \A w \in Request \ {r} : Writing(w) /\ sess[w] = s => Writers(s) # {}
    BY DEF Writing, Writers
  <2>3. Writing(r)' => Kind[r] \notin {"attach", "list"}
    BY DEF Writing
  <2>4. sess'[p] \notin mixed
    BY <1>8
  <2>5. CASE q # r /\ p # r
    BY <2>1, <2>4, <2>5, <1>0, <1>7 DEF SoleWriter
  <2>6. CASE q = r \/ p = r
    BY <2>1, <2>2, <2>3, <2>6, <1>7, <1>8
  <2>. QED  BY <2>5, <2>6
<1>13. OneCreator'
  BY <1>0, <1>1, <1>7 DEF OneCreator
<1>14. ASSUME NEW t \in Session PROVE SessionOK(t)'
  <2>1. SessionOK(t)
    BY DEF CacheInv
  <2>2. \A q \in Request : sess[q] = t => q # r
    BY <1>0, <1>2, EntryFields DEF RequestOK
  <2>3. Known(t)' => Known(t)
    BY <1>2, <1>8 DEF Known
  <2>4. \A c \in Request : CreatedBy(c, t) => CreatedBy(c, t)' /\ pc'[c] = pc[c]
    BY <2>2, <1>6, <1>7 DEF CreatedBy
  <2>5. HasName(t) => HasName(t)'
    BY <1>2 DEF HasName
  <2>6. NameOK(t)'
    BY <2>1, <2>3, <2>4, <2>5 DEF SessionOK, NameOK
  <2>7. LevelOK(t)'
    BY <2>1, <2>2, <2>3, <1>2, <1>6, <1>7 DEF SessionOK, LevelOK
  <2>8. t \in acked' \ mixed' => t \in acked \ mixed
    BY <1>2, <1>8
  <2>. QED  BY <2>1, <2>4, <2>6, <2>7, <2>8, <1>2 DEF SessionOK
<1>. QED  BY <1>9, <1>10, <1>11, <1>12, <1>13, <1>14 DEF CacheInv

LEMMA RestartStep == CacheInv /\ Restart => CacheInv'
<1>. SUFFICES ASSUME CacheInv, Restart PROVE CacheInv'
  OBVIOUS
<1>0. TypeOK /\ OneCreator
  BY DEF CacheInv
<1>1. /\ restarts' = restarts + 1 /\ states' = [s \in Session |-> None]
      /\ pc' = [r \in Request |-> IF pc[r] = "idle" THEN "idle" ELSE "done"]
      /\ UNCHANGED <<rows, copy, answer, acked, mixed, sess, level, before, workload>>
  BY DEF Restart, fixed
<1>2. restarts' # 0
  BY <1>0, <1>1 DEF TypeOK
<1>3. \A r \in Request : pc'[r] = IF pc[r] = "idle" THEN "idle" ELSE "done"
  BY <1>1
<1>4. TypeOK'
  <2>1. pc' \in [Request -> Stage]
    BY <1>1 DEF Stage
  <2>2. states' \in Map /\ restarts' \in Nat
    BY <1>0, <1>1 DEF Map, TypeOK
  <2>. QED  BY <2>1, <2>2, <1>0, <1>1 DEF TypeOK
<1>5. ASSUME NEW r \in Request PROVE RequestOK(r)' /\ ListOK(r)' /\ Complete(r)'
  <2>1. RequestOK(r) /\ ListOK(r) /\ Complete(r)
    BY DEF CacheInv
  <2>2. pc'[r] \in {"idle", "done"} /\ (pc'[r] = "idle" <=> pc[r] = "idle")
    BY <1>3
  <2>3. StageOK(r)' /\ ~HasRow(r)'
    BY <2>2 DEF StageOK, HasRow
  <2>4. RequestOK(r)'
    BY <1>1, <2>1, <2>2, <2>3 DEF RequestOK
  <2>5. ListOK(r)'
    BY <1>1, <2>1, <2>2 DEF ListOK
  <2>6. Complete(r)'
    BY <1>1, <1>2, <2>1 DEF Complete, Stored
  <2>. QED  BY <2>4, <2>5, <2>6
<1>6. SoleWriter'
  BY <1>3 DEF SoleWriter, Writing
<1>7. OneCreator'
  BY <1>0, <1>1 DEF OneCreator
<1>8. ASSUME NEW s \in Session PROVE SessionOK(s)'
  <2>1. SessionOK(s)
    BY DEF CacheInv
  <2>2. states'[s] = None
    BY <1>1
  <2>3. ~Known(s)'
    BY <1>2 DEF Known
  <2>4. \A c \in Request : CreatedBy(c, s) /\ pc[c] = "done" => CreatedBy(c, s)' /\ pc'[c] = "done"
    BY <1>1, <1>3 DEF CreatedBy
  <2>. QED  BY <1>1, <2>1, <2>2, <2>3, <2>4 DEF SessionOK, NameOK, LevelOK
<1>. QED  BY <1>4, <1>5, <1>6, <1>7, <1>8 DEF CacheInv

-----------------------------------------------------------------------------

LEMMA CacheInit == Init => CacheInv
<1>. SUFFICES ASSUME Init PROVE CacheInv
  OBVIOUS
<1>1. TypeOK
  <2>1. "idle" \in Stage /\ "off" \in Level /\ workload \subseteq Request
    BY CacheAssumption DEF Init, Stage
  <2>2. states \in Map /\ copy \in [Request -> Map]
    BY DEF Init, Map
  <2>. QED  BY <2>1, <2>2 DEF Init, TypeOK
<1>2. \A r \in Request : /\ pc[r] = "idle" /\ sess[r] = None /\ answer[r].status = "none"
                          /\ before[r] = {} /\ \A s \in Session : copy[r][s] = None
  BY DEF Init
<1>3. ASSUME NEW r \in Request PROVE RequestOK(r) /\ ListOK(r) /\ Complete(r)
  BY <1>2 DEF RequestOK, StageOK, HasRow, ListOK, Complete
<1>4. SoleWriter
  BY <1>2 DEF SoleWriter, Writing
<1>5. OneCreator
  BY <1>2 DEF OneCreator
<1>6. ASSUME NEW s \in Session PROVE SessionOK(s)
  BY DEF Init, SessionOK, NameOK, LevelOK, Known
<1>. QED  BY <1>1, <1>3, <1>4, <1>5, <1>6 DEF CacheInv

LEMMA CacheStep == CacheInv /\ [Next]_vars => CacheInv'
<1>. SUFFICES ASSUME CacheInv, [Next]_vars PROVE CacheInv'
  OBVIOUS
<1>1. ASSUME NEW r \in Request, Step(r) PROVE CacheInv'
  BY <1>1, ReceiveStep, RefuseStep, InsertStep, UpdateStep, GetStep, AcknowledgeStep, EntryStep,
     CopyStep, ListStep DEF Step
<1>2. CASE UNCHANGED vars
  <2>1. /\ TypeOK /\ SoleWriter /\ OneCreator
        /\ \A r \in Request : RequestOK(r) /\ ListOK(r) /\ Complete(r)
        /\ \A s \in Session : SessionOK(s)
    BY DEF CacheInv
  <2>2. TypeOK' /\ SoleWriter' /\ OneCreator'
    BY <1>2, <2>1 DEF vars, TypeOK, SoleWriter, Writing, OneCreator
  <2>3. \A r \in Request : RequestOK(r)'
    BY <1>2, <2>1 DEF vars, RequestOK, StageOK, HasRow
  <2>4. \A r \in Request : ListOK(r)' /\ Complete(r)'
    BY <1>2, <2>1 DEF vars, ListOK, Complete, Stored
  <2>5. \A s \in Session : SessionOK(s)'
    BY <1>2, <2>1 DEF vars, SessionOK, NameOK, LevelOK, Known, HasName, CreatedBy
  <2>. QED  BY <2>2, <2>3, <2>4, <2>5 DEF CacheInv
<1>3. CASE Restart
  BY <1>3, RestartStep
<1>4. workload \subseteq Request
  BY DEF CacheInv, TypeOK
<1>. QED  BY <1>1, <1>2, <1>3, <1>4 DEF Next

LEMMA CacheInvariant == Spec => []CacheInv
BY CacheInit, CacheStep, PTL DEF Spec

\* As long as the process lives, the snapshot of a session nobody writes to
\* reports the level of its row (create, setThinking, setModel and get).
THEOREM SnapshotsAgree == Spec => []SettledAgrees
<1>1. CacheInv => SettledAgrees
  <2>. SUFFICES ASSUME CacheInv, NEW s \in Session, Known(s), Writers(s) = {}
                PROVE  Reported(s) = rows[s]
    BY DEF SettledAgrees, Known
  <2>1. \A w \in Request : sess[w] = s => pc[w] \notin {"cache", "setThinking"}
    BY AtStepWrites DEF CacheInv, RequestOK, Writers, Writing
  <2>2. states[s] # None /\ states[s].thinking = rows[s]
    BY <2>1 DEF CacheInv, SessionOK, LevelOK
  <2>3. rows[s] # ""
    BY CacheAssumption DEF CacheInv, TypeOK, Known
  <2>. QED  BY <2>2, <2>3 DEF Reported
<1>. QED  BY <1>1, CacheInvariant, PTL

\* A session that was created and acknowledged keeps the entry it was given.
THEOREM NamesAreKept == Spec => []AckedNameKept
<1>1. CacheInv => AckedNameKept
  BY AckedHasName DEF AckedNameKept, HasName
<1>. QED  BY <1>1, CacheInvariant, PTL

\* A list has every session that was acknowledged when it arrived and nothing
\* that is not stored; without the store, every one of this process (list).
THEOREM ListsAreComplete == Spec => []ListComplete
<1>1. CacheInv => ListComplete
  BY CompleteIsListComplete DEF CacheInv
<1>. QED  BY <1>1, CacheInvariant, PTL
=============================================================================
