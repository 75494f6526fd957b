--------------------------- MODULE AgentRunProofs ---------------------------
(***************************************************************************)
(* One run of the agent, for any number of turns, retries, tool calls and   *)
(* stream events: what the provider sees, what is returned, which tool      *)
(* calls are made, and what the client was told is finished.                *)
(*                                                                         *)
(* RunInv, the inductive invariant of AgentLoop, says where the loop is in  *)
(* terms of the transcript: between two turns every response has its        *)
(* results, and while tools are called the last response has those of the   *)
(* calls in front of the next one.  ClientInv adds what a client was sent,  *)
(* CutsInv which items of it are open, SeenInv which messages they show.    *)
(***************************************************************************)
EXTENDS Progress, SequenceTheorems, FiniteSetTheorems, TLAPS

Entry == [role : {"assistant"}, turn : Nat, calls : Nat]
           \cup [role : {"tool"}, turn : Nat, call : Nat]

TypeOK == /\ pc \in {"turn", "request", "backoff", "after", "tools", "done"}
          /\ turn \in Nat
          /\ pending \in Nat
          /\ messages \in Seq(Entry)
          /\ effects \in Seq(Nat \X Nat)

\* The run returns what it has given to the provider.
Traced == /\ trace = messages
          /\ outcome.status = "ok" => outcome.trace = messages
          /\ pc # "done" => outcome.status = "none"

\* The response at i has the results of its first n calls behind it.
Followed(i, n) == /\ i + n <= Len(messages)
                  /\ \A k \in 1 .. n : messages[i + k] = ToolResult(messages[i].turn, k)

IsResponse(i) == messages[i].role = "assistant"

\* Turns that are over have their results.
PastAnswered == \A i \in 1 .. Len(messages) :
                  IsResponse(i) /\ messages[i].turn < turn => Followed(i, messages[i].calls)

\* Before the response of a turn is added, there is none of it.
NoneYet == pc \in {"turn", "request", "backoff", "after"} =>
             \A i \in 1 .. Len(messages) : IsResponse(i) => messages[i].turn < turn

\* The response at i is the one whose calls are made; those in front of the
\* next one are answered, and nothing else is behind it.
Current(i) == /\ IsResponse(i)
              /\ messages[i].turn = turn
              /\ pending \in 1 .. messages[i].calls
              /\ Followed(i, messages[i].calls - pending)
              /\ Len(messages) = i + (messages[i].calls - pending)
              /\ \A j \in 1 .. Len(messages) :
                   IsResponse(j) /\ j # i => messages[j].turn < turn

InCalls == pc = "tools" => \E i \in 1 .. Len(messages) : Current(i)

\* No call that was made is the next one or behind it.
EffectsBehind ==
  \A e \in 1 .. Len(effects) :
    \/ effects[e][1] < turn
    \/ pc = "tools" /\ effects[e][1] = turn /\ effects[e][2] < CallIndex

\* No result is that of the next call or of one behind it.
ResultsBehind ==
  \A j \in 1 .. Len(messages) :
    messages[j].role = "tool" =>
      \/ messages[j].turn < turn
      \/ pc = "tools" /\ messages[j].turn = turn /\ messages[j].call < CallIndex

RunInv == /\ TypeOK
          /\ Traced
          /\ PastAnswered
          /\ NoneYet
          /\ InCalls
          /\ EffectsBehind
          /\ ResultsBehind
          /\ EffectsOnce

-----------------------------------------------------------------------------
(* The transcript.                                                          *)

LEMMA EntryFields ==
  /\ \A t, n \in Nat : Assistant(t, n) \in Entry /\ ToolResult(t, n) \in Entry
  /\ \A t, n : /\ Assistant(t, n).role = "assistant" /\ Assistant(t, n).turn = t
               /\ Assistant(t, n).calls = n /\ ToolResult(t, n).role = "tool"
  /\ \A m \in Entry : m.role = "assistant" => m.turn \in Nat /\ m.calls \in Nat
BY DEF Entry, Assistant, ToolResult

\* The response that is looked up is the current one.
LEMMA CurrentIsResponse ==
  ASSUME TypeOK, NEW i \in 1 .. Len(messages), Current(i)
  PROVE  Response = i /\ CallIndex = messages[i].calls - pending + 1
<1>1. \A j \in 1 .. Len(messages) :
        messages[j].role = "assistant" /\ messages[j].turn = turn => j = i
  <2>1. \A j \in 1 .. Len(messages) :
          messages[j].role = "assistant" /\ j # i => messages[j].turn < turn
    BY DEF Current, IsResponse
  <2>2. ~(turn < turn)
    BY DEF TypeOK
  <2>. QED  BY <2>1, <2>2
<1>2. messages[i].role = "assistant" /\ messages[i].turn = turn
  BY DEF Current, IsResponse
<1>3. Response = i
  BY <1>1, <1>2 DEF Response
<1>. QED  BY <1>3 DEF CallIndex

\* A step that leaves the transcript, the turn and the calls alone, and does
\* not start to call tools, keeps what the invariant says of them.
LEMMA Kept ==
  ASSUME RunInv, UNCHANGED <<messages, trace, effects, turn>>,
         pc' \in {"turn", "request", "backoff", "after", "done"},
         pc \in {"turn", "request", "backoff", "after", "done"},
         pc' = "done" \/ pc # "done",
         pending' \in Nat,
         /\ outcome'.status = "ok" => outcome'.trace = messages
         /\ pc' # "done" => outcome'.status = "none"
  PROVE  RunInv'
<1>. USE DEF RunInv
<1>1. TypeOK' /\ Traced'
  BY DEF TypeOK, Traced
<1>2. PastAnswered' /\ NoneYet' /\ InCalls'
  BY DEF PastAnswered, NoneYet, InCalls, Followed, IsResponse
<1>3. EffectsBehind' /\ ResultsBehind' /\ EffectsOnce'
  BY DEF EffectsBehind, ResultsBehind, EffectsOnce
<1>. QED  BY <1>1, <1>2, <1>3

-----------------------------------------------------------------------------
(* The steps.                                                               *)

LEMMA RunInit == Init => RunInv
<1>. SUFFICES ASSUME Init PROVE RunInv
  OBVIOUS
<1>1. Len(messages) = 0 /\ Len(effects) = 0
  BY DEF Init
<1>2. TypeOK /\ Traced
  BY DEF Init, TypeOK, Traced
<1>. QED  BY <1>1, <1>2 DEF RunInv, PastAnswered, NoneYet, InCalls, EffectsBehind, ResultsBehind, EffectsOnce, Init

LEMMA TakeResponseStep == RunInv /\ TakeResponse => RunInv'
<1>. SUFFICES ASSUME RunInv, TakeResponse PROVE RunInv'
  OBVIOUS
<1>c. PICK p \in Nat : p = pending'
  BY LoopAssumption DEF TakeResponse
<1>a. PICK m : m = Assistant(turn, p)
  OBVIOUS
<1>b. PICK n : n = Len(messages) + 1
  OBVIOUS
<1>1. /\ pc = "after" /\ messages' = Append(messages, m) /\ trace' = Append(trace, m)
      /\ turn' = turn /\ pending' = p /\ effects' = effects
      /\ \/ p = 0 /\ pc' = "done" /\ outcome'.trace = Append(trace, m)
         \/ p # 0 /\ pc' = "tools" /\ outcome' = outcome
  BY <1>a, <1>c DEF TakeResponse, Return
<1>2. TypeOK /\ Traced /\ PastAnswered /\ NoneYet /\ EffectsBehind /\ EffectsOnce
  BY DEF RunInv
<1>3. m \in Entry /\ m.role = "assistant" /\ m.turn = turn /\ m.calls = p
  BY <1>a, <1>2, EntryFields DEF TypeOK
<1>4. /\ messages' \in Seq(Entry) /\ Len(messages') = n /\ messages'[n] = m
      /\ n \in Nat \ {0}
      /\ \A i \in 1 .. Len(messages) : messages'[i] = messages[i]
  BY <1>b, <1>1, <1>2, <1>3 DEF TypeOK
<1>5. Len(messages) = n - 1
  BY <1>b, <1>2 DEF TypeOK
<1>6. TypeOK'
  BY <1>1, <1>2, <1>4 DEF TypeOK
<1>7. Traced'
  BY <1>1, <1>2 DEF Traced
<1>9. \A i \in 1 .. Len(messages) : IsResponse(i) => messages[i].turn < turn
  BY <1>1, <1>2 DEF NoneYet
<1>10. \A j \in 1 .. n : (j # n /\ IsResponse(j)') => messages'[j].turn < turn
  BY <1>4, <1>5, <1>9 DEF IsResponse
<1>11. PastAnswered'
  <2>. SUFFICES ASSUME NEW i \in 1 .. n, IsResponse(i)', messages'[i].turn < turn
                PROVE  Followed(i, messages[i].calls)' 
    BY <1>1, <1>4 DEF PastAnswered
  <2>1. i # n /\ turn \in Nat
    BY <1>3, <1>4, <1>2 DEF TypeOK
  <2>2. i \in 1 .. Len(messages) /\ messages'[i] = messages[i]
    BY <2>1, <1>4, <1>5
  <2>3. Followed(i, messages[i].calls) /\ messages[i].calls \in Nat
    BY <2>2, <1>2, EntryFields DEF PastAnswered, IsResponse, TypeOK
  <2>4. \A k \in 1 .. messages[i].calls : messages'[i + k] = messages[i + k]
    BY <2>2, <2>3, <1>4, <1>5 DEF Followed
  <2>. QED  BY <2>2, <2>3, <2>4, <1>4, <1>5 DEF Followed
<1>12. NoneYet'
  BY <1>1 DEF NoneYet
<1>13. InCalls'
  <2>. SUFFICES ASSUME p # 0 PROVE Current(n)'
    BY <1>1, <1>4 DEF InCalls
  <2>1. p \in 1 .. m.calls /\ m.calls - p = 0
    <3>1. p \in 1 .. p /\ p - p = 0
      OBVIOUS
    <3>. QED  BY <3>1, <1>3
  <2>2. Followed(n, 0)'
    BY <1>4 DEF Followed
  <2>. QED  BY <2>1, <2>2, <1>1, <1>3, <1>4, <1>10 DEF Current, IsResponse
<1>14. EffectsBehind'
  BY <1>1, <1>2 DEF EffectsBehind
<1>15. EffectsOnce'
  BY <1>1, <1>2 DEF EffectsOnce
<1>16. ResultsBehind'
  <2>. SUFFICES ASSUME NEW j \in 1 .. n, messages'[j].role = "tool" PROVE messages'[j].turn < turn
    BY <1>1, <1>4 DEF ResultsBehind
  <2>1. j \in 1 .. Len(messages) /\ messages'[j] = messages[j]
    BY <1>3, <1>4, <1>5
  <2>. QED  BY <2>1, <1>1 DEF RunInv, ResultsBehind
<1>. QED  BY <1>6, <1>7, <1>11, <1>12, <1>13, <1>14, <1>15, <1>16 DEF RunInv

\* What both kinds of tool calls do.
Answer(m) == /\ pc = "tools"
             /\ messages' = Append(messages, m) /\ trace' = Append(trace, m)
             /\ pending' = pending - 1
             /\ AfterCall
             /\ outcome' = outcome

LEMMA CallStep ==
  ASSUME RunInv, Answer(ToolResult(turn, CallIndex)),
         effects' = effects \/ effects' = Append(effects, <<turn, CallIndex>>)
  PROVE  RunInv'
<1>a. PICK c : c = CallIndex
  OBVIOUS
<1>b. PICK m : m = ToolResult(turn, c)
  OBVIOUS
<1>c. PICK n : n = Len(messages) + 1
  OBVIOUS
<1>1. /\ pc = "tools" /\ messages' = Append(messages, m) /\ trace' = Append(trace, m)
      /\ pending' = pending - 1 /\ outcome' = outcome
      /\ \/ pending = 1 /\ turn' = turn + 1 /\ pc' = "turn"
         \/ pending # 1 /\ turn' = turn /\ pc' = "tools"
  BY <1>a, <1>b DEF Answer, AfterCall
<1>2. TypeOK /\ Traced /\ PastAnswered /\ InCalls /\ EffectsBehind /\ EffectsOnce
  BY DEF RunInv
<1>3. PICK i \in 1 .. Len(messages) : Current(i)
  BY <1>1, <1>2 DEF InCalls
<1>d. PICK r : r = messages[i]
  OBVIOUS
<1>4. c = r.calls - pending + 1
  BY <1>a, <1>d, <1>2, <1>3, CurrentIsResponse DEF RunInv
<1>5. r \in Entry /\ r.role = "assistant" /\ r.turn = turn /\ r.calls \in Nat
      /\ pending \in 1 .. r.calls /\ turn \in Nat
  BY <1>d, <1>2, <1>3, EntryFields DEF Current, IsResponse, TypeOK
<1>e. Len(messages) = i + (r.calls - pending) /\ Followed(i, r.calls - pending)
  BY <1>d, <1>3 DEF Current
<1>6. c \in 1 .. r.calls /\ n = i + c
  <2>1. PICK q : q = r.calls
    OBVIOUS
  <2>2. q \in Nat /\ pending \in 1 .. q /\ c = q - pending + 1 /\ Len(messages) = i + (q - pending)
    BY <2>1, <1>e, <1>4, <1>5
  <2>3. c \in 1 .. q
    BY <2>2
  <2>4. n = i + (q - pending) + 1
    BY <2>2, <1>c
  <2>5. n = i + c
    BY <2>2, <2>4
  <2>. QED  BY <2>1, <2>3, <2>5
<1>f. PICK x : x = <<turn, c>>
  OBVIOUS
<1>g. x \in Nat \X Nat /\ x[1] = turn /\ x[2] = c
  BY <1>f, <1>5, <1>6
<1>h. effects' = effects \/ effects' = Append(effects, x)
  BY <1>a, <1>f
<1>i. /\ effects' \in Seq(Nat \X Nat)
      /\ \A e \in 1 .. Len(effects') :
           \/ e \in 1 .. Len(effects) /\ effects'[e] = effects[e]
           \/ e = Len(effects) + 1 /\ effects'[e] = x
  <2>1. PICK S : S = Nat \X Nat
    OBVIOUS
  <2>2. effects \in Seq(S) /\ x \in S
    BY <2>1, <1>g, <1>2 DEF TypeOK
  <2>3. /\ effects' \in Seq(S)
        /\ \A e \in 1 .. Len(effects') :
             \/ e \in 1 .. Len(effects) /\ effects'[e] = effects[e]
             \/ e = Len(effects) + 1 /\ effects'[e] = x
    <3>1. /\ Append(effects, x) \in Seq(S) /\ Len(Append(effects, x)) = Len(effects) + 1
          /\ \A e \in 1 .. Len(effects) : Append(effects, x)[e] = effects[e]
          /\ Append(effects, x)[Len(effects) + 1] = x
      BY <2>2, AppendProperties
    <3>2. PICK k \in Nat : k = Len(effects)
      BY <2>2
    <3>3. CASE effects' = effects
      BY <2>2, <3>3
    <3>4. CASE effects' = Append(effects, x)
      <4>1. /\ effects' \in Seq(S) /\ Len(effects') = k + 1
            /\ (\A e \in 1 .. k : effects'[e] = effects[e]) /\ effects'[k + 1] = x
        BY <3>1, <3>2, <3>4, Zenon
      <4>2. \A e \in 1 .. k + 1 : e \in 1 .. k \/ e = k + 1
        BY <3>2
      <4>. QED  BY <3>2, <4>1, <4>2, Zenon
    <3>. QED  BY <1>h, <3>3, <3>4
  <2>. QED  BY <2>1, <2>3, Zenon
<1>7. m \in Entry /\ m.role = "tool"
  BY <1>b, <1>5, <1>6, EntryFields
<1>9. /\ messages' \in Seq(Entry) /\ Len(messages') = n /\ messages'[n] = m
      /\ n \in Nat \ {0} /\ Len(messages) = n - 1
      /\ \A j \in 1 .. Len(messages) : messages'[j] = messages[j]
  BY <1>c, <1>1, <1>2, <1>7 DEF TypeOK
<1>8. c - 1 = r.calls - pending
  BY <1>4, <1>5
<1>10. /\ Followed(i, c - 1) /\ pending \in Nat \ {0} /\ i \in 1 .. n - 1
       /\ \A j \in 1 .. Len(messages) : IsResponse(j) /\ j # i => messages[j].turn < turn
  <2>1. Followed(i, c - 1)
    BY <1>e, <1>8, Zenon
  <2>2. pending \in Nat \ {0}
    BY <1>5
  <2>3. i \in 1 .. n - 1
    BY <1>9
  <2>4. \A j \in 1 .. Len(messages) : IsResponse(j) /\ j # i => messages[j].turn < turn
    BY <1>3, Zenon DEF Current
  <2>. QED  BY <2>1, <2>2, <2>3, <2>4
<1>11. messages'[i] = r
  BY <1>d, <1>9
<1>12. Followed(i, c)'
  <2>. SUFFICES ASSUME NEW k \in 1 .. c PROVE messages'[i + k] = ToolResult(turn, k)
    BY <1>5, <1>6, <1>9, <1>11 DEF Followed
  <2>1. CASE k = c
    BY <2>1, <1>6, <1>b, <1>9
  <2>2. CASE k # c
    <3>1. k \in 1 .. c - 1 /\ i + k \in 1 .. n - 1
      BY <2>2, <1>5, <1>6, <1>10
    <3>. QED  BY <3>1, <1>5, <1>9, <1>10, <1>d DEF Followed
  <2>. QED  BY <2>1, <2>2
<1>13. \A j \in 1 .. n : IsResponse(j)' => j \in 1 .. Len(messages) /\ IsResponse(j)
                                            /\ messages'[j] = messages[j]
  BY <1>7, <1>9 DEF IsResponse
<1>14. PastAnswered'
  <2>. SUFFICES ASSUME NEW j \in 1 .. n, IsResponse(j)', messages'[j].turn < turn'
                PROVE  Followed(j, messages[j].calls)'
    BY <1>9 DEF PastAnswered
  <2>1. j \in 1 .. Len(messages) /\ IsResponse(j) /\ messages'[j] = messages[j]
    BY <1>13
  <2>2. CASE j = i
    <3>1. pending = 1
      BY <2>2, <1>1, <1>5, <1>11
    <3>2. c = r.calls
      BY <3>1, <1>4, <1>5, <1>11
    <3>. QED  BY <2>2, <3>2, <1>11, <1>12
  <2>3. CASE j # i
    <3>1. messages[j].turn < turn
      BY <2>1, <2>3, <1>10
    <3>2. Followed(j, messages[j].calls) /\ messages[j].calls \in Nat
      BY <2>1, <3>1, <1>2, EntryFields DEF PastAnswered, IsResponse, TypeOK
    <3>3. \A k \in 1 .. messages[j].calls : messages'[j + k] = messages[j + k]
      BY <2>1, <3>2, <1>9 DEF Followed
    <3>. QED  BY <2>1, <3>2, <3>3, <1>9 DEF Followed
  <2>. QED  BY <2>2, <2>3
<1>15. NoneYet'
  <2>. SUFFICES ASSUME pc' = "turn", NEW j \in 1 .. n, IsResponse(j)'
                PROVE  messages'[j].turn < turn'
    BY <1>1, <1>9 DEF NoneYet
  <2>1. j \in 1 .. Len(messages) /\ IsResponse(j) /\ messages'[j] = messages[j] /\ turn' = turn + 1
    BY <1>1, <1>13
  <2>2. CASE j = i
    BY <2>1, <2>2, <1>5, <1>11
  <2>3. CASE j # i
    <3>1. messages[j].turn < turn /\ messages[j].turn \in Nat
      BY <2>1, <2>3, <1>2, <1>10, EntryFields DEF IsResponse, TypeOK
    <3>. QED  BY <2>1, <3>1, <1>5
  <2>. QED  BY <2>2, <2>3
<1>16. ASSUME pc' = "tools" PROVE Current(i)'
  <2>1. pending # 1 /\ turn' = turn /\ pending' = pending - 1
    BY <1>1, <1>16
  <2>2. pending' \in 1 .. r.calls /\ r.calls - pending' = c
    BY <2>1, <1>4, <1>5, <1>11
  <2>3. Len(messages') = i + (r.calls - pending')
    BY <2>2, <1>6, <1>9
  <2>4. \A j \in 1 .. Len(messages') : (IsResponse(j)' /\ j # i) => messages'[j].turn < turn'
    BY <2>1, <1>9, <1>10, <1>13
  <2>5. IsResponse(i)' /\ r.turn = turn'
    BY <2>1, <1>5, <1>11 DEF IsResponse
  <2>. QED  BY <2>2, <2>3, <2>4, <2>5, <1>11, <1>12 DEF Current
<1>17. TypeOK'
  BY <1>1, <1>5, <1>9, <1>10, <1>i DEF TypeOK
<1>18. Traced'
  BY <1>1, <1>2 DEF Traced
<1>19. InCalls'
  BY <1>9, <1>10, <1>16 DEF InCalls
<1>20. pc' = "tools" => CallIndex' = c + 1
  <2>. SUFFICES ASSUME pc' = "tools" PROVE CallIndex' = c + 1
    OBVIOUS
  <2>1. \A j \in 1 .. Len(messages') :
          messages'[j].role = "assistant" /\ messages'[j].turn = turn' => j = i
    BY <1>9, <1>10, <1>13, <1>16, <1>17 DEF Current, IsResponse, TypeOK
  <2>2. CallIndex' = r.calls - pending' + 1
    <3>1. i \in 1 .. Len(messages') /\ messages'[i].role = "assistant" /\ messages'[i].turn = turn'
      BY <1>9, <1>10, <1>16 DEF Current, IsResponse
    <3>2. Response' = i
      BY <2>1, <3>1 DEF Response
    <3>. QED  BY <3>2, <1>11 DEF CallIndex
  <2>3. r.calls - pending' + 1 = c + 1
    BY <1>1, <1>4, <1>5, <1>11
  <2>. QED  BY <2>2, <2>3
<1>21. \A e \in 1 .. Len(effects) :
         /\ effects[e][1] \in Nat /\ effects[e][2] \in Nat
         /\ effects[e][1] < turn \/ (effects[e][1] = turn /\ effects[e][2] < c)
  <2>1. \A e \in 1 .. Len(effects) : effects[e][1] \in Nat /\ effects[e][2] \in Nat
    BY <1>2 DEF TypeOK
  <2>2. \A e \in 1 .. Len(effects) :
          effects[e][1] < turn \/ (effects[e][1] = turn /\ effects[e][2] < c)
    BY <1>a, <1>1, <1>2 DEF EffectsBehind
  <2>. QED  BY <2>1, <2>2
<1>22. \A e \in 1 .. Len(effects') :
         \/ e \in 1 .. Len(effects) /\ effects'[e] = effects[e]
         \/ e = Len(effects) + 1 /\ effects'[e] = <<turn, c>>
  BY <1>f, <1>i
<1>23. EffectsBehind'
  <2>. SUFFICES ASSUME NEW e \in 1 .. Len(effects')
                PROVE  \/ effects'[e][1] < turn'
                       \/ pc' = "tools" /\ effects'[e][1] = turn' /\ effects'[e][2] < CallIndex'
    BY DEF EffectsBehind
  <2>1. c < c + 1 /\ \A k \in Nat : k < c => k < c + 1
    BY <1>6
  <2>2. CASE e \in 1 .. Len(effects) /\ effects'[e] = effects[e]
    <3>1. PICK t, k \in Nat : t = effects[e][1] /\ k = effects[e][2] /\ (t < turn \/ (t = turn /\ k < c))
      BY <2>2, <1>21
    <3>2. effects'[e][1] = t /\ effects'[e][2] = k
      BY <2>2, <3>1, Zenon
    <3>3. (turn' = turn + 1 /\ t < turn') \/ (turn' = turn /\ pc' = "tools")
      <4>1. t < turn + 1
        BY <1>5, <3>1
      <4>. QED  BY <1>1, <4>1, Zenon
    <3>4. turn' = turn /\ pc' = "tools" => t < turn' \/ (t = turn' /\ k < CallIndex')
      BY <2>1, <1>20, <3>1
    <3>. QED  BY <3>2, <3>3, <3>4
  <2>3. CASE effects'[e] = x
    BY <2>1, <2>3, <1>1, <1>5, <1>20, <1>g
  <2>. QED  BY <2>2, <2>3, <1>22, <1>f
<1>24. EffectsOnce'
  <2>. SUFFICES ASSUME NEW d \in 1 .. Len(effects'), NEW e \in 1 .. Len(effects'), d < e
                PROVE  \/ effects'[d][1] < effects'[e][1]
                       \/ effects'[d][1] = effects'[e][1] /\ effects'[d][2] < effects'[e][2]
    BY DEF EffectsOnce
  <2>1. d \in 1 .. Len(effects) /\ effects'[d] = effects[d]
    BY <1>2, <1>22 DEF TypeOK
  <2>2. CASE e \in 1 .. Len(effects) /\ effects'[e] = effects[e]
    BY <2>1, <2>2, <1>2 DEF EffectsOnce
  <2>3. CASE effects'[e] = <<turn, c>>
    BY <2>1, <2>3, <1>21
  <2>. QED  BY <2>2, <2>3, <1>22
<1>25. m.turn = turn /\ m.call = c
  BY <1>b DEF ToolResult
<1>26. ResultsBehind'
  <2>. SUFFICES ASSUME NEW j \in 1 .. n, messages'[j].role = "tool"
                PROVE  \/ messages'[j].turn < turn'
                       \/ pc' = "tools" /\ messages'[j].turn = turn' /\ messages'[j].call < CallIndex'
    BY <1>9 DEF ResultsBehind
  <2>1. CASE j = n
    BY <2>1, <1>1, <1>5, <1>6, <1>9, <1>20, <1>25
  <2>2. CASE j # n
    <3>1. j \in 1 .. Len(messages) /\ messages'[j] = messages[j]
      BY <2>2, <1>9
    <3>2. messages[j].turn < turn \/ (messages[j].turn = turn /\ messages[j].call < c)
      BY <3>1, <1>a DEF RunInv, ResultsBehind
    <3>3. messages[j].turn \in Nat /\ messages[j].call \in Nat
      BY <3>1, <1>2 DEF TypeOK, Entry
    <3>. QED  BY <3>1, <3>2, <3>3, <1>1, <1>5, <1>6, <1>20
  <2>. QED  BY <2>1, <2>2
<1>. QED  BY <1>14, <1>15, <1>17, <1>18, <1>19, <1>23, <1>24, <1>26 DEF RunInv

LEMMA RunStep == RunInv /\ [Next]_vars => RunInv'
<1>. SUFFICES ASSUME RunInv, [Next]_vars PROVE RunInv'
  OBVIOUS
<1>0. TypeOK /\ Traced
  BY DEF RunInv
<1>. DEFINE Quiet == /\ UNCHANGED <<messages, trace, effects, turn>>
                     /\ pc' \in {"turn", "request", "backoff", "after", "done"}
                     /\ pc \in {"turn", "request", "backoff", "after"}
                     /\ pending' \in Nat
                     /\ outcome'.status = "ok" => outcome'.trace = messages
                     /\ pc' # "done" => outcome'.status = "none"
<1>1. Quiet => RunInv'
  BY Kept
<1>2. CASE StartTurn
  BY <1>0, <1>1, <1>2 DEF StartTurn, TypeOK, Traced
<1>3. CASE HookFails
  BY <1>0, <1>1, <1>3 DEF HookFails, Return, TypeOK, Traced
<1>4. CASE TurnsExceeded
  BY <1>0, <1>1, <1>4 DEF TurnsExceeded, Return, TypeOK, Traced
<1>5. CASE ProviderAnswers
  BY <1>0, <1>1, <1>5, LoopAssumption DEF ProviderAnswers, TypeOK, Traced
<1>6. CASE ProviderFails
  BY <1>0, <1>1, <1>6 DEF ProviderFails, Return, TypeOK, Traced
<1>7. CASE Retry
  BY <1>0, <1>1, <1>7 DEF Retry, TypeOK, Traced
<1>b. CASE BackoffCancelled
  BY <1>0, <1>1, <1>b DEF BackoffCancelled, Return, TypeOK, Traced
<1>9. CASE TakeResponse
  BY <1>9, TakeResponseStep
<1>10. CASE UnknownTool
  <2>1. Answer(ToolResult(turn, CallIndex)) /\ effects' = effects
    BY <1>10 DEF UnknownTool, Answer
  <2>. QED  BY <2>1, CallStep
<1>11. CASE CallTool
  <2>1. Answer(ToolResult(turn, CallIndex)) /\ effects' = Append(effects, <<turn, CallIndex>>)
    BY <1>11 DEF CallTool, Answer
  <2>. QED  BY <2>1, CallStep
<1>12. CASE Cancel \/ UNCHANGED vars
  <2>1. UNCHANGED <<pc, turn, pending, messages, trace, effects, outcome>>
    BY <1>12 DEF Cancel, vars
  <2>2. Response' = Response
    BY <2>1 DEF Response
  <2>3. CallIndex' = CallIndex
    BY <2>1, <2>2 DEF CallIndex
  <2>4. EffectsBehind' /\ ResultsBehind'
    BY <2>1, <2>3 DEF RunInv, EffectsBehind, ResultsBehind
  <2>5. TypeOK' /\ Traced' /\ EffectsOnce'
    BY <1>0, <2>1 DEF RunInv, TypeOK, Traced, EffectsOnce
  <2>6. PastAnswered' /\ NoneYet'
    BY <2>1 DEF RunInv, PastAnswered, NoneYet, Followed, IsResponse
  <2>7. InCalls'
    BY <2>1 DEF RunInv, InCalls, Current, Followed, IsResponse
  <2>. QED  BY <2>4, <2>5, <2>6, <2>7 DEF RunInv
<1>. QED  BY <1>2, <1>3, <1>4, <1>5, <1>6, <1>7, <1>b, <1>9, <1>10, <1>11, <1>12 DEF Next, Loop

LEMMA RunInvariant == Spec => []RunInv
BY RunInit, RunStep, PTL DEF Spec

\* Every tool call the provider has made is answered, in order, when it is
\* asked again (the loop over the calls of a response, RunWithEvents).
THEOREM AnswersReachProvider == Spec => []CallsAnswered
<1>1. RunInv => CallsAnswered
  <2>. SUFFICES ASSUME RunInv, pc \in {"turn", "request"},
                       NEW i \in 1 .. Len(messages), messages[i].role = "assistant",
                       NEW k \in 1 .. messages[i].calls
                PROVE  i + k <= Len(messages) /\ messages[i + k] = ToolResult(messages[i].turn, k)
    BY DEF CallsAnswered
  <2>1. Followed(i, messages[i].calls)
    BY DEF RunInv, PastAnswered, NoneYet, IsResponse
  <2>2. messages[i].calls \in Nat /\ Len(messages) \in Nat
    BY EntryFields DEF RunInv, TypeOK
  <2>. QED  BY <2>1, <2>2 DEF Followed
<1>. QED  BY <1>1, RunInvariant, PTL

\* A successful run returns all it has generated (Run, RunWithEvents).
THEOREM SuccessReturnsAll == Spec => []TraceComplete
<1>1. RunInv => TraceComplete
  BY DEF RunInv, Traced, TraceComplete
<1>. QED  BY <1>1, RunInvariant, PTL

\* No tool call is made twice or out of order (RunWithEvents; retries repeat
\* requests only, completeWithRetry).
THEOREM CallsMadeOnce == Spec => []EffectsOnce
<1>1. RunInv => EffectsOnce
  BY DEF RunInv
<1>. QED  BY <1>1, RunInvariant, PTL

-----------------------------------------------------------------------------
(* The client: a run whose requests are streams.                            *)

Content == [role : {"assistant"}, turn : Nat] \cup [role : {"tool"}, turn : Nat, call : Nat]

Item == [id : Nat, role : {"", "assistant", "tool"}, deltas : Nat, shows : Seq(Content),
         status : {"", "streaming", "running", "complete", "error"}]

Sent == [change : {"item_started", "item_updated", "item_finished"}, item : Item]

\* The item that changes is the last one that was started, and the last event
\* that was sent shows it.
ItemOK == /\ sequence \in Nat
          /\ item \in Item
          /\ log \in Seq(Sent)
          /\ item.id = sequence
          /\ \A i \in 1 .. Len(log) : log[i].item.id \in 1 .. sequence
          /\ log # <<>> => log[Len(log)].item = item

\* A stream is open or a tool runs: the item goes on changing.
Changing == stream = "open" \/ running

ChangingOK == /\ stream \in {"none", "open", "ended"}
              /\ running \in BOOLEAN
              /\ answer \in BOOLEAN
              /\ odd \in Seq(Nat)
              /\ stream # "none" \/ answer => pc = "request"
              /\ running => pc = "tools"
              /\ Changing => sequence > 0

\* Once the last item is finished it does not change any more, unless it is hit
\* by an event out of place, and what was sent since says the same.
FinishedStays ==
  \A i \in 1 .. Len(log) :
    log[i].change = "item_finished" /\ log[i].item.id = sequence /\ sequence \notin Hit
      => ~Changing /\ log[Len(log)] = log[i]

ClientInv == ItemOK /\ ChangingOK /\ FinishedStays /\ FinishedIsFinal

\* Every step of a run with its client is a step of AgentLoop or leaves it
\* alone.
LEMMA ProgressStepIsStep == [ProgressNext]_<<vars, progress>> => [Next]_vars
<1>. SUFFICES ASSUME [ProgressNext]_<<vars, progress>> PROVE [Next]_vars
  OBVIOUS
<1>1. CASE StreamStarts \/ StreamDelta \/ StreamOther \/ StreamDone \/ StreamError
  BY <1>1 DEF StreamStarts, StreamDelta, StreamOther, StreamDone, StreamError, Event
<1>2. CASE StreamCloses
  BY <1>2 DEF StreamCloses, Next, Loop
<1>3. CASE ToolStarts
  BY <1>3 DEF ToolStarts
<1>4. CASE ToolEnds
  BY <1>4 DEF ToolEnds, Next, Loop
<1>5. CASE Silent
  BY <1>5 DEF Silent, Next, Loop
<1>6. CASE Cancel \/ UNCHANGED <<vars, progress>>
  BY <1>6 DEF Next
<1>. QED  BY <1>1, <1>2, <1>3, <1>4, <1>5, <1>6 DEF ProgressNext, Continue

\* A run whose requests are streams is a run of AgentLoop: all of the above
\* holds of it.
THEOREM ProgressImplementsRun == ProgressSpec => Spec
<1>1. ProgressInit => Init
  BY DEF ProgressInit
<1>. QED  BY <1>1, ProgressStepIsStep, PTL DEF ProgressSpec, Spec

COROLLARY RunInvariantOfProgress == ProgressSpec => []RunInv
BY ProgressImplementsRun, RunInvariant, PTL

-----------------------------------------------------------------------------
(* What is sent.                                                            *)

LEMMA Appended ==
  ASSUME ItemOK, NEW e \in Sent, log' = Append(log, e)
  PROVE  /\ log' \in Seq(Sent) /\ Len(log') = Len(log) + 1 /\ Len(log) \in Nat
         /\ log' # <<>>
         /\ log'[Len(log')] = e
         /\ \A i \in 1 .. Len(log) : log'[i] = log[i]
<1>1. log \in Seq(Sent)
  BY DEF ItemOK
<1>2. /\ log' \in Seq(Sent) /\ Len(log') = Len(log) + 1 /\ Len(log) \in Nat
      /\ log'[Len(log')] = e
      /\ \A i \in 1 .. Len(log) : log'[i] = log[i]
  BY <1>1, AppendProperties
<1>3. Len(<<>>) = 0
  OBVIOUS
<1>. QED  BY <1>2, <1>3

\* A new item.
LEMMA SendsNew ==
  ASSUME ItemOK, FinishedIsFinal, NEW i \in Item, i.id = sequence + 1, sequence' = i.id,
         Emit("item_started", i), Hit \subseteq Hit'
  PROVE  ItemOK' /\ FinishedStays' /\ FinishedIsFinal'
<1>a. PICK e : e = [change |-> "item_started", item |-> i]
  OBVIOUS
<1>1. e \in Sent /\ e.change = "item_started" /\ e.item = i
  BY <1>a DEF Sent
<1>2. sequence \in Nat /\ sequence' = sequence + 1 /\ item' = i /\ log' = Append(log, e)
  BY <1>a DEF ItemOK, Emit
<1>3. PICK n \in Nat : n = Len(log)
  BY Appended, <1>1, <1>2
<1>4. /\ log' \in Seq(Sent) /\ Len(log') = n + 1 /\ log' # <<>> /\ log'[n + 1] = e
      /\ \A k \in 1 .. n : log'[k] = log[k]
  BY Appended, <1>1, <1>2, <1>3
<1>5. \A k \in 1 .. n : log'[k].item.id \in 1 .. sequence
  BY <1>3, <1>4 DEF ItemOK
<1>6. ItemOK'
  BY <1>1, <1>2, <1>4, <1>5 DEF ItemOK
<1>7. FinishedStays'
  BY <1>1, <1>2, <1>4, <1>5 DEF FinishedStays
<1>8. FinishedIsFinal'
  <2>. SUFFICES ASSUME NEW j \in 1 .. n + 1, NEW k \in 1 .. n + 1, j < k,
                       log'[j].change = "item_finished", log'[j].item.id = log'[k].item.id,
                       log'[j].item.id \notin Hit'
                PROVE  log'[k] = log'[j]
    BY <1>4 DEF FinishedIsFinal
  <2>1. j \in 1 .. n
    OBVIOUS
  <2>2. log'[j].item.id # sequence + 1
    <3>1. PICK q : q = log'[j].item.id
      OBVIOUS
    <3>2. q \in 1 .. sequence /\ sequence \in Nat
      BY <2>1, <3>1, <1>2, <1>5
    <3>3. q # sequence + 1
      BY <3>2
    <3>. QED  BY <3>1, <3>3
  <2>3. log'[n + 1].item.id = sequence + 1
    BY <1>1, <1>4
  <2>4. k # n + 1
    BY <2>2, <2>3
  <2>5. k \in 1 .. n /\ log'[j] = log[j] /\ log'[k] = log[k] /\ log[j].item.id \notin Hit
    BY <2>1, <2>4, <1>4
  <2>. QED  BY <2>1, <2>5, <1>3 DEF FinishedIsFinal
<1>. QED  BY <1>6, <1>7, <1>8

\* A change of the item while it is not finished, or out of place.
LEMMA SendsChange ==
  ASSUME ItemOK, ChangingOK, FinishedStays, FinishedIsFinal, sequence # 0,
         Changing \/ sequence \in Hit', Hit \subseteq Hit',
         NEW change \in {"item_updated", "item_finished"},
         NEW i \in Item, i.id = item.id, sequence' = sequence, Emit(change, i),
         change = "item_finished" => ~Changing' \/ sequence \in Hit'
  PROVE  ItemOK' /\ FinishedStays' /\ FinishedIsFinal'
<1>a. PICK e : e = [change |-> change, item |-> i]
  OBVIOUS
<1>1. e \in Sent /\ e.change = change /\ e.item = i
  BY <1>a DEF Sent
<1>2. sequence \in Nat /\ sequence > 0 /\ i.id = sequence
  BY DEF ItemOK, ChangingOK
<1>3. item' = i /\ log' = Append(log, e)
  BY <1>a, <1>2 DEF Emit
<1>4. PICK n \in Nat : n = Len(log)
  BY Appended, <1>1, <1>3
<1>5. /\ log' \in Seq(Sent) /\ Len(log') = n + 1 /\ log' # <<>> /\ log'[n + 1] = e
      /\ \A k \in 1 .. n : log'[k] = log[k]
  BY Appended, <1>1, <1>3, <1>4
<1>6. \A k \in 1 .. n : log'[k].item.id \in 1 .. sequence
  BY <1>4, <1>5 DEF ItemOK
<1>7. sequence \notin Hit' =>
        \A k \in 1 .. n : log[k].change = "item_finished" => log[k].item.id # sequence
  BY <1>4 DEF FinishedStays
<1>8. ItemOK'
  BY <1>1, <1>2, <1>3, <1>5, <1>6 DEF ItemOK
<1>9. FinishedStays'
  BY <1>1, <1>2, <1>5, <1>7 DEF FinishedStays
<1>10. FinishedIsFinal'
  <2>. SUFFICES ASSUME NEW j \in 1 .. n + 1, NEW k \in 1 .. n + 1, j < k,
                       log'[j].change = "item_finished", log'[j].item.id = log'[k].item.id,
                       log'[j].item.id \notin Hit'
                PROVE  log'[k] = log'[j]
    BY <1>5 DEF FinishedIsFinal
  <2>1. j \in 1 .. n
    OBVIOUS
  <2>2. k # n + 1
    BY <2>1, <1>1, <1>2, <1>5, <1>7
  <2>3. k \in 1 .. n /\ log'[j] = log[j] /\ log'[k] = log[k] /\ log[j].item.id \notin Hit
    BY <2>1, <2>2, <1>5
  <2>. QED  BY <2>1, <2>3, <1>4 DEF FinishedIsFinal
<1>. QED  BY <1>8, <1>9, <1>10

\* The last event again.
LEMMA SendsAgain ==
  ASSUME ItemOK, FinishedStays, FinishedIsFinal, UNCHANGED <<sequence, stream, running>>, Again,
         Hit' = Hit
  PROVE  ItemOK' /\ FinishedStays' /\ FinishedIsFinal'
<1>1. CASE log = <<>>
  BY <1>1 DEF Again, ItemOK, FinishedStays, FinishedIsFinal, Changing
<1>2. CASE log # <<>>
  <2>1. PICK n \in Nat : n = Len(log)
    BY DEF ItemOK
  <2>2. n \in 1 .. Len(log)
    BY <1>2, <2>1, EmptySeq DEF ItemOK
  <2>3. PICK e : e = log[n]
    OBVIOUS
  <2>4. e \in Sent /\ e.item = item /\ item.id = sequence
    BY <1>2, <2>1, <2>2, <2>3 DEF ItemOK
  <2>5. log' = Append(log, e) /\ item' = item
    BY <1>2, <2>1, <2>3 DEF Again, Last
  <2>6. /\ log' \in Seq(Sent) /\ Len(log') = n + 1 /\ log' # <<>> /\ log'[n + 1] = e
        /\ \A k \in 1 .. n : log'[k] = log[k]
    BY Appended, <2>1, <2>4, <2>5
  <2>7. \A k \in 1 .. n : log'[k].item.id \in 1 .. sequence
    BY <2>1, <2>6 DEF ItemOK
  <2>8. sequence \in Nat /\ sequence \in 1 .. sequence
    BY <2>2, <2>3, <2>4 DEF ItemOK
  <2>9. ItemOK'
    BY <2>4, <2>5, <2>6, <2>7, <2>8 DEF ItemOK
  <2>10. \A k \in 1 .. n :
           log[k].change = "item_finished" /\ log[k].item.id = sequence /\ sequence \notin Hit
             => ~Changing /\ log[k] = e
    BY <2>1, <2>3 DEF FinishedStays
  <2>11. FinishedStays'
    BY <2>1, <2>2, <2>3, <2>6, <2>10 DEF FinishedStays, Changing
  <2>12. FinishedIsFinal'
    <3>. SUFFICES ASSUME NEW j \in 1 .. n + 1, NEW k \in 1 .. n + 1, j < k,
                         log'[j].change = "item_finished", log'[j].item.id = log'[k].item.id,
                         log'[j].item.id \notin Hit
                  PROVE  log'[k] = log'[j]
      BY <2>6 DEF FinishedIsFinal
    <3>1. j \in 1 .. n
      OBVIOUS
    <3>2. CASE k = n + 1
      BY <3>1, <3>2, <2>4, <2>6, <2>10
    <3>3. CASE k # n + 1
      BY <3>1, <3>3, <2>1, <2>6 DEF FinishedIsFinal
    <3>. QED  BY <3>2, <3>3
  <2>. QED  BY <2>9, <2>11, <2>12
<1>. QED  BY <1>1, <1>2

\* Nothing is sent, and no item changes from now on that did not before.
LEMMA SendsNothing ==
  ASSUME ItemOK, FinishedStays, FinishedIsFinal, UNCHANGED <<sequence, item, log>>,
         Changing' => Changing, Hit \subseteq Hit'
  PROVE  ItemOK' /\ FinishedStays' /\ FinishedIsFinal'
<1>1. ItemOK'
  BY DEF ItemOK
<1>2. FinishedStays'
  BY DEF FinishedStays
<1>3. FinishedIsFinal'
  BY DEF FinishedIsFinal
<1>. QED  BY <1>1, <1>2, <1>3

-----------------------------------------------------------------------------
(* The steps of the run with its client.                                    *)

OpenStatus == {"streaming", "running"}

LEMMA ContentFields ==
  /\ \A t, n \in Nat : Reply(t) \in Content /\ ToolResult(t, n) \in Content
  /\ \A t, n : /\ Reply(t).role = "assistant" /\ Reply(t).turn = t
               /\ Shown(Assistant(t, n)) = Reply(t)
               /\ Shown(ToolResult(t, n)) = ToolResult(t, n)
BY DEF Content, Reply, Shown, Assistant, ToolResult

\* The changes of an item.
LEMMA ItemUpdated ==
  ASSUME NEW i \in Item, NEW n \in Nat, NEW next, next = [i EXCEPT !.deltas = n]
  PROVE  /\ next \in Item /\ next.id = i.id /\ next.status = i.status
         /\ next.shows = i.shows /\ next.role = i.role
BY DEF Item

Final(i, status, shows) == [i EXCEPT !.status = status, !.shows = shows, !.deltas = 0]

LEMMA ItemFinished ==
  ASSUME NEW i \in Item, NEW status \in {"complete", "error"}, NEW shows \in Seq(Content),
         NEW next, next = Final(i, status, shows)
  PROVE  /\ next \in Item /\ next.id = i.id /\ next.status = status
         /\ next.shows = shows /\ next.role = i.role /\ next.deltas = 0
BY DEF Item, Final

LEMMA ItemFailed ==
  ASSUME NEW i \in Item, NEW next, next = [i EXCEPT !.status = "error"]
  PROVE  /\ next \in Item /\ next.id = i.id /\ next.status = "error"
         /\ next.shows = i.shows /\ next.role = i.role
BY DEF Item

\* Events out of place are never forgotten.
LEMMA OddGrows ==
  ASSUME odd \in Seq(Nat), sequence \in Nat, odd' = odd \/ odd' = Append(odd, sequence)
  PROVE  /\ odd' \in Seq(Nat) /\ Hit \subseteq Hit'
         /\ odd' = Append(odd, sequence) => sequence \in Hit' /\ odd' # <<>>
<1>1. CASE odd' = odd
  <2>1. odd # Append(odd, sequence)
    <3>1. PICK n \in Nat : n = Len(odd)
      OBVIOUS
    <3>2. Len(Append(odd, sequence)) = n + 1
      BY <3>1, AppendProperties
    <3>. QED  BY <3>1, <3>2
  <2>. QED  BY <1>1, <2>1 DEF Hit
<1>2. CASE odd' = Append(odd, sequence)
  <2>1. PICK n \in Nat : n = Len(odd)
    OBVIOUS
  <2>2. /\ odd' \in Seq(Nat) /\ Len(odd') = n + 1 /\ odd'[n + 1] = sequence
        /\ \A i \in 1 .. n : odd'[i] = odd[i]
    BY <1>2, <2>1, AppendProperties
  <2>3. DOMAIN odd' = 1 .. n + 1 /\ DOMAIN odd = 1 .. n
    BY <2>1, <2>2
  <2>4. sequence \in Hit'
    BY <2>2, <2>3 DEF Hit
  <2>5. Hit \subseteq Hit'
    BY <2>2, <2>3 DEF Hit
  <2>6. odd' # <<>>
    BY <2>2, EmptySeq
  <2>. QED  BY <2>2, <2>4, <2>5, <2>6
<1>. QED  BY <1>1, <1>2

LEMMA NextCallIsNat == RunInv /\ pc = "tools" => CallIndex \in Nat
<1>. SUFFICES ASSUME RunInv, pc = "tools" PROVE CallIndex \in Nat
  OBVIOUS
<1>1. PICK i \in 1 .. Len(messages) : Current(i)
  BY DEF RunInv, InCalls
<1>2. TypeOK
  BY DEF RunInv
<1>3. CallIndex = messages[i].calls - pending + 1
  BY <1>1, <1>2, CurrentIsResponse
<1>4. messages[i].calls \in Nat /\ pending \in 1 .. messages[i].calls
  BY <1>1, <1>2, EntryFields DEF Current, IsResponse, TypeOK
<1>. QED  BY <1>3, <1>4

\* What a delta, a done and an error have in common: they change the last
\* item to i, which is out of place unless the stream is open.
Changed(change, i) ==
  /\ pc = "request"
  /\ UNCHANGED <<vars, running, failures, cuts, sequence>>
  /\ answer' \in BOOLEAN
  /\ i \in Item /\ i.id = item.id
  /\ \/ change = "item_updated" /\ i.status = item.status /\ stream' = stream
     \/ change = "item_finished" /\ i.status \notin OpenStatus /\ stream' = End
  /\ Emit(change, i)
  /\ (odd' = odd /\ stream = "open") \/ odd' = Append(odd, sequence)

LEMMA EventChanges ==
  ASSUME RunInv, ClientInv, StreamDelta \/ StreamDone \/ StreamError
  PROVE  \E change, i : Changed(change, i)
<1>0. item \in Item /\ turn \in Nat /\ answer \in BOOLEAN
  BY DEF ClientInv, ItemOK, ChangingOK, RunInv, TypeOK
<1>1. CASE StreamDelta
  <2>1. /\ pc = "request" /\ UNCHANGED <<vars, running, failures, cuts, sequence, answer>> /\ stream' = stream
        /\ (odd' = odd /\ stream = "open") \/ odd' = Append(odd, sequence)
        /\ Updated
    BY <1>1 DEF StreamDelta, Event, Place
  <2>2. PICK n \in Nat : n = item.deltas + 1
    <3>1. PICK d \in Nat : d = item.deltas
      BY <1>0 DEF Item
    <3>. QED  BY <3>1
  <2>3. PICK i : i = [item EXCEPT !.deltas = n]
    OBVIOUS
  <2>4. i \in Item /\ i.id = item.id /\ i.status = item.status
    BY <1>0, <2>3, ItemUpdated
  <2>5. Emit("item_updated", i)
    BY <2>1, <2>2, <2>3 DEF Updated
  <2>6. Changed("item_updated", i)
    BY <1>0, <2>1, <2>4, <2>5 DEF Changed
  <2>. QED  BY <2>6
<1>2. CASE StreamDone
  <2>1. /\ pc = "request" /\ UNCHANGED <<vars, running, failures, cuts, sequence>> /\ stream' = End
        /\ answer' \in BOOLEAN
        /\ (odd' = odd /\ stream = "open") \/ odd' = Append(odd, sequence)
        /\ Finished("complete", Reply(turn))
    BY <1>2 DEF StreamDone, Event, Place
  <2>2. PICK shows : shows = <<Reply(turn)>>
    OBVIOUS
  <2>3. shows \in Seq(Content)
    BY <1>0, <2>2, ContentFields
  <2>a. PICK status \in {"complete", "error"} : status = "complete"
    OBVIOUS
  <2>4. PICK i : i = Final(item, status, shows)
    OBVIOUS
  <2>5. i \in Item /\ i.id = item.id /\ i.status = status
    BY <1>0, <2>3, <2>4, ItemFinished
  <2>6. Emit("item_finished", i)
    BY <2>1, <2>2, <2>4, <2>a DEF Finished, Final
  <2>7. Changed("item_finished", i)
    BY <2>1, <2>5, <2>6, <2>a DEF Changed, OpenStatus
  <2>. QED  BY <2>7
<1>3. CASE StreamError
  <2>1. /\ pc = "request" /\ UNCHANGED <<vars, running, failures, cuts, sequence>> /\ stream' = End
        /\ answer' \in BOOLEAN
        /\ (odd' = odd /\ stream = "open") \/ odd' = Append(odd, sequence)
        /\ Failed
    BY <1>3 DEF StreamError, Event, Place
  <2>2. PICK i : i = [item EXCEPT !.status = "error"]
    OBVIOUS
  <2>3. i \in Item /\ i.id = item.id /\ i.status = "error"
    BY <1>0, <2>2, ItemFailed
  <2>4. Emit("item_finished", i)
    BY <2>1, <2>2 DEF Failed
  <2>5. Changed("item_finished", i)
    BY <2>1, <2>3, <2>4 DEF Changed, OpenStatus
  <2>. QED  BY <2>5
<1>. QED  BY <1>1, <1>2, <1>3

\* What a start and a tool call have in common: they begin the item i, and
\* leave one behind that is not finished only out of place.
Begun(role, i) ==
  /\ i \in Item /\ i.id = sequence + 1 /\ i.status \in OpenStatus
  /\ i.role = role /\ i.shows = <<>>
  /\ sequence' = i.id /\ Emit("item_started", i)

LEMMA StartBegins ==
  ASSUME ItemOK, NEW role \in {"assistant", "tool"}, Started(role)
  PROVE  \E i : Begun(role, i)
<1>1. PICK status \in OpenStatus : status = IF role = "tool" THEN "running" ELSE "streaming"
  BY DEF OpenStatus
<1>2. PICK shows \in Seq(Content) : shows = <<>>
  BY EmptySeq
<1>3. PICK n \in Nat : n = sequence + 1
  BY DEF ItemOK
<1>4. PICK i : i = [id |-> n, role |-> role, deltas |-> 0, shows |-> shows, status |-> status]
  OBVIOUS
<1>5. i \in Item
  BY <1>4 DEF Item, OpenStatus
<1>6. i.id = n /\ i.role = role /\ i.shows = <<>> /\ i.status = status
  BY <1>2, <1>4
<1>7. sequence' = n /\ Emit("item_started", i)
  BY <1>1, <1>2, <1>3, <1>4 DEF Started
<1>. QED  BY <1>1, <1>3, <1>5, <1>6, <1>7 DEF Begun

\* What the end of a tool call does to the item.
Ended(i) ==
  /\ i \in Item /\ i.id = item.id /\ i.status \in {"complete", "error"}
  /\ i.shows = <<ToolResult(turn, CallIndex)>> /\ i.role = item.role /\ i.deltas = 0
  /\ failures' = failures \cup (IF i.status = "error" THEN {ToolResult(turn, CallIndex)} ELSE {})
  /\ Emit("item_finished", i)

LEMMA ToolEnded ==
  ASSUME RunInv, ClientInv, ToolEnds
  PROVE  /\ pc = "tools" /\ running /\ running' = FALSE
         /\ UNCHANGED <<stream, answer, sequence, cuts, odd>>
         /\ messages' = Append(messages, ToolResult(turn, CallIndex))
         /\ pc' \in {"tools", "turn"}
         /\ \E i : Ended(i)
<1>1. /\ running /\ running' = FALSE /\ UNCHANGED <<stream, answer, sequence, cuts, odd>>
      /\ messages' = Append(messages, ToolResult(turn, CallIndex))
      /\ pc = "tools" /\ pc' \in {"tools", "turn"}
  BY DEF ToolEnds, UnknownTool, CallTool, AfterCall
<1>2. PICK status \in {"complete", "error"} :
        /\ Finished(status, ToolResult(turn, CallIndex))
        /\ failures' = failures \cup (IF status = "error" THEN {ToolResult(turn, CallIndex)} ELSE {})
  BY DEF ToolEnds
<1>3. PICK shows : shows = <<ToolResult(turn, CallIndex)>>
  OBVIOUS
<1>4. ToolResult(turn, CallIndex) \in Content
  BY <1>1, NextCallIsNat, ContentFields DEF RunInv, TypeOK
<1>5. shows \in Seq(Content)
  BY <1>3, <1>4
<1>6. PICK i : i = Final(item, status, shows)
  OBVIOUS
<1>7. /\ i \in Item /\ i.id = item.id /\ i.status = status /\ i.shows = shows
      /\ i.role = item.role /\ i.deltas = 0
  <2>1. item \in Item
    BY DEF ClientInv, ItemOK
  <2>. QED  BY <2>1, <1>5, <1>6, ItemFinished
<1>8. Emit("item_finished", i)
  BY <1>2, <1>3, <1>6 DEF Finished, Final
<1>9. Ended(i)
  BY <1>2, <1>3, <1>7, <1>8 DEF Ended
<1>. QED  BY <1>1, <1>9

LEMMA ClientInit == ProgressInit => ClientInv
<1>. SUFFICES ASSUME ProgressInit PROVE ClientInv
  OBVIOUS
<1>1. /\ log = <<>> /\ Len(log) = 0 /\ item = NoItem /\ sequence = 0 /\ stream = "none" /\ running = FALSE
      /\ answer = FALSE /\ odd = <<>>
  BY DEF ProgressInit
<1>2. NoItem \in Item /\ NoItem.id = 0
  BY DEF NoItem, Item
<1>3. ItemOK
  <2>1. log \in Seq(Sent)
    BY <1>1
  <2>. QED  BY <1>1, <1>2, <2>1 DEF ItemOK
<1>4. ChangingOK
  <2>1. odd \in Seq(Nat)
    BY <1>1
  <2>. QED  BY <1>1, <2>1 DEF ChangingOK, Changing
<1>5. FinishedStays /\ FinishedIsFinal
  BY <1>1 DEF FinishedStays, FinishedIsFinal
<1>. QED  BY <1>3, <1>4, <1>5 DEF ClientInv

LEMMA ClientStep == RunInv /\ ClientInv /\ [ProgressNext]_<<vars, progress>> => ClientInv'
<1>. SUFFICES ASSUME RunInv, ClientInv, [ProgressNext]_<<vars, progress>> PROVE ClientInv'
  OBVIOUS
<1>0. ItemOK /\ ChangingOK /\ FinishedStays /\ FinishedIsFinal /\ sequence \in Nat /\ item \in Item
      /\ item.id = sequence /\ odd \in Seq(Nat)
  BY DEF ClientInv, ItemOK, ChangingOK
<1>1. ASSUME NEW role \in {"assistant", "tool"}, Started(role), ChangingOK', Hit \subseteq Hit'
      PROVE  ClientInv'
  <2>1. PICK i : Begun(role, i)
    BY <1>0, <1>1, StartBegins
  <2>2. i \in Item /\ i.id = sequence + 1 /\ sequence' = i.id /\ Emit("item_started", i)
    BY <2>1 DEF Begun
  <2>. QED  BY <1>0, <1>1, <2>2, SendsNew DEF ClientInv
<1>2. CASE StreamStarts
  <2>1. /\ pc = "request" /\ UNCHANGED <<vars, running, answer>> /\ stream' = "open"
        /\ odd' = odd \/ odd' = Append(odd, sequence)
        /\ Started("assistant")
    BY <1>2 DEF StreamStarts, Event, Place
  <2>2. odd' \in Seq(Nat) /\ Hit \subseteq Hit'
    BY <1>0, <2>1, OddGrows
  <2>3. ChangingOK'
    BY <1>0, <2>1, <2>2 DEF Started, ChangingOK, Changing, vars
  <2>. QED  BY <1>1, <2>1, <2>2, <2>3
<1>3. CASE StreamDelta \/ StreamDone \/ StreamError
  <2>1. PICK change, i : Changed(change, i)
    BY <1>3, EventChanges
  <2>2. /\ pc = "request" /\ UNCHANGED <<vars, running, sequence>> /\ answer' \in BOOLEAN
        /\ i \in Item /\ i.id = item.id /\ Emit(change, i)
        /\ \/ change = "item_updated" /\ stream' = stream
           \/ change = "item_finished" /\ stream' = End
        /\ (odd' = odd /\ stream = "open") \/ odd' = Append(odd, sequence)
    BY <2>1 DEF Changed
  <2>3. /\ odd' \in Seq(Nat) /\ Hit \subseteq Hit'
        /\ odd' = Append(odd, sequence) => sequence \in Hit'
    BY <1>0, <2>2, OddGrows
  <2>4. ~running /\ ~running' /\ stream \in {"none", "open", "ended"}
    BY <1>0, <2>2 DEF ChangingOK
  <2>5. stream' \in {"none", "open", "ended"} /\ (Changing' => Changing)
    BY <2>2, <2>4 DEF End, Changing
  <2>6. ChangingOK'
    BY <1>0, <2>2, <2>3, <2>5 DEF ChangingOK, vars
  <2>7. CASE sequence = 0
    <3>1. UNCHANGED <<item, log>>
      BY <1>0, <2>2, <2>7 DEF Emit
    <3>. QED  BY <1>0, <2>2, <2>3, <2>5, <2>6, <3>1, SendsNothing DEF ClientInv
  <2>8. CASE sequence # 0
    <3>1. Changing \/ sequence \in Hit'
      BY <2>2, <2>3 DEF Changing
    <3>2. change = "item_finished" => ~Changing' \/ sequence \in Hit'
      BY <2>2, <2>3, <2>4 DEF Changing, End
    <3>3. change \in {"item_updated", "item_finished"}
      BY <2>2
    <3>. QED  BY <1>0, <2>2, <2>3, <2>6, <2>8, <3>1, <3>2, <3>3, SendsChange DEF ClientInv
  <2>. QED  BY <2>7, <2>8
<1>4. CASE StreamOther
  <2>1. UNCHANGED <<vars, sequence, stream, running, answer, odd>> /\ Again
    BY <1>4 DEF StreamOther, Event
  <2>2. ChangingOK' /\ Hit' = Hit
    BY <1>0, <2>1 DEF ChangingOK, Changing, Hit, vars
  <2>. QED  BY <1>0, <2>1, <2>2, SendsAgain DEF ClientInv
<1>5. CASE StreamCloses
  <2>1. UNCHANGED <<sequence, item, log, running, odd>> /\ stream' = "none" /\ answer' = FALSE /\ pc = "request"
    BY <1>5 DEF StreamCloses, ProviderAnswers, ProviderFails
  <2>2. ChangingOK' /\ (Changing' => Changing) /\ Hit' = Hit
    BY <1>0, <2>1 DEF ChangingOK, Changing, Hit
  <2>. QED  BY <1>0, <2>1, <2>2, SendsNothing DEF ClientInv
<1>6. CASE ToolStarts
  <2>1. /\ pc = "tools" /\ running' = TRUE /\ UNCHANGED <<vars, stream, answer, odd>> /\ Started("tool")
    BY <1>6 DEF ToolStarts
  <2>2. ChangingOK' /\ Hit' = Hit
    BY <1>0, <2>1 DEF Started, ChangingOK, Changing, Hit, vars
  <2>. QED  BY <1>1, <2>1, <2>2
<1>7. CASE ToolEnds
  <2>1. /\ pc = "tools" /\ running /\ running' = FALSE
        /\ UNCHANGED <<stream, answer, sequence, cuts, odd>>
        /\ \E i : Ended(i)
    BY <1>7, ToolEnded
  <2>2. PICK i : Ended(i)
    BY <2>1
  <2>3. i \in Item /\ i.id = item.id /\ Emit("item_finished", i)
    BY <2>2 DEF Ended
  <2>4. Changing /\ ~Changing' /\ stream = "none" /\ ~answer
    BY <1>0, <2>1 DEF ChangingOK, Changing
  <2>5. ChangingOK'
    BY <1>0, <2>1, <2>4 DEF ChangingOK
  <2>6. Hit' = Hit /\ sequence # 0
    BY <1>0, <2>1, <2>4 DEF ChangingOK, Hit
  <2>. QED  BY <1>0, <2>1, <2>3, <2>4, <2>5, <2>6, SendsChange DEF ClientInv
<1>8. CASE Silent
  <2>1. UNCHANGED <<stream, answer, running, sequence, item, log, odd>> /\ pc # "tools" /\ pc # "request"
    BY <1>8 DEF Silent, progress, StartTurn, HookFails, TurnsExceeded, Retry, BackoffCancelled,
                 TakeResponse, Return
  <2>2. ChangingOK' /\ (Changing' => Changing) /\ Hit' = Hit
    BY <1>0, <2>1 DEF ChangingOK, Changing, Hit
  <2>. QED  BY <1>0, <2>1, <2>2, SendsNothing DEF ClientInv
<1>9. CASE (Cancel /\ UNCHANGED progress) \/ UNCHANGED <<vars, progress>>
  <2>1. UNCHANGED <<pc, stream, answer, running, sequence, item, log, odd>>
    BY <1>9 DEF Cancel, vars, progress
  <2>2. ChangingOK' /\ (Changing' => Changing) /\ Hit' = Hit
    BY <1>0, <2>1 DEF ChangingOK, Changing, Hit
  <2>. QED  BY <1>0, <2>1, <2>2, SendsNothing DEF ClientInv
<1>. QED  BY <1>2, <1>3, <1>4, <1>5, <1>6, <1>7, <1>8, <1>9 DEF ProgressNext, Continue

\* Only an event out of place changes what a client was told is finished
\* (nativeProgressState.apply).
THEOREM FinishedNeverChanges == ProgressSpec => []FinishedIsFinal
<1>1. ClientInv => FinishedIsFinal
  BY DEF ClientInv
<1>. QED  BY <1>1, ClientInit, ClientStep, RunInvariantOfProgress, PTL DEF ProgressSpec

-----------------------------------------------------------------------------
(* What a client sees of the items.                                         *)

\* The view of a client that was sent l with n items, and where it comes from.
ViewIn(l, n) == [i \in 1 .. n |-> l[SelectLastInSeq(l, LAMBDA e : e.item.id = i)].item]

ShowsIn(l, i, k) == /\ k \in 1 .. Len(l)
                    /\ l[k].item.id = i
                    /\ \A j \in 1 .. Len(l) : l[j].item.id = i => j <= k

OpenIn(l, n) == {i \in 1 .. n : ViewIn(l, n)[i].status \in OpenStatus}

\* Every item has been sent.
AllShown == \A i \in 1 .. sequence : \E k \in Nat : ShowsIn(log, i, k)

\* The items that go on, or never will.
Unfinished == cuts \cup (IF Changing THEN {sequence} ELSE {})

\* The open items are those that were cut and the one that goes on changing,
\* apart from those that were hit.
CutsInv == /\ AllShown
           /\ cuts \subseteq 1 .. sequence
           /\ Changing => sequence \notin cuts
           /\ Changing /\ sequence \notin Hit => item.status \in OpenStatus
           /\ OpenIn(log, sequence) \ Hit = Unfinished \ Hit

LEMMA LastShown ==
  ASSUME NEW l, Len(l) \in Nat, NEW n \in Nat, NEW i \in 1 .. n, NEW k \in Nat, ShowsIn(l, i, k)
  PROVE  ViewIn(l, n)[i] = l[k].item
<1>. DEFINE I == {j \in 1 .. Len(l) : l[j].item.id = i}
<1>1. k \in I /\ \A j \in I : k >= j
  BY DEF ShowsIn
<1>2. \A m \in I : (\A j \in I : m >= j) => m = k
  BY <1>1
<1>. HIDE DEF I
<1>3. Max(I) = k
  BY <1>1, <1>2 DEF Max
<1>4. SelectLastInSeq(l, LAMBDA e : e.item.id = i) = k
  BY <1>1, <1>3 DEF SelectLastInSeq, I
<1>. QED  BY <1>4 DEF ViewIn

\* e is one event more, of the last of n items or of a new one.
Extends(l, n, m, e) == /\ l \in Seq(Sent) /\ n \in Nat
                       /\ \A i \in 1 .. n : \E k \in Nat : ShowsIn(l, i, k)
                       /\ m \in Nat \ {0} /\ m \in {n, n + 1}
                       /\ e \in Sent /\ e.item.id = m

\* It changes the view of its own item.
LEMMA ViewAppends ==
  ASSUME NEW l, NEW n, NEW m, NEW e, Extends(l, n, m, e)
  PROVE  /\ \A i \in 1 .. m : \E k \in Nat : ShowsIn(Append(l, e), i, k)
         /\ ViewIn(Append(l, e), m)[m] = e.item
         /\ \A i \in 1 .. n : i # m => ViewIn(Append(l, e), m)[i] = ViewIn(l, n)[i]
<1>0. /\ l \in Seq(Sent) /\ n \in Nat /\ m \in Nat \ {0} /\ (m = n \/ m = n + 1)
      /\ \A i \in 1 .. n : \E k \in Nat : ShowsIn(l, i, k)
      /\ e \in Sent /\ e.item.id = m
  BY DEF Extends
<1>a. PICK l2 : l2 = Append(l, e)
  OBVIOUS
<1>b. PICK last \in Nat : last = Len(l) + 1
  BY <1>0
<1>1. /\ Len(l2) = last /\ Len(l) = last - 1 /\ l2[last] = e
      /\ \A j \in 1 .. last - 1 : l2[j] = l[j]
  BY <1>0, <1>a, <1>b, AppendProperties
<1>2. ShowsIn(l2, m, last)
  BY <1>0, <1>1, <1>b DEF ShowsIn
<1>3. ASSUME NEW i \in 1 .. n, i # m, NEW k \in Nat, ShowsIn(l, i, k)
      PROVE  ShowsIn(l2, i, k) /\ l2[k] = l[k]
  <2>1. k \in 1 .. last - 1 /\ l[k].item.id = i /\ \A j \in 1 .. last - 1 : l[j].item.id = i => j <= k
    BY <1>1, <1>3, <1>b DEF ShowsIn
  <2>2. k \in 1 .. last /\ l2[k] = l[k]
    BY <1>1, <1>b, <2>1
  <2>3. ASSUME NEW j \in 1 .. last, l2[j].item.id = i PROVE j <= k
    <3>1. j # last
      BY <1>0, <1>1, <1>3, <2>3
    <3>2. j \in 1 .. last - 1
      BY <3>1, <1>b
    <3>. QED  BY <1>1, <2>1, <2>3, <3>2
  <2>. QED  BY <1>1, <2>1, <2>2, <2>3 DEF ShowsIn
<1>4. \A i \in 1 .. m : \E k \in Nat : ShowsIn(l2, i, k)
  BY <1>0, <1>2, <1>3
<1>5. ViewIn(l2, m)[m] = e.item
  <2>1. Len(l2) \in Nat /\ m \in 1 .. m /\ last \in Nat /\ l2[last].item = e.item
    BY <1>0, <1>1, <1>b
  <2>2. ShowsIn(l2, m, last)
    BY <1>2
  <2>. QED  BY <1>0, <2>1, <2>2, LastShown
<1>6. ASSUME NEW i \in 1 .. n, i # m PROVE ViewIn(l2, m)[i] = ViewIn(l, n)[i]
  <2>1. PICK k \in Nat : ShowsIn(l, i, k)
    BY <1>0
  <2>2. ShowsIn(l2, i, k) /\ l2[k] = l[k]
    BY <1>3, <1>6, <2>1
  <2>3. ViewIn(l, n)[i] = l[k].item
    BY <1>0, <2>1, LastShown
  <2>4. i \in 1 .. m
    BY <1>0, <1>6
  <2>a. Len(l2) \in Nat /\ m \in Nat
    BY <1>0, <1>1, <1>b
  <2>5. ViewIn(l2, m)[i] = l2[k].item
    BY <2>2, <2>4, <2>a, LastShown
  <2>. QED  BY <2>2, <2>3, <2>5
<1>. QED  BY <1>a, <1>4, <1>5, <1>6

\* ... and of the open items at most that one.
LEMMA OpenAppends ==
  ASSUME NEW l, NEW n, NEW m, NEW e, Extends(l, n, m, e)
  PROVE  OpenIn(Append(l, e), m) = IF e.item.status \in OpenStatus THEN OpenIn(l, n) \cup {m}
                                   ELSE OpenIn(l, n) \ {m}
<1>a. PICK V : V = ViewIn(Append(l, e), m)
  OBVIOUS
<1>b. PICK W : W = ViewIn(l, n)
  OBVIOUS
<1>1. V[m] = e.item /\ \A i \in 1 .. n : i # m => V[i] = W[i]
  <2>1. /\ ViewIn(Append(l, e), m)[m] = e.item
        /\ \A i \in 1 .. n : i # m => ViewIn(Append(l, e), m)[i] = ViewIn(l, n)[i]
    BY ViewAppends
  <2>. QED  BY <2>1, <1>a, <1>b, Zenon
<1>2. /\ OpenIn(Append(l, e), m) = {i \in 1 .. m : V[i].status \in OpenStatus}
      /\ OpenIn(l, n) = {i \in 1 .. n : W[i].status \in OpenStatus}
  BY <1>a, <1>b DEF OpenIn
<1>3. {i \in 1 .. m : V[i].status \in OpenStatus} =
        IF e.item.status \in OpenStatus THEN {i \in 1 .. n : W[i].status \in OpenStatus} \cup {m}
        ELSE {i \in 1 .. n : W[i].status \in OpenStatus} \ {m}
  <2>1. n \in Nat /\ m \in Nat \ {0} /\ (m = n \/ m = n + 1)
    BY DEF Extends
  <2>. QED  BY <1>1, <2>1
<1>. QED  BY <1>2, <1>3

\* The last item is seen as it is.
LEMMA LastItemSeen ==
  ASSUME ItemOK, AllShown, sequence > 0
  PROVE  ViewIn(log, sequence)[sequence] = item /\ sequence \in 1 .. sequence /\ log # <<>>
<1>1. sequence \in Nat /\ sequence \in 1 .. sequence /\ log \in Seq(Sent)
  BY DEF ItemOK
<1>2. PICK k \in Nat : ShowsIn(log, sequence, k)
  BY <1>1 DEF AllShown
<1>3. PICK n \in Nat : n = Len(log)
  BY <1>1
<1>4. n > 0
  BY <1>2, <1>3 DEF ShowsIn
<1>5. log # <<>>
  BY <1>3, <1>4, EmptySeq
<1>6. log[n].item = item /\ item.id = sequence
  BY <1>3, <1>5 DEF ItemOK
<1>7. ShowsIn(log, sequence, n)
  BY <1>3, <1>4, <1>6 DEF ShowsIn
<1>8. ViewIn(log, sequence)[sequence] = log[n].item
  BY <1>1, <1>3, <1>7, LastShown
<1>. QED  BY <1>1, <1>5, <1>6, <1>8

-----------------------------------------------------------------------------

\* What one event more does to the open items.
LEMMA EventOpens ==
  ASSUME ItemOK, AllShown,
         NEW change \in {"item_started", "item_updated", "item_finished"}, NEW i \in Item,
         Emit(change, i), i.id = sequence', sequence' # 0, sequence' \in {sequence, sequence + 1}
  PROVE  /\ AllShown' /\ item' = i
         /\ OpenIn(log', sequence') =
              IF i.status \in OpenStatus THEN OpenIn(log, sequence) \cup {sequence'}
              ELSE OpenIn(log, sequence) \ {sequence'}
<1>a. PICK e : e = [change |-> change, item |-> i]
  OBVIOUS
<1>b. PICK n \in Nat : n = sequence
  BY DEF ItemOK
<1>c. PICK m \in Nat \ {0} : m = sequence'
  BY DEF ItemOK
<1>d. PICK l \in Seq(Sent) : l = log
  BY DEF ItemOK
<1>1. e \in Sent /\ e.item = i /\ e.item.id = m /\ (m = n \/ m = n + 1)
  BY <1>a, <1>b, <1>c DEF Sent
<1>2. item' = i /\ log' = Append(l, e)
  BY <1>a, <1>d DEF Emit
<1>3. Extends(l, n, m, e)
  BY <1>1, <1>b, <1>d DEF AllShown, Extends
<1>4. \A j \in 1 .. m : \E k \in Nat : ShowsIn(Append(l, e), j, k)
  BY <1>3, ViewAppends
<1>5. OpenIn(Append(l, e), m) = IF e.item.status \in OpenStatus THEN OpenIn(l, n) \cup {m}
                                ELSE OpenIn(l, n) \ {m}
  BY <1>3, OpenAppends
<1>6. AllShown'
  BY <1>2, <1>4, <1>c DEF AllShown
<1>7. OpenIn(log', sequence') =
        IF i.status \in OpenStatus THEN OpenIn(log, sequence) \cup {m} ELSE OpenIn(log, sequence) \ {m}
  BY <1>1, <1>2, <1>5, <1>b, <1>c, <1>d
<1>. QED  BY <1>2, <1>6, <1>7, <1>c

\* A new item; one that goes on is left open only when it is hit.
LEMMA CutsNew ==
  ASSUME ItemOK, CutsInv, NEW i \in Item, Emit("item_started", i), i.id = sequence + 1,
         sequence' = i.id, i.status \in OpenStatus, cuts' = cuts, Hit \subseteq Hit', Changing',
         Changing => sequence \in Hit'
  PROVE  CutsInv'
<1>b. PICK n \in Nat : n = sequence
  BY DEF ItemOK
<1>c. PICK m \in Nat \ {0} : m = n + 1
  OBVIOUS
<1>1. sequence' = m
  BY <1>b, <1>c
<1>2. /\ AllShown' /\ item' = i
      /\ OpenIn(log', sequence') =
           IF i.status \in OpenStatus THEN OpenIn(log, sequence) \cup {sequence'}
           ELSE OpenIn(log, sequence) \ {sequence'}
  <2>1. AllShown /\ sequence' # 0 /\ sequence' \in {sequence, sequence + 1} /\ i.id = sequence'
    BY <1>b, <1>c, <1>1 DEF CutsInv
  <2>. QED  BY <2>1, EventOpens
<1>3. cuts \subseteq 1 .. n
  BY <1>b DEF CutsInv
<1>4. cuts' \subseteq 1 .. sequence' /\ sequence' \notin cuts'
  <2>1. 1 .. n \subseteq 1 .. m /\ m \notin 1 .. n
    BY <1>c
  <2>. QED  BY <2>1, <1>1, <1>3
<1>5. Unfinished' = cuts \cup {m} /\ (Unfinished = cuts \/ (Unfinished = cuts \cup {n} /\ n \in Hit'))
  BY <1>1, <1>b DEF Unfinished
<1>6. OpenIn(log', sequence') = OpenIn(log, sequence) \cup {m}
  BY <1>1, <1>2
<1>7. OpenIn(log, sequence) \ Hit = Unfinished \ Hit
  BY DEF CutsInv
<1>8. OpenIn(log', sequence') \ Hit' = Unfinished' \ Hit'
  <2>1. OpenIn(log, sequence) \ Hit' = Unfinished \ Hit'
    BY <1>7
  <2>. QED  BY <2>1, <1>5, <1>6
<1>. QED  BY <1>2, <1>4, <1>8 DEF CutsInv

\* The last item goes on or ends, or is hit.
LEMMA CutsChange ==
  ASSUME ItemOK, CutsInv, NEW change \in {"item_updated", "item_finished"}, NEW i \in Item,
         Emit(change, i), i.id = sequence, sequence # 0, sequence' = sequence, cuts' = cuts,
         Hit \subseteq Hit', Changing' => Changing,
         sequence \in Hit' \/ (Changing /\ (Changing' <=> i.status \in OpenStatus))
  PROVE  CutsInv'
<1>b. PICK m \in Nat \ {0} : m = sequence
  BY DEF ItemOK
<1>1. /\ AllShown' /\ item' = i
      /\ OpenIn(log', sequence') =
           IF i.status \in OpenStatus THEN OpenIn(log, sequence) \cup {sequence'}
           ELSE OpenIn(log, sequence) \ {sequence'}
  <2>1. AllShown /\ sequence' # 0 /\ sequence' \in {sequence, sequence + 1} /\ i.id = sequence'
    BY DEF CutsInv
  <2>2. change \in {"item_started", "item_updated", "item_finished"}
    OBVIOUS
  <2>. QED  BY <2>1, <2>2, EventOpens
<1>2. OpenIn(log, sequence) \ Hit = Unfinished \ Hit /\ cuts \subseteq 1 .. sequence
      /\ (Changing => sequence \notin cuts)
  BY DEF CutsInv
<1>3. /\ OpenIn(log, sequence) \ Hit' = Unfinished \ Hit'
      /\ \/ OpenIn(log', sequence') = OpenIn(log, sequence) \cup {m} /\ i.status \in OpenStatus
         \/ OpenIn(log', sequence') = OpenIn(log, sequence) \ {m} /\ i.status \notin OpenStatus
  <2>1. OpenIn(log, sequence) \ Hit' = Unfinished \ Hit'
    BY <1>2
  <2>. QED  BY <2>1, <1>1, <1>b
<1>4. CASE m \in Hit'
  <2>1. \A j : j # m => (j \in Unfinished' <=> j \in Unfinished)
    BY <1>b DEF Unfinished
  <2>2. OpenIn(log', sequence') \ Hit' = Unfinished' \ Hit'
    BY <2>1, <1>3, <1>4
  <2>. QED  BY <2>2, <1>1, <1>2, <1>4, <1>b DEF CutsInv
<1>5. CASE m \notin Hit'
  <2>1. Changing /\ (Changing' <=> i.status \in OpenStatus)
    BY <1>5, <1>b
  <2>2. Unfinished = cuts \cup {m} /\ m \notin cuts
        /\ Unfinished' = IF i.status \in OpenStatus THEN cuts \cup {m} ELSE cuts
    BY <2>1, <1>2, <1>b DEF Unfinished
  <2>3. OpenIn(log', sequence') \ Hit' = Unfinished' \ Hit'
    BY <2>2, <1>3
  <2>. QED  BY <2>1, <2>3, <1>1, <1>2, <1>b DEF CutsInv
<1>. QED  BY <1>4, <1>5

\* The last event again.
LEMMA CutsAgain ==
  ASSUME ItemOK, CutsInv, UNCHANGED <<sequence, stream, running, cuts, odd>>, Again
  PROVE  CutsInv'
<1>0. Hit' = Hit /\ (Changing' <=> Changing) /\ Unfinished' = Unfinished
  BY DEF Hit, Changing, Unfinished
<1>1. CASE log = <<>>
  BY <1>0, <1>1 DEF Again, CutsInv, AllShown
<1>2. CASE log # <<>>
  <2>1. PICK n \in Nat : n = Len(log)
    BY DEF ItemOK
  <2>2. n \in 1 .. Len(log)
    BY <1>2, <2>1, EmptySeq DEF ItemOK
  <2>3. PICK e : e = log[n]
    OBVIOUS
  <2>4. e \in Sent /\ e.item = item /\ item.id = sequence /\ sequence \in Nat /\ log \in Seq(Sent)
    BY <1>2, <2>1, <2>2, <2>3 DEF ItemOK
  <2>5. log' = Append(log, e) /\ item' = item
    BY <1>2, <2>1, <2>3 DEF Again, Last
  <2>6. sequence \in Nat \ {0}
    BY <2>2, <2>3, <2>4 DEF ItemOK
  <2>7. PICK m \in Nat \ {0} : m = sequence
    BY <2>6
  <2>a. PICK l \in Seq(Sent) : l = log
    BY <2>4
  <2>b. Extends(l, m, m, e)
    BY <2>4, <2>7, <2>a DEF CutsInv, AllShown, Extends
  <2>c. \A j \in 1 .. m : \E k \in Nat : ShowsIn(Append(l, e), j, k)
    BY <2>b, ViewAppends
  <2>d. OpenIn(Append(l, e), m) = IF e.item.status \in OpenStatus THEN OpenIn(l, m) \cup {m}
                                  ELSE OpenIn(l, m) \ {m}
    BY <2>b, OpenAppends
  <2>8. /\ OpenIn(log', m) = IF item.status \in OpenStatus THEN OpenIn(log, m) \cup {m} ELSE OpenIn(log, m) \ {m}
        /\ \A j \in 1 .. m : \E k \in Nat : ShowsIn(log', j, k)
    BY <2>4, <2>5, <2>a, <2>c, <2>d
  <2>9. m \in OpenIn(log, m) <=> item.status \in OpenStatus
    BY <2>6, <2>7, LastItemSeen DEF OpenIn, CutsInv
  <2>10. OpenIn(log', m) = OpenIn(log, m)
    BY <2>8, <2>9
  <2>11. AllShown'
    BY <2>7, <2>8 DEF AllShown
  <2>. QED  BY <1>0, <2>5, <2>7, <2>10, <2>11 DEF CutsInv
<1>. QED  BY <1>1, <1>2

LEMMA CutsStep == RunInv /\ ClientInv /\ CutsInv /\ [ProgressNext]_<<vars, progress>> => CutsInv'
<1>. SUFFICES ASSUME RunInv, ClientInv, CutsInv, [ProgressNext]_<<vars, progress>> PROVE CutsInv'
  OBVIOUS
<1>0. ItemOK /\ ChangingOK /\ sequence \in Nat /\ item \in Item /\ item.id = sequence /\ odd \in Seq(Nat)
  BY DEF ClientInv, ItemOK, ChangingOK
<1>1. ASSUME NEW role \in {"assistant", "tool"}, Started(role), cuts' = cuts, Hit \subseteq Hit',
             Changing', Changing => sequence \in Hit'
      PROVE  CutsInv'
  <2>1. PICK i : Begun(role, i)
    BY <1>0, <1>1, StartBegins
  <2>2. /\ i \in Item /\ i.id = sequence + 1 /\ sequence' = i.id /\ Emit("item_started", i)
        /\ i.status \in OpenStatus
    BY <2>1 DEF Begun
  <2>. QED  BY <1>0, <1>1, <2>2, CutsNew
<1>2. CASE StreamStarts
  <2>1. /\ pc = "request" /\ UNCHANGED <<running, cuts>> /\ stream' = "open"
        /\ (odd' = odd /\ stream = "none") \/ odd' = Append(odd, sequence)
        /\ Started("assistant")
    BY <1>2 DEF StreamStarts, Event, Place
  <2>2. Hit \subseteq Hit' /\ (odd' = Append(odd, sequence) => sequence \in Hit')
    BY <1>0, <2>1, OddGrows
  <2>3. ~running
    BY <1>0, <2>1 DEF ChangingOK
  <2>4. Changing' /\ (Changing => sequence \in Hit')
    BY <2>1, <2>2, <2>3 DEF Changing
  <2>. QED  BY <1>1, <2>1, <2>2, <2>4
<1>3. CASE StreamDelta \/ StreamDone \/ StreamError
  <2>1. PICK change, i : Changed(change, i)
    BY <1>3, EventChanges
  <2>2. /\ pc = "request" /\ UNCHANGED <<running, sequence, cuts>>
        /\ i \in Item /\ i.id = sequence /\ Emit(change, i)
        /\ \/ change = "item_updated" /\ i.status = item.status /\ stream' = stream
           \/ change = "item_finished" /\ i.status \notin OpenStatus /\ stream' = End
        /\ (odd' = odd /\ stream = "open") \/ odd' = Append(odd, sequence)
    BY <1>0, <2>1 DEF Changed
  <2>3. /\ Hit \subseteq Hit'
        /\ odd' = Append(odd, sequence) => sequence \in Hit'
    BY <1>0, <2>2, OddGrows
  <2>4. ~running /\ ~running' /\ (Changing => sequence > 0)
    BY <1>0, <2>2 DEF ChangingOK
  <2>5. Changing' => Changing
    BY <2>2, <2>4 DEF End, Changing
  <2>6. CASE sequence = 0
    <3>1. UNCHANGED <<item, log>> /\ ~Changing /\ ~Changing'
      BY <1>0, <2>2, <2>4, <2>5, <2>6 DEF Emit
    <3>2. Unfinished' = Unfinished
      BY <2>2, <3>1 DEF Unfinished
    <3>3. OpenIn(log', sequence') = OpenIn(log, sequence)
      BY <2>2, <3>1
    <3>4. OpenIn(log', sequence') \ Hit' = Unfinished' \ Hit'
      BY <2>3, <3>2, <3>3 DEF CutsInv
    <3>. QED  BY <2>2, <3>1, <3>4 DEF CutsInv, AllShown
  <2>7. CASE sequence # 0
    <3>1. change \in {"item_updated", "item_finished"}
      BY <2>2
    <3>2. ASSUME sequence \notin Hit' PROVE Changing /\ (Changing' <=> i.status \in OpenStatus)
      <4>1. stream = "open" /\ sequence \notin Hit /\ Changing
        BY <2>2, <2>3, <3>2 DEF Changing
      <4>2. item.status \in OpenStatus
        BY <4>1 DEF CutsInv
      <4>. QED  BY <2>2, <2>4, <4>1, <4>2 DEF Changing, End
    <3>. QED  BY <1>0, <2>2, <2>3, <2>5, <2>7, <3>1, <3>2, CutsChange
  <2>. QED  BY <2>6, <2>7
<1>4. CASE StreamOther
  <2>1. UNCHANGED <<sequence, stream, running, cuts, odd>> /\ Again
    BY <1>4 DEF StreamOther, Event
  <2>. QED  BY <1>0, <2>1, CutsAgain
<1>5. CASE StreamCloses
  <2>1. /\ UNCHANGED <<sequence, item, log, running, odd>> /\ stream' = "none" /\ pc = "request"
        /\ cuts' = IF stream = "open" THEN cuts \cup {sequence} ELSE cuts
    BY <1>5 DEF StreamCloses, ProviderAnswers, ProviderFails
  <2>2. ~Changing' /\ (Changing <=> stream = "open") /\ Hit' = Hit /\ (Changing => sequence > 0)
    BY <1>0, <2>1 DEF ChangingOK, Changing, Hit
  <2>3. Unfinished' = Unfinished
    BY <2>1, <2>2 DEF Unfinished
  <2>4. cuts' \subseteq 1 .. sequence
    <3>1. sequence > 0 => sequence \in 1 .. sequence
      BY <1>0
    <3>. QED  BY <2>1, <2>2, <3>1 DEF CutsInv
  <2>. QED  BY <2>1, <2>2, <2>3, <2>4 DEF CutsInv, AllShown
<1>6. CASE ToolStarts
  <2>1. pc = "tools" /\ ~running /\ running' = TRUE /\ UNCHANGED <<stream, cuts, odd>> /\ Started("tool")
    BY <1>6 DEF ToolStarts
  <2>2. ~Changing /\ Changing' /\ Hit' = Hit
    BY <1>0, <2>1 DEF ChangingOK, Changing, Hit
  <2>. QED  BY <1>1, <2>1, <2>2
<1>7. CASE ToolEnds
  <2>1. /\ pc = "tools" /\ running /\ running' = FALSE
        /\ UNCHANGED <<stream, answer, sequence, cuts, odd>>
        /\ \E i : Ended(i)
    BY <1>7, ToolEnded
  <2>2. PICK i : Ended(i)
    BY <2>1
  <2>3. i \in Item /\ i.id = sequence /\ Emit("item_finished", i) /\ i.status \notin OpenStatus
    BY <1>0, <2>2 DEF Ended, OpenStatus
  <2>4. Changing /\ ~Changing' /\ Hit' = Hit
    BY <1>0, <2>1 DEF ChangingOK, Changing, Hit
  <2>5. sequence # 0
    BY <1>0, <2>4 DEF ChangingOK
  <2>. QED  BY <1>0, <2>1, <2>3, <2>4, <2>5, CutsChange
<1>8. CASE Silent \/ (Cancel /\ UNCHANGED progress) \/ UNCHANGED <<vars, progress>>
  <2>1. UNCHANGED <<stream, running, sequence, item, log, cuts, odd>>
    BY <1>8 DEF Silent, progress
  <2>2. Unfinished' = Unfinished /\ Hit' = Hit /\ (Changing' <=> Changing)
    BY <2>1 DEF Unfinished, Hit, Changing
  <2>. QED  BY <2>1, <2>2 DEF CutsInv, AllShown
<1>. QED  BY <1>2, <1>3, <1>4, <1>5, <1>6, <1>7, <1>8 DEF ProgressNext, Continue

LEMMA CutsInit == ProgressInit => CutsInv
<1>. SUFFICES ASSUME ProgressInit PROVE CutsInv
  OBVIOUS
<1>1. sequence = 0 /\ ~Changing /\ cuts = {}
  BY DEF ProgressInit, Changing
<1>2. OpenIn(log, sequence) = {} /\ Unfinished = {}
  BY <1>1 DEF OpenIn, Unfinished
<1>. QED  BY <1>1, <1>2 DEF CutsInv, AllShown

\* The client waits for the rest of the items whose streams ended without done
\* or error, and of those only, where no event was out of place (complete;
\* nativeProgressState.apply).
THEOREM OnlyCutsStayOpen == ProgressSpec => []OpenWereCut
<1>1. ClientInv /\ CutsInv => OpenWereCut
  <2>. SUFFICES ASSUME CutsInv, stream = "none", ~running
                PROVE  {i \in 1 .. sequence : View[i].status \in {"streaming", "running"}} \ Hit = cuts \ Hit
    BY DEF OpenWereCut
  <2>1. View = ViewIn(log, sequence)
    BY DEF View, ViewIn
  <2>2. OpenIn(log, sequence) = {i \in 1 .. sequence : View[i].status \in {"streaming", "running"}}
    BY <2>1 DEF OpenIn, OpenStatus
  <2>3. Unfinished = cuts
    BY DEF Unfinished, Changing
  <2>. QED  BY <2>2, <2>3 DEF CutsInv
<1>2. RunInv /\ ClientInv /\ CutsInv /\ [ProgressNext]_<<vars, progress>> => (ClientInv /\ CutsInv)'
  BY ClientStep, CutsStep
<1>. QED  BY <1>1, <1>2, ClientInit, CutsInit, RunInvariantOfProgress, PTL DEF ProgressSpec

-----------------------------------------------------------------------------
(* What a client has seen in the end.                                       *)

\* The items up to i that show a message.
Showing(V, i) == {j \in 1 .. i : V[j].shows # <<>>}

\* What an item is that shows the response or the result m, if failed are the
\* results that are errors.
Told(it, m, failed) == /\ it.shows = <<m>>
                       /\ it.deltas = 0
                       /\ it.role = m.role
                       /\ it.status = IF m \in failed THEN "error" ELSE "complete"

\* The n items of V that show something show the messages of known, in order.
Seen(V, n, known, failed) ==
  /\ Cardinality(Showing(V, n)) = Len(known)
  /\ \A i \in 1 .. n :
       V[i].shows # <<>> => /\ Cardinality(Showing(V, i)) \in 1 .. Len(known)
                            /\ Told(V[i], known[Cardinality(Showing(V, i))], failed)

\* What the items of the transcript stand for.
Contents(ms) == [i \in 1 .. Len(ms) |-> Shown(ms[i])]

\* A client is shown the response of a request before the loop takes it.
Ahead == answer \/ pc = "after"

Known == IF Ahead THEN Append(Contents(messages), Reply(turn)) ELSE Contents(messages)

ItemIs == /\ Changing => /\ item.shows = <<>>
                         /\ item.role = IF running THEN "tool" ELSE "assistant"
          /\ answer => stream = "ended"

FailuresAreResults ==
  \A m \in failures : m.role = "tool" /\ \E j \in 1 .. Len(messages) : messages[j] = m

Unfailed == pc # "done" \/ outcome.status = "ok"

\* As long as no event is out of place and the run has not failed, the client
\* has seen what is known.
SeenInv == /\ FailuresAreResults
           /\ odd = <<>> => ItemIs
           /\ odd = <<>> /\ Unfailed => Seen(ViewIn(log, sequence), sequence, Known, failures)

LEMMA ShowingIsFinite ==
  ASSUME NEW V, NEW n \in Nat
  PROVE  IsFiniteSet(Showing(V, n)) /\ Showing(V, n) \subseteq 1 .. n
<1>1. 1 \in Int /\ n \in Int
  OBVIOUS
<1>2. IsFiniteSet(1 .. n)
  BY <1>1, FS_Interval
<1>3. Showing(V, n) \subseteq 1 .. n
  BY DEF Showing
<1>. QED  BY <1>2, <1>3, FS_Subset

\* What the client sees is the same, or differs in the item m, the last one or
\* a new one, which showed nothing.
Changes(V, n, W, m) == /\ m \in Nat \ {0}
                       /\ m = n \/ m = n + 1
                       /\ \A i \in 1 .. n : i # m => W[i] = V[i]
                       /\ m = n => V[m].shows = <<>>

LEMMA ShowingStays ==
  ASSUME NEW V, NEW n \in Nat, NEW W, NEW m, Changes(V, n, W, m), NEW i \in 1 .. n, i # m
  PROVE  Showing(W, i) = Showing(V, i)
<1>1. \A j \in 1 .. i : j \in 1 .. n /\ j # m
  BY DEF Changes
<1>2. \A j \in 1 .. i : W[j] = V[j]
  BY <1>1 DEF Changes
<1>. QED  BY <1>2 DEF Showing

LEMMA ShowingChanges ==
  ASSUME NEW V, NEW n \in Nat, NEW W, NEW m, Changes(V, n, W, m)
  PROVE  /\ m \notin Showing(V, n)
         /\ W[m].shows = <<>> => Showing(W, m) = Showing(V, n)
         /\ W[m].shows # <<>> => Showing(W, m) = Showing(V, n) \cup {m}
<1>2. m \notin Showing(V, n)
  BY DEF Changes, Showing
<1>3. m \in 1 .. m /\ \A j : j \in 1 .. m <=> j = m \/ (j \in 1 .. n /\ j # m)
  BY DEF Changes
<1>4. \A j \in 1 .. n : j # m => W[j] = V[j]
  BY DEF Changes
<1>5. m \in 1 .. n => V[m].shows = <<>>
  BY DEF Changes
<1>6. \A j : j \in Showing(W, m) <=> (j = m /\ W[m].shows # <<>>) \/ j \in Showing(V, n)
  BY <1>3, <1>4, <1>5 DEF Showing
<1>. QED  BY <1>2, <1>6

\* An item that shows nothing changes nothing.
LEMMA SeenNothing ==
  ASSUME NEW V, NEW n \in Nat, NEW W, NEW m, Changes(V, n, W, m), W[m].shows = <<>>,
         NEW known, NEW failed, Seen(V, n, known, failed)
  PROVE  Seen(W, m, known, failed)
<1>1. Cardinality(Showing(W, m)) = Len(known)
  BY ShowingChanges DEF Seen
<1>2. ASSUME NEW i \in 1 .. m, W[i].shows # <<>>
      PROVE  /\ Cardinality(Showing(W, i)) \in 1 .. Len(known)
             /\ Told(W[i], known[Cardinality(Showing(W, i))], failed)
  <2>1. i # m /\ i \in 1 .. n /\ n \in Nat
    BY <1>2 DEF Changes
  <2>2. Showing(W, i) = Showing(V, i)
    BY <2>1, ShowingStays
  <2>3. W[i] = V[i]
    BY <2>1 DEF Changes
  <2>. QED  BY <1>2, <2>1, <2>2, <2>3 DEF Seen
<1>. QED  BY <1>1, <1>2 DEF Seen

\* An item that shows a message shows the next one.
LEMMA SeenNext ==
  ASSUME NEW V, NEW n \in Nat, NEW W, NEW m, Changes(V, n, W, m),
         NEW known \in Seq(Content), NEW failed, Seen(V, n, known, failed),
         NEW x \in Content, NEW now, Told(W[m], x, now),
         \A j \in 1 .. Len(known) : known[j] \in now <=> known[j] \in failed
  PROVE  Seen(W, m, Append(known, x), now)
<1>a. PICK longer : longer = Append(known, x)
  OBVIOUS
<1>b. PICK l \in Nat : l = Len(known)
  OBVIOUS
<1>1. Len(longer) = l + 1 /\ longer[l + 1] = x /\ \A j \in 1 .. l : longer[j] = known[j]
  BY <1>a, <1>b, AppendProperties
<1>2. W[m].shows # <<>>
  BY DEF Told
<1>3. Showing(W, m) = Showing(V, n) \cup {m} /\ m \notin Showing(V, n) /\ IsFiniteSet(Showing(V, n))
  <2>1. IsFiniteSet(Showing(V, n))
    BY ShowingIsFinite
  <2>2. Showing(W, m) = Showing(V, n) \cup {m} /\ m \notin Showing(V, n)
    BY <1>2, ShowingChanges
  <2>. QED  BY <2>1, <2>2
<1>4. Cardinality(Showing(W, m)) = l + 1
  <2>1. Cardinality(Showing(V, n)) = l
    BY <1>b DEF Seen
  <2>. QED  BY <1>3, <2>1, FS_AddElement
<1>5. ASSUME NEW i \in 1 .. m, W[i].shows # <<>>
      PROVE  /\ Cardinality(Showing(W, i)) \in 1 .. l + 1
             /\ Told(W[i], longer[Cardinality(Showing(W, i))], now)
  <2>1. CASE i = m
    BY <2>1, <1>1, <1>4
  <2>2. CASE i # m
    <3>1. i \in 1 .. n
      BY <2>2 DEF Changes
    <3>2. W[i] = V[i]
      BY <2>2, <3>1 DEF Changes
    <3>7. Showing(W, i) = Showing(V, i)
      BY <2>2, <3>1, ShowingStays
    <3>3. PICK r : r = Cardinality(Showing(V, i))
      OBVIOUS
    <3>4. r \in 1 .. l /\ Told(V[i], known[r], failed)
      BY <1>5, <1>b, <3>1, <3>2, <3>7, <3>3 DEF Seen
    <3>5. Told(V[i], known[r], now)
      BY <1>b, <3>4 DEF Told
    <3>6. longer[r] = known[r] /\ r \in 1 .. l + 1
      BY <1>1, <3>4
    <3>. QED  BY <3>2, <3>3, <3>5, <3>6, <3>7
  <2>. QED  BY <2>1, <2>2
<1>6. Seen(W, m, longer, now)
  BY <1>1, <1>4, <1>5 DEF Seen
<1>. QED  BY <1>6, <1>a

\* Only what is seen of the items counts.
LEMMA SeenSame ==
  ASSUME NEW V, NEW n \in Nat, NEW W, \A i \in 1 .. n : W[i] = V[i],
         NEW known, NEW failed, Seen(V, n, known, failed)
  PROVE  Seen(W, n, known, failed)
<1>1. ASSUME NEW i \in 0 .. n PROVE Showing(W, i) = Showing(V, i)
  <2>1. \A j \in 1 .. i : W[j] = V[j]
    OBVIOUS
  <2>. QED  BY <2>1 DEF Showing
<1>2. Cardinality(Showing(W, n)) = Len(known)
  BY <1>1 DEF Seen
<1>. QED  BY <1>1, <1>2 DEF Seen

\* What an event does to the view: it changes the last item, which shows
\* nothing yet, or begins a new one.
LEMMA SendsOne ==
  ASSUME ItemOK, ChangingOK, AllShown, ItemIs,
         NEW change \in {"item_started", "item_updated", "item_finished"},
         NEW i \in Item, i.id = sequence',
         sequence' \in {sequence, sequence + 1}, sequence' = sequence => Changing,
         Emit(change, i)
  PROVE  /\ Changes(ViewIn(log, sequence), sequence, ViewIn(log', sequence'), sequence')
         /\ ViewIn(log', sequence')[sequence'] = i
         /\ item' = i
         /\ sequence \in Nat
<1>a. PICK e : e = [change |-> change, item |-> i]
  OBVIOUS
<1>b. PICK n \in Nat : n = sequence
  BY DEF ItemOK
<1>c. PICK m \in Nat \ {0} : m = sequence'
  BY DEF ItemOK, ChangingOK
<1>d. PICK l \in Seq(Sent) : l = log
  BY DEF ItemOK
<1>1. e \in Sent /\ e.item = i /\ e.item.id = m /\ (m = n \/ m = n + 1) /\ i.id # 0
  BY <1>a, <1>b, <1>c DEF Sent
<1>2. item' = i /\ log' = Append(l, e)
  BY <1>a, <1>d, <1>1 DEF Emit
<1>e. Extends(l, n, m, e)
  BY <1>1, <1>b, <1>d DEF AllShown, Extends
<1>5. PICK V : V = ViewIn(l, n)
  OBVIOUS
<1>6. PICK W : W = ViewIn(Append(l, e), m)
  OBVIOUS
<1>3. W[m] = e.item /\ \A j \in 1 .. n : j # m => W[j] = V[j]
  <2>1. /\ ViewIn(Append(l, e), m)[m] = e.item
        /\ \A j \in 1 .. n : j # m => ViewIn(Append(l, e), m)[j] = ViewIn(l, n)[j]
    BY <1>e, ViewAppends
  <2>. QED  BY <2>1, <1>5, <1>6, Zenon
<1>8. V = ViewIn(log, sequence) /\ W = ViewIn(log', sequence')
  BY <1>2, <1>5, <1>6, <1>b, <1>c, <1>d
<1>4. ASSUME m = n PROVE V[m].shows = <<>>
  <2>1. Changing /\ sequence > 0
    <3>1. sequence' = sequence
      BY <1>4, <1>b, <1>c
    <3>. QED  BY <3>1 DEF ChangingOK
  <2>2. V[sequence] = item /\ item.shows = <<>>
    BY <1>8, <2>1, LastItemSeen DEF ItemIs
  <2>. QED  BY <2>2, <1>4, <1>b
<1>7. Changes(V, n, W, m) /\ W[m] = i
  BY <1>1, <1>3, <1>4 DEF Changes
<1>. QED  BY <1>2, <1>7, <1>8, <1>b, <1>c

\* An event that is sent again leaves the view alone.
LEMMA SendsSame ==
  ASSUME ItemOK, AllShown, UNCHANGED sequence, Again
  PROVE  \A i \in 1 .. sequence : ViewIn(log', sequence)[i] = ViewIn(log, sequence)[i]
<1>1. CASE log = <<>>
  BY <1>1 DEF Again
<1>2. CASE log # <<>>
  <2>1. PICK l \in Seq(Sent) : l = log
    BY DEF ItemOK
  <2>2. PICK k : k = Len(l)
    OBVIOUS
  <2>3. k \in 1 .. Len(l)
    BY <1>2, <2>1, <2>2, EmptySeq
  <2>4. PICK e : e = l[k]
    OBVIOUS
  <2>5. e \in Sent /\ e.item = item /\ item.id = sequence /\ sequence \in Nat /\ sequence \in 1 .. sequence
    BY <1>2, <2>1, <2>2, <2>3, <2>4 DEF ItemOK
  <2>6. log' = Append(l, e)
    BY <1>2, <2>1, <2>2, <2>4 DEF Again, Last
  <2>7. PICK n \in Nat \ {0} : n = sequence
    BY <2>5
  <2>8. Extends(l, n, n, e)
    BY <2>1, <2>5, <2>7 DEF AllShown, Extends
  <2>10. /\ ViewIn(Append(l, e), n)[n] = e.item
         /\ \A j \in 1 .. n : j # n => ViewIn(Append(l, e), n)[j] = ViewIn(l, n)[j]
    BY <2>8, ViewAppends
  <2>11. ViewIn(l, n)[n] = item
    <3>1. ViewIn(log, sequence)[sequence] = item
      BY <2>5, LastItemSeen
    <3>. QED  BY <3>1, <2>1, <2>7
  <2>12. \A j \in 1 .. n : ViewIn(Append(l, e), n)[j] = ViewIn(l, n)[j]
    BY <2>5, <2>10, <2>11
  <2>. QED  BY <2>1, <2>6, <2>7, <2>12
<1>. QED  BY <1>1, <1>2

-----------------------------------------------------------------------------

LEMMA ResultIsNew ==
  ASSUME RunInv, pc = "tools", NEW j \in 1 .. Len(messages)
  PROVE  messages[j] # ToolResult(turn, CallIndex) /\ Shown(messages[j]) # ToolResult(turn, CallIndex)
<1>1. PICK c : c = CallIndex
  OBVIOUS
<1>2. c \in Nat /\ turn \in Nat
  BY <1>1, NextCallIsNat DEF RunInv, TypeOK
<1>3. messages[j].role = "tool" =>
        messages[j].turn < turn \/ (messages[j].turn = turn /\ messages[j].call < c)
  BY <1>1 DEF RunInv, ResultsBehind
<1>4. \A x : x = ToolResult(turn, c) => x.role = "tool" /\ x.turn = turn /\ x.call = c
  BY DEF ToolResult
<1>5. messages[j] # ToolResult(turn, CallIndex)
  BY <1>1, <1>2, <1>3, <1>4
<1>6. Shown(messages[j]) = messages[j] \/ Shown(messages[j]).role = "assistant"
  BY DEF Shown, Reply
<1>7. ToolResult(turn, CallIndex).role = "tool"
  BY DEF ToolResult
<1>. QED  BY <1>5, <1>6, <1>7

LEMMA ContentsAppend ==
  ASSUME NEW s \in Seq(Entry)
  PROVE  /\ Contents(s) \in Seq(Content) /\ Len(Contents(s)) = Len(s)
         /\ \A i \in 1 .. Len(s) : Contents(s)[i] = Shown(s[i])
         /\ \A m \in Entry : Contents(Append(s, m)) = Append(Contents(s), Shown(m))
<1>1. \A m \in Entry : Shown(m) \in Content
  BY DEF Entry, Content, Shown, Reply
<1>2. PICK n \in Nat : n = Len(s)
  OBVIOUS
<1>3. \A i \in 1 .. n : s[i] \in Entry
  BY <1>2
<1>4. PICK t : t = Contents(s)
  OBVIOUS
<1>5. t = [i \in 1 .. n |-> Shown(s[i])]
  BY <1>2, <1>4 DEF Contents
<1>6. t \in Seq(Content) /\ Len(t) = n /\ \A i \in 1 .. n : t[i] = Shown(s[i])
  BY <1>1, <1>3, <1>5
<1>7. ASSUME NEW m \in Entry PROVE Contents(Append(s, m)) = Append(t, Shown(m))
  <2>1. PICK u : u = Append(s, m)
    OBVIOUS
  <2>2. Len(u) = n + 1 /\ u[n + 1] = m /\ \A i \in 1 .. n : u[i] = s[i]
    BY <1>2, <2>1, AppendProperties
  <2>3. PICK x \in Content : x = Shown(m)
    BY <1>1
  <2>4. PICK v : v = Append(t, x)
    OBVIOUS
  <2>5. v \in Seq(Content) /\ Len(v) = n + 1 /\ v[n + 1] = x /\ \A i \in 1 .. n : v[i] = t[i]
    BY <1>6, <2>4, AppendProperties
  <2>6. Contents(u) = [i \in 1 .. n + 1 |-> Shown(u[i])]
    BY <2>2 DEF Contents
  <2>7. \A i \in 1 .. n + 1 : v[i] = Shown(u[i])
    <3>1. \A i \in 1 .. n + 1 : i \in 1 .. n \/ i = n + 1
      OBVIOUS
    <3>. QED  BY <3>1, <1>6, <2>2, <2>3, <2>5, Zenon
  <2>8. v = [i \in 1 .. n + 1 |-> v[i]]
    BY <2>5
  <2>9. [i \in 1 .. n + 1 |-> v[i]] = [i \in 1 .. n + 1 |-> Shown(u[i])]
    BY <2>7
  <2>. QED  BY <2>1, <2>3, <2>4, <2>6, <2>8, <2>9, Zenon
<1>. QED  BY <1>2, <1>4, <1>6, <1>7, Zenon

\* The results that are errors stay, and the transcript only grows.
LEMMA FailuresStep == RunInv /\ ClientInv /\ FailuresAreResults /\ [ProgressNext]_<<vars, progress>>
                        => FailuresAreResults'
<1>. SUFFICES ASSUME RunInv, ClientInv, FailuresAreResults, [ProgressNext]_<<vars, progress>>
              PROVE  FailuresAreResults'
  OBVIOUS
<1>0. messages \in Seq(Entry) /\ turn \in Nat
  BY DEF RunInv, TypeOK
<1>1. ASSUME NEW m \in Entry, messages' = Append(messages, m),
             failures' = failures \/ (failures' = failures \cup {m} /\ m.role = "tool")
      PROVE  FailuresAreResults'
  <2>1. PICK n \in Nat : n = Len(messages)
    BY <1>0
  <2>2. /\ Len(messages') = n + 1 /\ messages'[n + 1] = m
        /\ \A j \in 1 .. n : messages'[j] = messages[j]
    BY <1>0, <1>1, <2>1, AppendProperties
  <2>. SUFFICES ASSUME NEW x \in failures'
                PROVE  x.role = "tool" /\ \E j \in 1 .. n + 1 : messages'[j] = x
    BY <2>2 DEF FailuresAreResults
  <2>3. CASE x \in failures
    <3>1. PICK j \in 1 .. n : messages[j] = x
      BY <2>1, <2>3 DEF FailuresAreResults
    <3>2. j \in 1 .. n + 1 /\ messages'[j] = x
      BY <2>2, <3>1
    <3>. QED  BY <2>3, <3>2 DEF FailuresAreResults
  <2>4. CASE x \notin failures
    <3>1. x = m /\ m.role = "tool"
      BY <1>1, <2>4
    <3>2. n + 1 \in 1 .. n + 1
      OBVIOUS
    <3>. QED  BY <2>2, <3>1, <3>2
  <2>. QED  BY <2>3, <2>4
<1>2. CASE ToolEnds
  <2>1. pc = "tools" /\ messages' = Append(messages, ToolResult(turn, CallIndex)) /\ \E i : Ended(i)
    BY <1>2, ToolEnded
  <2>2. PICK x : x = ToolResult(turn, CallIndex)
    OBVIOUS
  <2>3. x \in Entry /\ x.role = "tool"
    BY <1>0, <2>1, <2>2, NextCallIsNat, EntryFields
  <2>4. failures' = failures \/ failures' = failures \cup {x}
    BY <2>1, <2>2 DEF Ended
  <2>. QED  BY <1>1, <2>1, <2>2, <2>3, <2>4
<1>3. CASE Silent /\ TakeResponse
  <2>1. PICK p \in Nat : p = pending'
    BY <1>3, LoopAssumption DEF TakeResponse
  <2>2. messages' = Append(messages, Assistant(turn, p)) /\ failures' = failures
    BY <1>3, <2>1 DEF TakeResponse, Silent, progress
  <2>3. Assistant(turn, p) \in Entry
    BY <1>0, EntryFields
  <2>. QED  BY <1>1, <2>2, <2>3
<1>4. CASE UNCHANGED <<messages, failures>>
  BY <1>4 DEF FailuresAreResults
<1>5. CASE StreamStarts \/ StreamDelta \/ StreamDone \/ StreamError \/ StreamOther \/ ToolStarts
  BY <1>4, <1>5 DEF StreamStarts, StreamDelta, StreamDone, StreamError, StreamOther, ToolStarts, Event, vars
<1>6. CASE StreamCloses
  BY <1>4, <1>6 DEF StreamCloses, ProviderAnswers, ProviderFails
<1>7. CASE Silent /\ ~TakeResponse
  BY <1>4, <1>7 DEF Silent, progress, StartTurn, HookFails, TurnsExceeded, Retry, BackoffCancelled
<1>8. CASE (Cancel /\ UNCHANGED progress) \/ UNCHANGED <<vars, progress>>
  BY <1>4, <1>8 DEF Cancel, vars, progress
<1>. QED  BY <1>2, <1>3, <1>5, <1>6, <1>7, <1>8 DEF ProgressNext, Continue

\* What is seen as long as no event is out of place.
ViewInv == /\ ItemIs
           /\ Unfailed => Seen(ViewIn(log, sequence), sequence, Known, failures)

\* Nothing is sent.
LEMMA SeenQuiet ==
  ASSUME ViewInv, UNCHANGED <<sequence, log, failures>>, ItemIs',
         Unfailed' => Unfailed /\ Known' = Known
  PROVE  ViewInv'
BY DEF ViewInv

\* An item begins or goes on, or ends without a message.
LEMMA SeenWithout ==
  ASSUME ItemOK, ChangingOK, AllShown, ViewInv, Unfailed,
         NEW change \in {"item_started", "item_updated", "item_finished"},
         NEW i \in Item, i.id = sequence', i.shows = <<>>,
         sequence' \in {sequence, sequence + 1}, sequence' = sequence => Changing,
         Emit(change, i), ~Ahead, ~Ahead', UNCHANGED <<messages, failures>>,
         Changing' => i.role = IF running' THEN "tool" ELSE "assistant"
  PROVE  ViewInv'
<1>1. ItemIs /\ Seen(ViewIn(log, sequence), sequence, Contents(messages), failures)
  BY DEF ViewInv, Known
<1>2. /\ Changes(ViewIn(log, sequence), sequence, ViewIn(log', sequence'), sequence')
      /\ ViewIn(log', sequence')[sequence'] = i
      /\ item' = i
      /\ sequence \in Nat
  BY <1>1, SendsOne
<1>3. PICK V : V = ViewIn(log, sequence)
  OBVIOUS
<1>4. PICK W : W = ViewIn(log', sequence')
  OBVIOUS
<1>5. PICK n \in Nat : n = sequence
  BY <1>2
<1>6. PICK m : m = sequence'
  OBVIOUS
<1>7. PICK known : known = Contents(messages)
  OBVIOUS
<1>8. Changes(V, n, W, m) /\ W[m].shows = <<>> /\ Seen(V, n, known, failures)
  BY <1>1, <1>2, <1>3, <1>4, <1>5, <1>6, <1>7
<1>9. Seen(W, m, known, failures)
  BY <1>8, SeenNothing
<1>a. Known' = known
  <2>1. Contents(messages') = known
    BY <1>7
  <2>. QED  BY <2>1 DEF Known
<1>10. Seen(ViewIn(log, sequence), sequence, Known, failures)'
  BY <1>4, <1>6, <1>9, <1>a
<1>11. ItemIs'
  BY <1>2 DEF ItemIs, Ahead
<1>. QED  BY <1>10, <1>11 DEF ViewInv

\* An item ends with x.
LEMMA SeenMessage ==
  ASSUME ItemOK, ChangingOK, AllShown, ViewInv, Unfailed, messages \in Seq(Entry),
         NEW i \in Item, i.id = sequence, sequence' = sequence, Changing, ~Changing',
         Emit("item_finished", i), ~Ahead, NEW x \in Content, Told(i, x, failures'),
         \A j \in 1 .. Len(messages) : Shown(messages[j]) \in failures' <=> Shown(messages[j]) \in failures,
         ItemIs', Known' = Append(Contents(messages), x)
  PROVE  ViewInv'
<1>1. ItemIs /\ Seen(ViewIn(log, sequence), sequence, Contents(messages), failures)
  BY DEF ViewInv, Known
<1>2. /\ Changes(ViewIn(log, sequence), sequence, ViewIn(log', sequence'), sequence')
      /\ ViewIn(log', sequence')[sequence'] = i
      /\ item' = i
      /\ sequence \in Nat
  <2>1. i.id = sequence' /\ sequence' \in {sequence, sequence + 1}
    OBVIOUS
  <2>2. "item_finished" \in {"item_started", "item_updated", "item_finished"}
    OBVIOUS
  <2>. QED  BY <1>1, <2>1, <2>2, SendsOne
<1>3. PICK V : V = ViewIn(log, sequence)
  OBVIOUS
<1>4. PICK W : W = ViewIn(log', sequence')
  OBVIOUS
<1>5. PICK n \in Nat : n = sequence
  BY <1>2
<1>6. PICK m : m = sequence'
  OBVIOUS
<1>7. PICK known : known = Contents(messages)
  OBVIOUS
<1>8. Changes(V, n, W, m) /\ Told(W[m], x, failures') /\ Seen(V, n, known, failures)
  BY <1>1, <1>2, <1>3, <1>4, <1>5, <1>6, <1>7
<1>a. PICK now : now = failures'
  OBVIOUS
<1>b. PICK failed : failed = failures
  OBVIOUS
<1>c. Told(W[m], x, now) /\ Seen(V, n, known, failed)
  BY <1>8, <1>a, <1>b
<1>e. known \in Seq(Content) /\ Len(known) = Len(messages)
      /\ \A j \in 1 .. Len(messages) : known[j] = Shown(messages[j])
  BY <1>7, ContentsAppend
<1>d. \A j \in 1 .. Len(known) : known[j] \in now <=> known[j] \in failed
  BY <1>e, <1>a, <1>b
<1>9. Seen(W, m, Append(known, x), now)
  BY <1>8, <1>c, <1>d, <1>e, SeenNext
<1>10. Known' = Append(known, x)
  BY <1>7
<1>11. Seen(ViewIn(log, sequence), sequence, Known, failures)'
  BY <1>4, <1>6, <1>9, <1>10, <1>a
<1>. QED  BY <1>11 DEF ViewInv

LEMMA SeenBegins ==
  ASSUME ItemOK, ChangingOK, AllShown, ViewInv, NEW role \in {"assistant", "tool"}, Started(role),
         pc # "done", ~Ahead, ~Ahead', UNCHANGED <<messages, failures>>,
         role = IF running' THEN "tool" ELSE "assistant"
  PROVE  ViewInv'
<1>1. PICK i : Begun(role, i)
  BY StartBegins
<1>2. /\ i \in Item /\ i.id = sequence + 1 /\ sequence' = i.id /\ Emit("item_started", i)
      /\ i.role = role /\ i.shows = <<>>
  BY <1>1 DEF Begun
<1>3. sequence' \in {sequence, sequence + 1} /\ sequence' # sequence /\ i.id = sequence'
  BY <1>2 DEF ItemOK
<1>4. "item_started" \in {"item_started", "item_updated", "item_finished"} /\ Unfailed
  BY DEF Unfailed
<1>. QED  BY <1>2, <1>3, <1>4, SeenWithout


\* Before an event out of place there was none.
LEMMA OddBefore ==
  ASSUME ChangingOK, sequence \in Nat, [ProgressNext]_<<vars, progress>>, odd' = <<>>
  PROVE  odd = <<>> /\ odd' = odd
<1>0. odd \in Seq(Nat)
  BY DEF ChangingOK
<1>1. odd' = odd \/ odd' = Append(odd, sequence)
  <2>1. CASE StreamStarts \/ StreamDelta \/ StreamDone \/ StreamError
    BY <2>1 DEF StreamStarts, StreamDelta, StreamDone, StreamError, Place
  <2>2. CASE StreamOther \/ StreamCloses \/ ToolStarts
    BY <2>2 DEF StreamOther, StreamCloses, ToolStarts
  <2>3. CASE ToolEnds
    BY <2>3 DEF ToolEnds
  <2>4. CASE Silent \/ (Cancel /\ UNCHANGED progress) \/ UNCHANGED <<vars, progress>>
    BY <2>4 DEF Silent, progress
  <2>. QED  BY <2>1, <2>2, <2>3, <2>4 DEF ProgressNext, Continue
<1>2. odd' # Append(odd, sequence)
  BY <1>0, <1>1, OddGrows
<1>. QED  BY <1>1, <1>2

LEMMA ViewStep == RunInv /\ ClientInv /\ AllShown /\ FailuresAreResults /\ ViewInv /\ odd' = odd
                    /\ odd = <<>> /\ [ProgressNext]_<<vars, progress>> => ViewInv'
<1>. SUFFICES ASSUME RunInv, ClientInv, AllShown, FailuresAreResults, ViewInv, odd' = odd, odd = <<>>,
                     [ProgressNext]_<<vars, progress>>
              PROVE  ViewInv'
  OBVIOUS
<1>0. /\ ItemOK /\ ChangingOK /\ sequence \in Nat /\ item \in Item /\ item.id = sequence
      /\ ItemIs /\ messages \in Seq(Entry) /\ turn \in Nat
  BY DEF ClientInv, ItemOK, ViewInv, RunInv, TypeOK
<1>p. odd # Append(odd, sequence)
  <2>1. PICK s : s = Append(odd, sequence)
    OBVIOUS
  <2>2. odd \in Seq(Nat) /\ Len(odd) = 0
    BY DEF ChangingOK
  <2>3. Len(s) = 1
    BY <1>0, <2>1, <2>2, AppendProperties
  <2>. QED  BY <2>1, <2>2, <2>3
<1>1. CASE StreamStarts
  <2>1. /\ pc = "request" /\ stream = "none" /\ stream' = "open" /\ pc' = pc /\ running' = running
        /\ UNCHANGED <<messages, failures, answer>> /\ Started("assistant")
    BY <1>1, <1>p DEF StreamStarts, Event, Place, vars
  <2>2. ~running
    BY <1>0, <2>1 DEF ChangingOK
  <2>3. ~Ahead /\ ~Ahead'
    BY <1>0, <2>1 DEF Ahead, ItemIs
  <2>. QED  BY <1>0, <2>1, <2>2, <2>3, SeenBegins
<1>2. CASE StreamDelta
  <2>1. /\ pc = "request" /\ stream = "open" /\ stream' = "open" /\ pc' = pc /\ running' = running
        /\ UNCHANGED <<messages, failures, sequence, answer>> /\ Updated
    BY <1>2, <1>p DEF StreamDelta, Event, Place, vars
  <2>2. PICK n \in Nat : n = item.deltas + 1
    <3>1. PICK d \in Nat : d = item.deltas
      BY <1>0 DEF Item
    <3>. QED  BY <3>1
  <2>3. PICK i : i = [item EXCEPT !.deltas = n]
    OBVIOUS
  <2>4. i \in Item /\ i.id = item.id /\ i.shows = item.shows /\ i.role = item.role
    BY <1>0, <2>3, ItemUpdated
  <2>5. Emit("item_updated", i)
    BY <2>1, <2>2, <2>3 DEF Updated
  <2>6. Changing /\ ~Ahead /\ ~Ahead' /\ Unfailed
    BY <1>0, <2>1 DEF Changing, Ahead, Unfailed, ItemIs
  <2>7. i.shows = <<>> /\ i.role = IF running' THEN "tool" ELSE "assistant"
    BY <1>0, <2>1, <2>4, <2>6 DEF ItemIs
  <2>. QED  BY <1>0, <2>1, <2>4, <2>5, <2>6, <2>7, SeenWithout
<1>3. CASE StreamOther
  <2>1. UNCHANGED <<vars, stream, running, sequence, failures, answer>> /\ Again /\ pc = "request"
    BY <1>3 DEF StreamOther, Event
  <2>2. \A j \in 1 .. sequence : ViewIn(log', sequence)[j] = ViewIn(log, sequence)[j]
    BY <1>0, <2>1, SendsSame
  <2>3. PICK V : V = ViewIn(log, sequence)
    OBVIOUS
  <2>4. PICK W : W = ViewIn(log', sequence)
    OBVIOUS
  <2>5. PICK n \in Nat : n = sequence
    BY <1>0
  <2>6. PICK known : known = Known
    OBVIOUS
  <2>7. item' = item
    BY <2>1 DEF Again
  <2>8. Known' = known /\ ItemIs'
    BY <1>0, <2>1, <2>6, <2>7 DEF Known, Contents, Ahead, ItemIs, Changing, vars
  <2>9. Seen(V, n, known, failures)
    BY <2>1, <2>3, <2>5, <2>6 DEF ViewInv, Unfailed
  <2>10. \A j \in 1 .. n : W[j] = V[j]
    BY <2>2, <2>3, <2>4, <2>5
  <2>11. Seen(W, n, known, failures)
    BY <2>9, <2>10, SeenSame
  <2>12. Seen(ViewIn(log, sequence), sequence, Known, failures)'
    BY <2>1, <2>4, <2>5, <2>8, <2>11
  <2>. QED  BY <2>8, <2>12 DEF ViewInv
<1>4. CASE StreamDone
  <2>1. /\ pc = "request" /\ stream = "open" /\ stream' = "ended" /\ pc' = pc /\ running' = running
        /\ UNCHANGED <<messages, failures, sequence, turn>> /\ answer'
        /\ Finished("complete", Reply(turn))
    BY <1>4, <1>p DEF StreamDone, Event, Place, End, vars
  <2>2. PICK x : x = Reply(turn)
    OBVIOUS
  <2>3. x \in Content /\ x.role = "assistant"
    BY <1>0, <2>2, ContentFields
  <2>4. PICK shows : shows = <<x>>
    OBVIOUS
  <2>5. shows \in Seq(Content)
    BY <2>3, <2>4
  <2>a. PICK status \in {"complete", "error"} : status = "complete"
    OBVIOUS
  <2>6. PICK i : i = Final(item, status, shows)
    OBVIOUS
  <2>7. /\ i \in Item /\ i.id = item.id /\ i.status = status
        /\ i.shows = shows /\ i.role = item.role /\ i.deltas = 0
    BY <1>0, <2>5, <2>6, ItemFinished
  <2>8. Emit("item_finished", i)
    BY <2>1, <2>2, <2>4, <2>6, <2>a DEF Finished, Final
  <2>9. ~running /\ Changing /\ ~Changing' /\ ~Ahead /\ Ahead' /\ Unfailed
    BY <1>0, <2>1 DEF ChangingOK, Changing, Ahead, Unfailed, ItemIs
  <2>10. x \notin failures
    BY <2>3 DEF FailuresAreResults
  <2>11. Told(i, x, failures')
    BY <1>0, <2>1, <2>3, <2>4, <2>7, <2>9, <2>10, <2>a DEF ItemIs, Told
  <2>12. ItemIs'
    BY <2>1, <2>9 DEF ItemIs
  <2>13. Known' = Append(Contents(messages), x)
    <3>1. Contents(messages') = Contents(messages) /\ Reply(turn') = x
      BY <2>1, <2>2
    <3>. QED  BY <2>9, <3>1 DEF Known
  <2>14. \A j \in 1 .. Len(messages) : Shown(messages[j]) \in failures' <=> Shown(messages[j]) \in failures
    BY <2>1
  <2>. QED  BY <1>0, <2>1, <2>3, <2>7, <2>8, <2>9, <2>11, <2>12, <2>13, <2>14, SeenMessage
<1>5. CASE StreamError
  <2>1. /\ pc = "request" /\ stream = "open" /\ stream' = "ended" /\ pc' = pc /\ running' = running
        /\ UNCHANGED <<messages, failures, sequence>> /\ ~answer' /\ Failed
    BY <1>5, <1>p DEF StreamError, Event, Place, End, vars
  <2>2. PICK i : i = [item EXCEPT !.status = "error"]
    OBVIOUS
  <2>3. i \in Item /\ i.id = item.id /\ i.shows = item.shows
    BY <1>0, <2>2, ItemFailed
  <2>4. Emit("item_finished", i)
    BY <2>1, <2>2 DEF Failed
  <2>5. ~running /\ Changing /\ ~Changing' /\ ~Ahead /\ ~Ahead' /\ Unfailed
    BY <1>0, <2>1 DEF ChangingOK, Changing, Ahead, Unfailed, ItemIs
  <2>6. i.shows = <<>>
    BY <1>0, <2>3, <2>5 DEF ItemIs
  <2>7. sequence' \in {sequence, sequence + 1} /\ i.id = sequence'
    BY <1>0, <2>1, <2>3
  <2>8. "item_finished" \in {"item_started", "item_updated", "item_finished"}
    OBVIOUS
  <2>. QED  BY <1>0, <2>1, <2>3, <2>4, <2>5, <2>6, <2>7, <2>8, SeenWithout
<1>6. CASE StreamCloses
  <2>1. /\ pc = "request" /\ stream' = "none" /\ answer' = FALSE
        /\ UNCHANGED <<running, sequence, item, log, failures, messages, turn>>
    BY <1>6 DEF StreamCloses, ProviderAnswers, ProviderFails
  <2>2. ~running /\ ~Changing' /\ Unfailed
    BY <1>0, <2>1 DEF ChangingOK, Changing, Unfailed
  <2>3. ItemIs'
    BY <2>1, <2>2 DEF ItemIs
  <2>4. Ahead' <=> Ahead
    <3>1. CASE answer
      BY <1>6, <3>1 DEF StreamCloses, ProviderAnswers, Ahead
    <3>2. CASE ~answer
      BY <1>6, <2>1, <3>2 DEF StreamCloses, ProviderFails, Return, Ahead
    <3>. QED  BY <3>1, <3>2
  <2>5. Known' = Known
    <3>1. Contents(messages') = Contents(messages) /\ Reply(turn') = Reply(turn)
      BY <2>1
    <3>. QED  BY <2>4, <3>1 DEF Known
  <2>. QED  BY <2>1, <2>2, <2>3, <2>5, SeenQuiet
<1>7. CASE ToolStarts
  <2>1. /\ pc = "tools" /\ running' = TRUE /\ pc' = pc /\ UNCHANGED <<stream, answer>>
        /\ UNCHANGED <<messages, failures>> /\ Started("tool")
    BY <1>7 DEF ToolStarts, vars
  <2>2. ~Ahead /\ ~Ahead'
    BY <1>0, <2>1 DEF Ahead, ChangingOK
  <2>. QED  BY <1>0, <2>1, <2>2, SeenBegins
<1>8. CASE ToolEnds
  <2>1. /\ pc = "tools" /\ running /\ running' = FALSE
        /\ UNCHANGED <<stream, answer, sequence, cuts, odd>>
        /\ messages' = Append(messages, ToolResult(turn, CallIndex)) /\ pc' \in {"tools", "turn"}
        /\ \E i : Ended(i)
    BY <1>0, <1>8, ToolEnded
  <2>2. PICK x : x = ToolResult(turn, CallIndex)
    OBVIOUS
  <2>a. CallIndex \in Nat
    BY <2>1, NextCallIsNat
  <2>3. x \in Entry /\ x \in Content /\ x.role = "tool" /\ Shown(x) = x
    BY <1>0, <2>2, <2>a, EntryFields, ContentFields
  <2>4. PICK i : Ended(i)
    BY <2>1
  <2>5. /\ i \in Item /\ i.id = item.id /\ i.status \in {"complete", "error"}
        /\ i.shows = <<x>> /\ i.role = item.role /\ i.deltas = 0
        /\ failures' = failures \cup (IF i.status = "error" THEN {x} ELSE {})
        /\ Emit("item_finished", i)
    BY <2>2, <2>4 DEF Ended
  <2>6. \A j \in 1 .. Len(messages) : messages[j] # x /\ Shown(messages[j]) # x
    BY <2>1, <2>2, ResultIsNew
  <2>7. Changing /\ ~Changing' /\ ~Ahead /\ ~Ahead' /\ Unfailed
    BY <1>0, <2>1 DEF ChangingOK, Changing, Ahead, Unfailed
  <2>8. x \in failures' <=> i.status = "error"
    BY <2>5, <2>6 DEF FailuresAreResults
  <2>9. Told(i, x, failures')
    <3>1. item.role = "tool"
      BY <1>0, <2>1, <2>7 DEF ItemIs
    <3>. QED  BY <3>1, <2>3, <2>5, <2>8 DEF Told
  <2>10. \A j \in 1 .. Len(messages) : Shown(messages[j]) \in failures' <=> Shown(messages[j]) \in failures
    BY <2>5, <2>6
  <2>11. ItemIs'
    BY <2>7 DEF ItemIs, Ahead
  <2>12. Known' = Append(Contents(messages), x)
    <3>1. Contents(Append(messages, x)) = Append(Contents(messages), x)
      BY <1>0, <2>3, ContentsAppend
    <3>2. Contents(messages') = Append(Contents(messages), x)
      BY <2>1, <2>2, <3>1
    <3>. QED  BY <2>7, <3>2 DEF Known
  <2>. QED  BY <1>0, <2>1, <2>3, <2>5, <2>7, <2>9, <2>10, <2>11, <2>12, SeenMessage
<1>9. CASE Silent
  <2>1. UNCHANGED <<stream, answer, running, sequence, item, log, failures>> /\ pc # "tools" /\ pc # "request"
    BY <1>9 DEF Silent, progress, StartTurn, HookFails, TurnsExceeded, Retry, BackoffCancelled,
                TakeResponse, Return
  <2>2. ~Changing /\ ~Changing' /\ ~answer /\ ~answer'
    BY <1>0, <2>1 DEF ChangingOK, Changing
  <2>3. ItemIs'
    BY <2>2 DEF ItemIs
  <2>4. CASE StartTurn \/ HookFails \/ TurnsExceeded \/ Retry \/ BackoffCancelled
    <3>1. UNCHANGED messages /\ pc # "done" /\ pc' # "after"
      BY <2>4 DEF StartTurn, HookFails, TurnsExceeded, Retry, BackoffCancelled, Return
    <3>2. ~Ahead'
      BY <2>2, <3>1 DEF Ahead
    <3>3. Unfailed' => pc # "after"
      BY <2>4 DEF StartTurn, HookFails, TurnsExceeded, Retry, BackoffCancelled, Return, Unfailed
    <3>4. Contents(messages') = Contents(messages)
      BY <3>1
    <3>5. Unfailed' => Unfailed /\ Known' = Known
      BY <2>2, <3>1, <3>2, <3>3, <3>4 DEF Unfailed, Known, Ahead
    <3>. QED  BY <2>1, <2>3, <3>5, SeenQuiet
  <2>5. CASE TakeResponse
    <3>1. PICK p \in Nat : p = pending'
      BY <2>5, LoopAssumption DEF TakeResponse
    <3>2. /\ pc = "after" /\ messages' = Append(messages, Assistant(turn, p)) /\ pc' \in {"done", "tools"}
      BY <2>5, <3>1 DEF TakeResponse, Return
    <3>3. Ahead /\ ~Ahead' /\ Unfailed
      BY <2>2, <3>2 DEF Ahead, Unfailed
    <3>4. Assistant(turn, p) \in Entry /\ Shown(Assistant(turn, p)) = Reply(turn)
      BY <1>0, EntryFields, ContentFields
    <3>5. Contents(messages') = Append(Contents(messages), Reply(turn))
      BY <1>0, <3>2, <3>4, ContentsAppend
    <3>6. Known' = Known
      BY <3>3, <3>5 DEF Known
    <3>. QED  BY <2>1, <2>3, <3>3, <3>6, SeenQuiet
  <2>. QED  BY <1>9, <2>4, <2>5 DEF Silent
<1>10. CASE (Cancel /\ UNCHANGED progress) \/ UNCHANGED <<vars, progress>>
  <2>1. UNCHANGED <<pc, turn, messages, outcome, stream, answer, running, sequence, item, log, failures>>
    BY <1>10 DEF Cancel, vars, progress
  <2>2. ItemIs' /\ Known' = Known /\ (Unfailed' => Unfailed)
    BY <1>0, <2>1 DEF ItemIs, Changing, Ahead, Known, Contents, Unfailed
  <2>. QED  BY <2>1, <2>2, SeenQuiet
<1>. QED  BY <1>1, <1>2, <1>3, <1>4, <1>5, <1>6, <1>7, <1>8, <1>9, <1>10 DEF ProgressNext, Continue

LEMMA SeenStep == RunInv /\ ClientInv /\ CutsInv /\ SeenInv /\ [ProgressNext]_<<vars, progress>> => SeenInv'
<1>. SUFFICES ASSUME RunInv, ClientInv, CutsInv, SeenInv, [ProgressNext]_<<vars, progress>> PROVE SeenInv'
  OBVIOUS
<1>1. FailuresAreResults'
  BY FailuresStep DEF SeenInv
<1>2. ASSUME odd' = <<>> PROVE ViewInv'
  <2>1. odd = <<>> /\ odd' = odd
    BY <1>2, OddBefore DEF ClientInv, ItemOK
  <2>2. ViewInv /\ FailuresAreResults /\ AllShown
    BY <2>1 DEF SeenInv, ViewInv, CutsInv
  <2>. QED  BY <2>1, <2>2, ViewStep
<1>. QED  BY <1>1, <1>2 DEF SeenInv, ViewInv

LEMMA SeenInit == ProgressInit => SeenInv
<1>. SUFFICES ASSUME ProgressInit PROVE SeenInv
  OBVIOUS
<1>1. sequence = 0 /\ ~Changing /\ ~Ahead /\ ~answer /\ failures = {} /\ messages = <<>>
  BY DEF ProgressInit, Init, Changing, Ahead
<1>2. Showing(ViewIn(log, sequence), sequence) = {}
  BY <1>1 DEF Showing
<1>3. Len(Known) = 0
  <2>1. messages \in Seq(Entry) /\ Len(messages) = 0
    BY <1>1
  <2>. QED  BY <1>1, <2>1, ContentsAppend DEF Known
<1>4. Seen(ViewIn(log, sequence), sequence, Known, failures)
  BY <1>1, <1>2, <1>3, FS_EmptySet DEF Seen
<1>. QED  BY <1>1, <1>4 DEF SeenInv, ItemIs, FailuresAreResults

\* What a client has seen of a run that succeeds are the items that one gets
\* which attaches later, the fields aside that ViewIsSnapshot does not compare
\* (nativeProgressState.apply against nativeSession).
THEOREM ClientSeesWhatIsStored == ProgressSpec => []ViewIsSnapshot
<1>1. RunInv /\ ClientInv /\ SeenInv => ViewIsSnapshot
  <2>. SUFFICES ASSUME RunInv, ClientInv, SeenInv, outcome.status = "ok", odd = <<>> PROVE ViewIsSnapshot
    BY DEF ViewIsSnapshot
  <2>1. pc = "done" /\ outcome.trace = messages /\ messages \in Seq(Entry)
    BY DEF RunInv, TypeOK, Traced
  <2>2. ~Ahead
    BY <2>1 DEF ClientInv, ChangingOK, Ahead
  <2>3. PICK V : V = ViewIn(log, sequence)
    OBVIOUS
  <2>4. PICK known : known = Contents(messages)
    OBVIOUS
  <2>a. /\ Len(known) = Len(messages)
        /\ \A j \in 1 .. Len(messages) : known[j] = Shown(messages[j]) /\ messages[j] \in Entry
    BY <2>1, <2>4, ContentsAppend
  <2>5. Seen(V, sequence, known, failures)
    BY <2>2, <2>3, <2>4 DEF SeenInv, Unfailed, Known
  <2>6. View = V
    BY <2>3 DEF View, ViewIn
  <2>7. \A i : Rank(i) = Cardinality(Showing(V, i))
    BY <2>6 DEF Rank, Showing
  <2>8. Rank(sequence) = Len(messages)
    BY <2>5, <2>7, <2>a DEF Seen
  <2>b. ASSUME NEW m \in Entry
        PROVE  Shown(m).role = m.role /\ (Shown(m) \in failures <=> m \in failures)
    <3>1. CASE m.role = "assistant"
      <4>1. Shown(m).role = "assistant"
        BY <3>1, ContentFields DEF Shown
      <4>. QED  BY <3>1, <4>1 DEF SeenInv, FailuresAreResults
    <3>2. CASE m.role # "assistant"
      BY <3>2 DEF Shown
    <3>. QED  BY <3>1, <3>2
  <2>9. ASSUME NEW i \in 1 .. sequence, V[i].shows # <<>>
        PROVE  [shows |-> V[i].shows, deltas |-> V[i].deltas, role |-> V[i].role, status |-> V[i].status]
                 = Snapshot(messages)[Rank(i)]
    <3>1. PICK r : r = Rank(i)
      OBVIOUS
    <3>2. r \in 1 .. Len(messages) /\ Told(V[i], known[r], failures)
      BY <2>5, <2>7, <2>9, <2>a, <3>1 DEF Seen
    <3>3. PICK m \in Entry : m = messages[r]
      BY <2>a, <3>2
    <3>4. known[r] = Shown(m) /\ Shown(m).role = m.role /\ (Shown(m) \in failures <=> m \in failures)
      BY <2>a, <2>b, <3>2, <3>3
    <3>5. /\ V[i].shows = <<Shown(m)>> /\ V[i].deltas = 0 /\ V[i].role = m.role
          /\ V[i].status = IF m \in failures THEN "error" ELSE "complete"
      BY <3>2, <3>4 DEF Told
    <3>6. r \in DOMAIN messages
      BY <2>1, <3>2
    <3>7. Snapshot(messages)[r] = SnapshotItem(m)
      BY <3>3, <3>6 DEF Snapshot
    <3>. QED  BY <3>1, <3>5, <3>7 DEF SnapshotItem
  <2>. QED  BY <2>1, <2>6, <2>8, <2>9 DEF ViewIsSnapshot
<1>2. RunInv /\ ClientInv /\ CutsInv /\ SeenInv /\ [ProgressNext]_<<vars, progress>>
        => (ClientInv /\ CutsInv /\ SeenInv)'
  BY ClientStep, CutsStep, SeenStep
<1>. QED  BY <1>1, <1>2, ClientInit, CutsInit, SeenInit, RunInvariantOfProgress, PTL DEF ProgressSpec
=============================================================================
