--------------------------- MODULE SandboxProofs ---------------------------
(***************************************************************************)
(* The sandbox: its files and its commands.                                 *)
(*                                                                         *)
(* Reads, writes and searches for skills change nothing outside of the      *)
(* workspace, for any file system with any links in it, any paths and any   *)
(* number of operations (FilesInv).  Walk is a recursive function on        *)
(* places, names left and links left.  That it has the values its equation  *)
(* says is shown in two steps: a relation between states and results, the   *)
(* least one that contains the result of a state that ends and that of a    *)
(* state's next one (Leads), has exactly one result for each state, by      *)
(* induction on the links and on the names left; so there is such a         *)
(* function, and it leads to places.                                        *)
(*                                                                         *)
(* What was written is read: the place of a new file is what the longest    *)
(* part of the path that is there leads to (WayTo), and the rest of it, of  *)
(* which nothing is there.  A walk is the same after the write as far as it *)
(* goes in what was there (WalkOn), and then goes along the directories     *)
(* that the write made (WalkAlong).  A skill on the list is read for the    *)
(* same reason, without a step between the two walks, if the one walk has   *)
(* links enough for what the other two followed (WalkFurther).              *)
(*                                                                         *)
(* The result of a command is true, for any processes in the background and *)
(* any output (ExecutionInv).                                               *)
(***************************************************************************)
EXTENDS Workspace, Execution, SequenceTheorems, WellFoundedInduction, TLAPS

Path == Seq(Names)

Typed(f) == \A p \in DOMAIN f : p \in Path /\ f[p].to \in Path

FilesTyped == Typed(fs)

-----------------------------------------------------------------------------
(* Induction on natural numbers, with a set for the property.               *)

LessThan == {p \in Nat \X Nat : p[1] < p[2]}

\* A set of natural numbers that is not empty has a least element.
LEMMA LeastNatural ==
  ASSUME NEW S \in SUBSET Nat, S # {}
  PROVE  \E n \in S : \A m \in S : n <= m
<1>1. IsWellFoundedOn(LessThan, Nat)
  BY NatLessThanWellFounded, Zenon DEF OpToRel, LessThan
<1>2. PICK n \in S : \A m \in S : ~ (<<m, n>> \in LessThan)
  BY <1>1, WFMin
<1>3. \A m \in S : m < n => <<m, n>> \in LessThan
  BY DEF LessThan
<1>4. \A m \in S : m \in Nat /\ n \in Nat /\ ~(m < n)
  BY <1>2, <1>3
<1>5. \A m \in S : n <= m
  BY <1>4
<1>. QED  BY <1>5

\* Induction: a set that has 0 and every successor of its numbers has all.
LEMMA NatSetInduction ==
  ASSUME NEW S, 0 \in S, \A n \in Nat : n \in S => n + 1 \in S
  PROVE  Nat \subseteq S
<1>. DEFINE Absent == Nat \ S
<1>. SUFFICES ASSUME Absent # {} PROVE FALSE
  OBVIOUS
<1>1. PICK n \in Absent : \A m \in Absent : n <= m
  BY LeastNatural
<1>2. n - 1 \in Nat /\ n - 1 \notin Absent
  BY <1>1
<1>. QED  BY <1>1, <1>2

-----------------------------------------------------------------------------
(* Walk.                                                                    *)

WalkState == [at : Path, rest : Path, links : Nat]
Outcome == [err : {"none", "missing", "other", "links"}, at : Path]

NextPlace(s) == Append(s.at, Head(s.rest))

Ends(f, s) == \/ s.rest = <<>>
              \/ NextPlace(s) \notin DOMAIN f
              \/ f[NextPlace(s)].is = "link" /\ s.links = 0
              \/ f[NextPlace(s)].is = "file" /\ Tail(s.rest) # <<>>

EndOf(f, s) == IF s.rest = <<>> THEN Found(s.at)
               ELSE IF NextPlace(s) \notin DOMAIN f THEN Missing
               ELSE IF f[NextPlace(s)].is = "link" THEN TooManyLinks ELSE Failed

NextOf(f, s) ==
  IF f[NextPlace(s)].is = "link"
  THEN [at |-> <<>>, rest |-> f[NextPlace(s)].to \o Tail(s.rest), links |-> s.links - 1]
  ELSE [at |-> NextPlace(s), rest |-> Tail(s.rest), links |-> s.links]

IsWalk(f, walk) == walk = [s \in WalkState |-> IF Ends(f, s) THEN EndOf(f, s) ELSE walk[NextOf(f, s)]]

LEMMA NextIsState ==
  ASSUME NEW f, Typed(f), NEW s \in WalkState, ~Ends(f, s)
  PROVE  /\ NextOf(f, s) \in WalkState
         /\ \/ s.links > 0 /\ NextOf(f, s).links = s.links - 1
            \/ /\ NextOf(f, s).links = s.links /\ Len(s.rest) > 0
               /\ Len(NextOf(f, s).rest) = Len(s.rest) - 1
<1>1. s.at \in Path /\ s.rest \in Path /\ s.links \in Nat
  BY DEF WalkState
<1>2. s.rest # <<>>
  BY DEF Ends
<1>3. Head(s.rest) \in Names /\ Tail(s.rest) \in Path /\ Len(Tail(s.rest)) = Len(s.rest) - 1 /\ Len(s.rest) > 0
  <2>1. PICK r \in Path : r = s.rest
    BY <1>1
  <2>2. Head(r) \in Names /\ Tail(r) \in Path /\ Len(Tail(r)) = Len(r) - 1 /\ Len(r) \in Nat /\ Len(r) # 0
    BY <1>2, <2>1, HeadTailProperties, EmptySeq DEF Path
  <2>. QED  BY <2>1, <2>2
<1>4. NextPlace(s) \in Path
  BY <1>1, <1>3, AppendProperties DEF NextPlace, Path
<1>5. CASE f[NextPlace(s)].is = "link"
  <2>1. s.links # 0
    BY <1>5 DEF Ends
  <2>2. f[NextPlace(s)].to \in Path
    BY DEF Typed, Ends, Path
  <2>3. PICK t : t = f[NextPlace(s)].to \o Tail(s.rest)
    OBVIOUS
  <2>4. t \in Path
    BY <1>3, <2>2, <2>3, ConcatProperties DEF Path
  <2>5. <<>> \in Path
    BY DEF Path
  <2>6. PICK n \in Nat : n = s.links - 1
    BY <1>1, <2>1
  <2>7. NextOf(f, s) = [at |-> <<>>, rest |-> t, links |-> n]
    BY <1>5, <2>3, <2>6 DEF NextOf
  <2>. QED  BY <1>1, <2>1, <2>4, <2>5, <2>6, <2>7 DEF WalkState
<1>6. CASE f[NextPlace(s)].is # "link"
  <2>1. NextOf(f, s) = [at |-> NextPlace(s), rest |-> Tail(s.rest), links |-> s.links]
    BY <1>6 DEF NextOf
  <2>. QED  BY <1>1, <1>3, <1>4, <2>1 DEF WalkState
<1>. QED  BY <1>5, <1>6

LEMMA EndIsOutcome ==
  ASSUME NEW f, NEW s \in WalkState
  PROVE  EndOf(f, s) \in Outcome
<1>1. <<>> \in Path
  BY DEF Path
<1>. QED  BY <1>1 DEF EndOf, WalkState, Outcome, Found, Missing, Failed, TooManyLinks

\* Induction on the states of a walk: what holds of a state that ends, and of
\* one whose next state it holds of, holds of all.
LEMMA WalkInduction ==
  ASSUME NEW f, Typed(f), NEW S,
         \A s \in WalkState : (Ends(f, s) \/ NextOf(f, s) \in S) => s \in S
  PROVE  WalkState \subseteq S
<1>. DEFINE L == {l \in Nat : \A s \in WalkState : s.links = l => s \in S}
<1>0. \A s \in WalkState : s.links \in Nat /\ Len(s.rest) \in Nat
  BY DEF WalkState, Path
<1>1. ASSUME NEW l \in Nat, \A s \in WalkState : s.links + 1 = l => s \in S
      PROVE  \A s \in WalkState : s.links = l => s \in S
  <2>. DEFINE N == {n \in Nat : \A s \in WalkState : s.links = l /\ Len(s.rest) = n => s \in S}
  <2>1. ASSUME NEW n \in Nat, n = 0 \/ n - 1 \in N PROVE n \in N
    <3>. SUFFICES ASSUME NEW s \in WalkState, s.links = l, Len(s.rest) = n, ~Ends(f, s)
                  PROVE  NextOf(f, s) \in S
      OBVIOUS
    <3>1. PICK t \in WalkState : t = NextOf(f, s)
      BY NextIsState
    <3>2. CASE s.links > 0 /\ t.links = s.links - 1
      <4>1. t.links + 1 = l
        BY <1>0, <3>2
      <4>. QED  BY <1>1, <3>1, <4>1
    <3>3. CASE t.links = s.links /\ Len(s.rest) > 0 /\ Len(t.rest) = Len(s.rest) - 1
      <4>1. n # 0
        BY <3>3
      <4>. QED  BY <2>1, <3>1, <3>3, <4>1
    <3>. QED  BY <3>1, <3>2, <3>3, NextIsState
  <2>. HIDE DEF N
  <2>2. 0 \in N
    BY <2>1
  <2>3. \A n \in Nat : n \in N => n + 1 \in N
    <3>1. \A n \in Nat : n + 1 \in Nat /\ (n + 1) - 1 = n
      OBVIOUS
    <3>. QED  BY <2>1, <3>1
  <2>4. Nat \subseteq N
    BY <2>2, <2>3, NatSetInduction
  <2>. QED  BY <1>0, <2>4 DEF N
<1>2. 0 \in L
  BY <1>0, <1>1
<1>3. ASSUME NEW l \in Nat, l \in L PROVE l + 1 \in L
  <2>1. \A s \in WalkState : s.links + 1 = l + 1 => s \in S
    BY <1>0, <1>3
  <2>. QED  BY <1>1, <2>1
<1>. HIDE DEF L
<1>4. Nat \subseteq L
  BY <1>2, <1>3, NatSetInduction
<1>. QED  BY <1>0, <1>4 DEF L

\* What a state leads to.
Closed(f, R) ==
  \A s \in WalkState :
    /\ Ends(f, s) => <<s, EndOf(f, s)>> \in R
    /\ ~Ends(f, s) => \A r \in Outcome : <<NextOf(f, s), r>> \in R => <<s, r>> \in R

Leads(f) == {x \in WalkState \X Outcome :
            \A R \in SUBSET (WalkState \X Outcome) : Closed(f, R) => x \in R}

LEMMA LeadsClosed == ASSUME NEW f PROVE Closed(f, Leads(f))
<1>1. ASSUME NEW s \in WalkState, Ends(f, s) PROVE <<s, EndOf(f, s)>> \in Leads(f)
  <2>1. PICK r \in Outcome : r = EndOf(f, s)
    BY EndIsOutcome
  <2>2. \A R \in SUBSET (WalkState \X Outcome) : Closed(f, R) => <<s, r>> \in R
    BY <1>1, <2>1 DEF Closed
  <2>3. <<s, r>> \in Leads(f)
    BY <2>2 DEF Leads
  <2>. QED  BY <2>1, <2>3
<1>2. ASSUME NEW s \in WalkState, ~Ends(f, s), NEW r \in Outcome, <<NextOf(f, s), r>> \in Leads(f)
      PROVE  <<s, r>> \in Leads(f)
  BY <1>2 DEF Leads, Closed
<1>. QED  BY <1>1, <1>2 DEF Closed

LEMMA LeadsOnly ==
  ASSUME NEW f, NEW s \in WalkState, NEW r \in Outcome, <<s, r>> \in Leads(f)
  PROVE  IF Ends(f, s) THEN r = EndOf(f, s) ELSE <<NextOf(f, s), r>> \in Leads(f)
<1>. SUFFICES ASSUME ~(IF Ends(f, s) THEN r = EndOf(f, s) ELSE <<NextOf(f, s), r>> \in Leads(f))
              PROVE  FALSE
  OBVIOUS
<1>. DEFINE R == Leads(f) \ {<<s, r>>}
<1>1. ASSUME NEW t \in WalkState, Ends(f, t) PROVE <<t, EndOf(f, t)>> \in R
  <2>1. <<t, EndOf(f, t)>> \in Leads(f)
    BY <1>1, LeadsClosed DEF Closed
  <2>2. <<t, EndOf(f, t)>> # <<s, r>>
    BY <1>1
  <2>. QED  BY <2>1, <2>2
<1>2. ASSUME NEW t \in WalkState, ~Ends(f, t), NEW q \in Outcome, <<NextOf(f, t), q>> \in R
      PROVE  <<t, q>> \in R
  <2>1. <<t, q>> \in Leads(f)
    BY <1>2, LeadsClosed DEF Closed
  <2>. QED  BY <1>2, <2>1
<1>3. Closed(f, R)
  BY <1>1, <1>2 DEF Closed
<1>4. R \in SUBSET (WalkState \X Outcome)
  BY DEF Leads
<1>5. <<s, r>> \in R
  BY <1>3, <1>4 DEF Leads
<1>. QED  BY <1>5

LEMMA LeadsToOne ==
  ASSUME NEW f, Typed(f), NEW s \in WalkState
  PROVE  \E r \in Outcome : \A q \in Outcome : <<s, q>> \in Leads(f) <=> q = r
<1>. DEFINE S == {t \in WalkState : \E r \in Outcome : \A q \in Outcome : <<t, q>> \in Leads(f) <=> q = r}
<1>1. ASSUME NEW t \in WalkState, Ends(f, t) PROVE t \in S
  <2>1. \A q \in Outcome : <<t, q>> \in Leads(f) <=> q = EndOf(f, t)
    <3>1. <<t, EndOf(f, t)>> \in Leads(f)
      BY <1>1, LeadsClosed DEF Closed
    <3>2. \A q \in Outcome : <<t, q>> \in Leads(f) => q = EndOf(f, t)
      BY <1>1, LeadsOnly
    <3>. QED  BY <3>1, <3>2
  <2>. QED  BY <2>1, EndIsOutcome
<1>2. ASSUME NEW t \in WalkState, ~Ends(f, t), NextOf(f, t) \in S PROVE t \in S
  <2>1. PICK r \in Outcome : \A q \in Outcome : <<NextOf(f, t), q>> \in Leads(f) <=> q = r
    BY <1>2
  <2>2. \A q \in Outcome : <<t, q>> \in Leads(f) <=> <<NextOf(f, t), q>> \in Leads(f)
    BY <1>2, LeadsClosed, LeadsOnly DEF Closed
  <2>. QED  BY <2>1, <2>2
<1>. HIDE DEF S
<1>3. WalkState \subseteq S
  BY <1>1, <1>2, WalkInduction
<1>. QED  BY <1>3 DEF S

\* There is a function that the equation of Walk holds of.
LEMMA WalkExists ==
  ASSUME NEW f, Typed(f)
  PROVE  \E walk : IsWalk(f, walk)
<1>. DEFINE to(s) == CHOOSE r \in Outcome : <<s, r>> \in Leads(f)
<1>1. ASSUME NEW s \in WalkState PROVE to(s) \in Outcome /\ <<s, to(s)>> \in Leads(f)
  BY LeadsToOne
<1>2. ASSUME NEW s \in WalkState
      PROVE  to(s) = (IF Ends(f, s) THEN EndOf(f, s) ELSE to(NextOf(f, s))) /\ (~Ends(f, s) => NextOf(f, s) \in WalkState)
  <2>1. CASE Ends(f, s)
    BY <1>1, <2>1, LeadsOnly
  <2>2. CASE ~Ends(f, s)
    <3>1. NextOf(f, s) \in WalkState
      BY <2>2, NextIsState
    <3>2. <<NextOf(f, s), to(s)>> \in Leads(f)
      BY <1>1, <2>2, LeadsOnly
    <3>3. to(NextOf(f, s)) = to(s)
      BY <1>1, <3>1, <3>2, LeadsToOne
    <3>. QED  BY <2>2, <3>1, <3>3
  <2>. QED  BY <2>1, <2>2
<1>. HIDE DEF to
<1>3. PICK w : w = [s \in WalkState |-> to(s)]
  OBVIOUS
<1>4. \A s \in WalkState : w[s] = IF Ends(f, s) THEN EndOf(f, s) ELSE w[NextOf(f, s)]
  BY <1>2, <1>3
<1>5. w = [s \in WalkState |-> w[s]]
  BY <1>3
<1>6. IsWalk(f, w)
  BY <1>4, <1>5, Zenon DEF IsWalk
<1>. QED  BY <1>6

LEMMA WalkEquation ==
  ASSUME NEW f, NEW walk
  PROVE  IsWalk(f, walk) <=>
      walk = [s \in [at : Seq(Names), rest : Seq(Names), links : Nat] |->
        CASE s.rest = <<>> -> Found(s.at)
          [] s.rest # <<>> /\ Append(s.at, Head(s.rest)) \notin DOMAIN f -> Missing
          [] OTHER ->
               CASE f[Append(s.at, Head(s.rest))].is = "link" /\ s.links = 0 -> TooManyLinks
                 [] f[Append(s.at, Head(s.rest))].is = "link" /\ s.links > 0 ->
                      walk[[at |-> <<>>, rest |-> f[Append(s.at, Head(s.rest))].to \o Tail(s.rest),
                            links |-> s.links - 1]]
                 [] f[Append(s.at, Head(s.rest))].is = "file" /\ Tail(s.rest) # <<>> -> Failed
                 [] OTHER -> walk[[at |-> Append(s.at, Head(s.rest)), rest |-> Tail(s.rest),
                                   links |-> s.links]]]
<1>. DEFINE case(s) ==
        CASE s.rest = <<>> -> Found(s.at)
          [] s.rest # <<>> /\ NextPlace(s) \notin DOMAIN f -> Missing
          [] OTHER ->
               CASE f[NextPlace(s)].is = "link" /\ s.links = 0 -> TooManyLinks
                 [] f[NextPlace(s)].is = "link" /\ s.links > 0 ->
                      walk[[at |-> <<>>, rest |-> f[NextPlace(s)].to \o Tail(s.rest),
                            links |-> s.links - 1]]
                 [] f[NextPlace(s)].is = "file" /\ Tail(s.rest) # <<>> -> Failed
                 [] OTHER -> walk[[at |-> NextPlace(s), rest |-> Tail(s.rest), links |-> s.links]]
<1>1. ASSUME NEW s \in WalkState
      PROVE  case(s) = IF Ends(f, s) THEN EndOf(f, s) ELSE walk[NextOf(f, s)]
  <2>1. s.links = 0 <=> ~(s.links > 0)
    BY DEF WalkState
  <2>2. CASE s.rest = <<>>
    BY <2>2 DEF Ends, EndOf
  <2>3. CASE s.rest # <<>> /\ NextPlace(s) \notin DOMAIN f
    BY <2>3 DEF Ends, EndOf
  <2>4. CASE s.rest # <<>> /\ NextPlace(s) \in DOMAIN f
    BY <2>1, <2>4 DEF Ends, EndOf, NextOf
  <2>. QED  BY <2>2, <2>3, <2>4
<1>2. IsWalk(f, walk) <=> walk = [s \in WalkState |-> case(s)]
  <2>. HIDE DEF case
  <2>1. [s \in WalkState |-> IF Ends(f, s) THEN EndOf(f, s) ELSE walk[NextOf(f, s)]] = [s \in WalkState |-> case(s)]
    BY <1>1, Zenon
  <2>. QED  BY <2>1, Zenon DEF IsWalk
<1>. QED  BY <1>2 DEF NextPlace, WalkState, Path

State(at, rest, links) == [at |-> at, rest |-> rest, links |-> links]

\* Walk is the value of a function that its equation holds of.
LEMMA WalkIsOne ==
  Typed(fs) => \E walk : IsWalk(fs, walk) /\ \A path \in Path : Walk(path) = walk[State(<<>>, path, MaxLinks)]
<1>. SUFFICES ASSUME Typed(fs)
              PROVE  \E walk : IsWalk(fs, walk) /\ \A path \in Path : Walk(path) = walk[State(<<>>, path, MaxLinks)]
  OBVIOUS
<1>1. \E walk : IsWalk(fs, walk)
  BY WalkExists
<1>. QED  BY <1>1, WalkEquation DEF Walk, State

\* Walk leads to a place, or to none.
LEMMA WalkTyped ==
  ASSUME FilesTyped, NEW path \in Path
  PROVE  Walk(path) \in Outcome
<1>1. PICK walk : IsWalk(fs, walk) /\ Walk(path) = walk[State(<<>>, path, MaxLinks)]
  BY WalkIsOne DEF FilesTyped
<1>. DEFINE S == {s \in WalkState : walk[s] \in Outcome}
<1>2. ASSUME NEW s \in WalkState, Ends(fs, s) \/ NextOf(fs, s) \in S PROVE s \in S
  <2>1. walk[s] = IF Ends(fs, s) THEN EndOf(fs, s) ELSE walk[NextOf(fs, s)]
    BY <1>1 DEF IsWalk
  <2>. QED  BY <1>2, <2>1, EndIsOutcome
<1>. HIDE DEF S
<1>3. WalkState \subseteq S
  BY <1>2, WalkInduction DEF FilesTyped
<1>4. State(<<>>, path, MaxLinks) \in WalkState
  BY WorkspaceAssumption DEF State, WalkState, Path
<1>. QED  BY <1>1, <1>3, <1>4 DEF S

-----------------------------------------------------------------------------
(* The paths that securePath asks for.                                      *)

LEMMA FrontTyped ==
  ASSUME NEW s \in Path, s # <<>>
  PROVE  Front(s) \in Path
<1>1. PICK n \in Nat : n = Len(s) - 1
  BY EmptySeq DEF Path
<1>2. \A i \in 1 .. n : s[i] \in Names
  BY <1>1, ElementOfSeq DEF Path
<1>3. 1 \in Int /\ n \in Int
  OBVIOUS
<1>4. SubSeq(s, 1, n) \in Seq(Names)
  BY <1>2, <1>3, SubSeqProperties
<1>. QED  BY <1>1, <1>4 DEF Front, Path

IsClean(done, path, n) ==
  done = [k \in 0 .. n |->
            IF k = 0 THEN <<>>
            ELSE IF path[k] # ".." THEN Append(done[k - 1], path[k])
            ELSE IF done[k - 1] = <<>> THEN <<>> ELSE Front(done[k - 1])]

LEMMA CleanExists ==
  ASSUME NEW path, NEW n \in Nat
  PROVE  \E done : IsClean(done, path, n)
<1>. DEFINE one(before, name) == IF name # ".." THEN Append(before, name)
                                 ELSE IF before = <<>> THEN <<>> ELSE Front(before)
            Solves(done, m) == /\ done = [k \in 0 .. m |-> done[k]]
                               /\ \A k \in 0 .. m : done[k] = IF k = 0 THEN <<>> ELSE one(done[k - 1], path[k])
            S == {m \in Nat : \E done : Solves(done, m)}
<1>. HIDE DEF one
<1>1. 0 \in S
  <2>1. PICK done : done = [k \in 0 .. 0 |-> <<>>]
    OBVIOUS
  <2>2. Solves(done, 0)
    BY <2>1
  <2>. QED  BY <2>2
<1>2. ASSUME NEW m \in Nat, m \in S PROVE m + 1 \in S
  <2>1. PICK old : Solves(old, m)
    BY <1>2
  <2>2. PICK done : done = [k \in 0 .. m + 1 |-> IF k <= m THEN old[k] ELSE one(old[m], path[m + 1])]
    OBVIOUS
  <2>3. \A k \in 0 .. m + 1 : done[k] = IF k = 0 THEN <<>> ELSE one(done[k - 1], path[k])
    <3>. TAKE k \in 0 .. m + 1
    <3>1. CASE k = 0  BY <2>1, <2>2, <3>1
    <3>2. CASE k \in 1 .. m
      <4>1. k # 0 /\ k \in 0 .. m /\ k - 1 \in 0 .. m /\ k \in 0 .. m + 1 /\ k - 1 \in 0 .. m + 1
        BY <3>2
      <4>2. old[k] = one(old[k - 1], path[k])
        BY <2>1, <4>1
      <4>3. done[k] = old[k] /\ done[k - 1] = old[k - 1]
        BY <2>2, <4>1
      <4>. QED  BY <4>1, <4>2, <4>3
    <3>3. CASE k = m + 1
      <4>1. k - 1 = m /\ k # 0 /\ m \in 0 .. m + 1
        BY <3>3
      <4>2. done[m] = old[m] /\ done[k] = one(old[m], path[k])
        BY <2>2, <3>3, <4>1
      <4>. QED  BY <4>1, <4>2
    <3>. QED  BY <3>1, <3>2, <3>3
  <2>4. done = [k \in 0 .. m + 1 |-> done[k]]
    BY <2>2
  <2>5. Solves(done, m + 1)
    BY <2>3, <2>4
  <2>. HIDE DEF Solves
  <2>. QED  BY <2>5
<1>. HIDE DEF S
<1>3. Nat \subseteq S
  BY <1>1, <1>2, NatSetInduction
<1>4. PICK done : Solves(done, n)
  BY <1>3 DEF S
<1>5. ASSUME NEW k \in 0 .. n
      PROVE  done[k] = IF k = 0 THEN <<>>
                       ELSE IF path[k] # ".." THEN Append(done[k - 1], path[k])
                       ELSE IF done[k - 1] = <<>> THEN <<>> ELSE Front(done[k - 1])
  <2>1. done[k] = IF k = 0 THEN <<>> ELSE one(done[k - 1], path[k])
    BY <1>4
  <2>2. k = 0 \/ k > 0
    OBVIOUS
  <2>. QED  BY <2>1, <2>2 DEF one
<1>6. done = [k \in 0 .. n |-> done[k]]
  BY <1>4
<1>7. IsClean(done, path, n)
  BY <1>5, <1>6, Zenon DEF IsClean
<1>. QED  BY <1>7

\* Clean is what is left at the end of the path.
LEMMA CleanSteps ==
  ASSUME NEW path \in Seq(STRING)
  PROVE  \E done :
           /\ Clean(path) = done[Len(path)]
           /\ \A k \in 0 .. Len(path) :
                done[k] = IF k = 0 THEN <<>>
                          ELSE IF path[k] # ".." THEN Append(done[k - 1], path[k])
                          ELSE IF done[k - 1] = <<>> THEN <<>> ELSE Front(done[k - 1])
<1>1. PICK n \in Nat : n = Len(path)
  OBVIOUS
<1>2. \E done : IsClean(done, path, Len(path))
  BY <1>1, CleanExists
<1>3. \A done : IsClean(done, path, Len(path)) <=>
        done = [k \in 0 .. Len(path) |->
                  IF k = 0 THEN <<>>
                  ELSE IF path[k] # ".." THEN Append(done[k - 1], path[k])
                  ELSE IF done[k - 1] = <<>> THEN <<>> ELSE Front(done[k - 1])]
  BY DEF IsClean
<1>4. PICK done : IsClean(done, path, Len(path)) /\ Clean(path) = done[Len(path)]
  BY <1>2, <1>3 DEF Clean
<1>5. IsClean(done, path, n) /\ Clean(path) = done[n]
  BY <1>1, <1>4
<1>6. \A k \in 0 .. n :
        done[k] = IF k = 0 THEN <<>>
                  ELSE IF path[k] # ".." THEN Append(done[k - 1], path[k])
                  ELSE IF done[k - 1] = <<>> THEN <<>> ELSE Front(done[k - 1])
  BY <1>5, Zenon DEF IsClean
<1>. QED  BY <1>1, <1>5, <1>6

LEMMA CleanTyped ==
  ASSUME NEW path \in Seq(STRING)
  PROVE  Clean(path) \in Path
<1>0. PICK done :
        /\ Clean(path) = done[Len(path)]
        /\ \A k \in 0 .. Len(path) :
             done[k] = IF k = 0 THEN <<>>
                       ELSE IF path[k] # ".." THEN Append(done[k - 1], path[k])
                       ELSE IF done[k - 1] = <<>> THEN <<>> ELSE Front(done[k - 1])
  BY CleanSteps
<1>1. PICK n \in Nat :
        /\ n = Len(path) /\ Clean(path) = done[n]
        /\ \A k \in 0 .. n :
             done[k] = IF k = 0 THEN <<>>
                       ELSE IF path[k] # ".." THEN Append(done[k - 1], path[k])
                       ELSE IF done[k - 1] = <<>> THEN <<>> ELSE Front(done[k - 1])
  BY <1>0
<1>. DEFINE S == {k \in Nat : k <= n => done[k] \in Path}
<1>2. <<>> \in Path
  BY DEF Path
<1>3. 0 \in S
  BY <1>1, <1>2
<1>4. ASSUME NEW k \in Nat, k \in S PROVE k + 1 \in S
  <2>. SUFFICES ASSUME k + 1 <= n PROVE done[k + 1] \in Path
    OBVIOUS
  <2>1. PICK before \in Path : before = done[k]
    BY <1>4
  <2>2. PICK name \in STRING : name = path[k + 1]
    <3>1. k + 1 \in 1 .. Len(path)
      BY <1>1
    <3>. QED  BY <3>1, ElementOfSeq
  <2>3. done[k + 1] = IF name # ".." THEN Append(before, name) ELSE IF before = <<>> THEN <<>> ELSE Front(before)
    BY <1>1, <2>1, <2>2
  <2>4. name # ".." => Append(before, name) \in Path
    BY AppendProperties DEF Path, Names
  <2>. QED  BY <1>2, <2>3, <2>4, FrontTyped
<1>. HIDE DEF S
<1>5. Nat \subseteq S
  BY <1>3, <1>4, NatSetInduction
<1>. QED  BY <1>1, <1>5 DEF S

LEMMA BeginningTyped ==
  ASSUME NEW path \in Path, NEW k \in Nat, k + 1 \in 1 .. Len(path)
  PROVE  SubSeq(path, 1, k) \in Path
<1>1. 1 \in Int /\ k \in Int /\ \A i \in 1 .. k : path[i] \in Names
  <2>1. \A i \in 1 .. k : i \in 1 .. Len(path)
    BY DEF Path
  <2>. QED  BY <2>1, ElementOfSeq DEF Path
<1>. QED  BY <1>1, SubSeqProperties DEF Path

\* A path without ".." is clean.
LEMMA CleanOfNames ==
  ASSUME NEW path \in Path
  PROVE  path \in Seq(STRING) /\ Clean(path) = path
<1>1. path \in Seq(STRING)
  BY DEF Path, Names
<1>1a. PICK done :
        /\ Clean(path) = done[Len(path)]
        /\ \A k \in 0 .. Len(path) :
             done[k] = IF k = 0 THEN <<>>
                       ELSE IF path[k] # ".." THEN Append(done[k - 1], path[k])
                       ELSE IF done[k - 1] = <<>> THEN <<>> ELSE Front(done[k - 1])
  BY <1>1, CleanSteps
<1>2. PICK n \in Nat :
        /\ n = Len(path) /\ Clean(path) = done[n]
        /\ \A k \in 0 .. n :
             done[k] = IF k = 0 THEN <<>>
                       ELSE IF path[k] # ".." THEN Append(done[k - 1], path[k])
                       ELSE IF done[k - 1] = <<>> THEN <<>> ELSE Front(done[k - 1])
  BY <1>1, <1>1a
<1>. DEFINE S == {k \in Nat : k <= n => done[k] = SubSeq(path, 1, k)}
<1>3. 0 \in S
  <2>1. SubSeq(path, 1, 0) = <<>>
    BY SubSeqEmpty
  <2>2. done[0] = <<>>
    <3>1. 0 \in 0 .. n
      OBVIOUS
    <3>. QED  BY <1>2, <3>1
  <2>. QED  BY <2>1, <2>2
<1>4. ASSUME NEW k \in Nat, k \in S PROVE k + 1 \in S
  <2>. SUFFICES ASSUME k + 1 <= n PROVE done[k + 1] = SubSeq(path, 1, k + 1)
    OBVIOUS
  <2>1. done[k] = SubSeq(path, 1, k)
    BY <1>4
  <2>2. k + 1 \in 1 .. Len(path)
    BY <1>2
  <2>3. path[k + 1] # ".."
    <3>1. path[k + 1] \in Names
      BY <2>2, ElementOfSeq DEF Path
    <3>. QED  BY <3>1 DEF Names
  <2>4. done[k + 1] = Append(SubSeq(path, 1, k), path[k + 1])
    <3>1. PICK m : m = k + 1
      OBVIOUS
    <3>2. m \in 0 .. n /\ m # 0 /\ m - 1 = k /\ path[m] # ".."
      BY <2>3, <3>1
    <3>3. done[m] = Append(done[m - 1], path[m])
      BY <1>2, <3>2
    <3>. QED  BY <2>1, <3>1, <3>2, <3>3
  <2>5. SubSeq(path, 1, k + 1) = Append(SubSeq(path, 1, k), path[k + 1])
    <3>1. 1 \in 1 .. Len(path) /\ (k + 1) - 1 = k
      BY <1>2
    <3>2. SubSeq(path, 1, k + 1) = Append(SubSeq(path, 1, (k + 1) - 1), path[k + 1])
      <4>1. SubSeq(path, 1, k + 1) = SubSeq(path, 1, (k + 1) - 1) \o <<path[k + 1]>>
        BY <2>2, <3>1, SubSeqRecursiveSecond DEF Path
      <4>2. PICK before \in Seq(Names) : before = SubSeq(path, 1, k)
        BY <2>2, <3>1, BeginningTyped DEF Path
      <4>3. PICK name \in Names : name = path[k + 1]
        BY <2>2, ElementOfSeq DEF Path
      <4>4. Append(before, name) = before \o <<name>>
        BY AppendIsConcat
      <4>. QED  BY <3>1, <4>1, <4>2, <4>3, <4>4
    <3>. QED  BY <3>1, <3>2
  <2>. QED  BY <2>4, <2>5
<1>. HIDE DEF S
<1>5. Nat \subseteq S
  BY <1>3, <1>4, NatSetInduction
<1>6. done[n] = SubSeq(path, 1, n)
  BY <1>5 DEF S
<1>7. SubSeq(path, 1, n) = path
  BY <1>2, SubSeqFull DEF Path
<1>. QED  BY <1>1, <1>2, <1>6, <1>7

LEMMA AboveTyped ==
  ASSUME NEW path \in Path, NEW q \in Above(path)
  PROVE  q \in Path /\ Len(q) \in Nat /\ Len(q) < Len(path)
<1>1. Len(path) \in Nat /\ \A i \in 1 .. Len(path) : path[i] \in Names
  BY ElementOfSeq DEF Path
<1>2. PICK n \in 0 .. Len(path) - 1 : q = SubSeq(path, 1, n)
  BY DEF Above
<1>3. 1 \in Int /\ n \in Int /\ \A i \in 1 .. n : path[i] \in Names
  BY <1>1
<1>4. SubSeq(path, 1, n) \in Seq(Names) /\ Len(SubSeq(path, 1, n)) = IF 1 <= n THEN n - 1 + 1 ELSE 0
  BY <1>3, SubSeqProperties
<1>. QED  BY <1>1, <1>2, <1>4 DEF Path

\* The root of all exists, so that a new file has a nearest parent.
LEMMA NearestLongest ==
  ASSUME FilesTyped, NEW target \in Path, target # <<>>
  PROVE  LET there == {p \in Above(target) : Lstat(p) # "missing"}
             nearest == CHOOSE p \in there : \A q \in there : Len(q) <= Len(p)
         IN  nearest \in there /\ \A q \in there : Len(q) <= Len(nearest)
<1>. DEFINE there == {p \in Above(target) : Lstat(p) # "missing"}
            left == {Len(target) - Len(p) : p \in there}
<1>1. PICK n \in Nat : n = Len(target)
  BY DEF Path
<1>2. <<>> \in there
  <2>1. n # 0
    BY <1>1, EmptySeq DEF Path
  <2>2. 0 \in 0 .. Len(target) - 1
    BY <1>1, <2>1
  <2>3. SubSeq(target, 1, 0) = <<>>
    BY SubSeqEmpty
  <2>4. Lstat(<<>>) = "none"
    BY DEF Lstat
  <2>. QED  BY <2>2, <2>3, <2>4 DEF Above
<1>3. \A p \in there : Len(p) \in Nat /\ Len(p) < n
  BY <1>1, AboveTyped
<1>. HIDE DEF there
<1>4. left \in SUBSET Nat /\ left # {}
  BY <1>1, <1>2, <1>3
<1>5. PICK l \in left : \A m \in left : l <= m
  BY <1>4, LeastNatural
<1>6. PICK p \in there : l = n - Len(p)
  BY <1>1, <1>5
<1>7. ASSUME NEW q \in there PROVE Len(q) <= Len(p)
  <2>1. n - Len(q) \in left
    BY <1>1
  <2>2. l <= n - Len(q)
    BY <1>5, <2>1
  <2>. QED  BY <1>3, <1>6, <2>2
<1>8. \E p2 \in there : \A q \in there : Len(q) <= Len(p2)
  BY <1>7
<1>9. /\ (CHOOSE p2 \in there : \A q \in there : Len(q) <= Len(p2)) \in there
      /\ \A q \in there : Len(q) <= Len(CHOOSE p2 \in there : \A q2 \in there : Len(q2) <= Len(p2))
  BY <1>8
<1>. QED  BY <1>9 DEF there

LEMMA NewTargetTyped ==
  ASSUME FilesTyped, NEW target \in Path, target # <<>>
  PROVE  NewTarget(target) \in Outcome
<1>. DEFINE there == {p \in Above(target) : Lstat(p) # "missing"}
<1>1. PICK nearest : nearest = (CHOOSE p \in there : \A q \in there : Len(q) <= Len(p))
  OBVIOUS
<1>2. nearest \in Path /\ Len(nearest) \in Nat
  BY <1>1, NearestLongest, AboveTyped
<1>3. PICK parent \in Outcome : parent = Walk(nearest)
  BY <1>2, WalkTyped
<1>4. PICK rest : rest = SubSeq(target, Len(nearest) + 1, Len(target))
  OBVIOUS
<1>5. rest \in Path
  <2>1. PICK from \in Nat : from = Len(nearest) + 1 /\ from > 0
    BY <1>2
  <2>2. PICK to \in Nat : to = Len(target)
    BY DEF Path
  <2>3. from \in Int /\ to \in Int /\ \A i \in from .. to : target[i] \in Names
    <3>1. \A i \in from .. to : i \in 1 .. Len(target)
      BY <2>1, <2>2
    <3>. QED  BY <3>1, ElementOfSeq DEF Path
  <2>4. SubSeq(target, from, to) \in Seq(Names)
    BY <2>3, SubSeqProperties
  <2>. QED  BY <1>4, <2>1, <2>2, <2>4 DEF Path
<1>6. parent.at \in Path
  BY <1>3 DEF Outcome
<1>7. PICK at \in Path : at = parent.at \o rest
  BY <1>5, <1>6, ConcatProperties DEF Path
<1>8. Found(at) \in Outcome /\ Failed \in Outcome
  <2>1. <<>> \in Path
    BY DEF Path
  <2>. QED  BY <2>1 DEF Found, Failed, Outcome
<1>9. NewTarget(target) = IF Lstat(nearest) # "none" \/ parent.err # "none" THEN Failed ELSE Found(at)
  BY <1>1, <1>3, <1>4, <1>7 DEF NewTarget
<1>. QED  BY <1>8, <1>9

\* securePath fails or finds a place in the workspace.
LEMMA SecurePathInside ==
  ASSUME FilesTyped, Root \in Path, NEW path \in Seq(STRING), NEW forWrite \in BOOLEAN,
         SecurePath(path, forWrite).err = "none"
  PROVE  /\ SecurePath(path, forWrite).at \in Path /\ IsPrefix(Root, SecurePath(path, forWrite).at)
         /\ SecurePath(path, forWrite) = Found(SecurePath(path, forWrite).at)
<1>1. PICK target \in Path : target = Root \o Clean(path)
  BY CleanTyped, ConcatProperties DEF Path
<1>2. Lstat(target) # "none" => target # <<>>
  BY DEF Lstat
<1>3. PICK found \in Outcome : found = IF forWrite /\ Lstat(target) # "none" THEN NewTarget(target)
                                          ELSE Walk(target)
  BY <1>2, NewTargetTyped, WalkTyped
<1>4. SecurePath(path, forWrite) = IF found.err # "none" \/ ~Inside(found.at) THEN Failed ELSE found
  BY <1>1, <1>3 DEF SecurePath
<1>5. Failed.err # "none"
  BY DEF Failed
<1>6. SecurePath(path, forWrite) = found /\ found.err = "none" /\ Inside(found.at)
  BY <1>4, <1>5
<1>7. found.at \in Path /\ found = Found(found.at)
  BY <1>6 DEF Outcome, Found
<1>. QED  BY <1>6, <1>7 DEF Inside

-----------------------------------------------------------------------------
(* Paths and what lies above them.                                          *)

LEMMA StepAlong ==
  ASSUME NEW x \in Path, NEW y \in Path, y # <<>>
  PROVE  /\ Append(x, Head(y)) \in Path /\ Tail(y) \in Path
         /\ Append(x, Head(y)) \o Tail(y) = x \o y
         /\ Len(Append(x, Head(y))) = Len(x) + 1
<1>1. Head(y) \in Names /\ Tail(y) \in Seq(Names) /\ y \in Seq(Names) /\ x \in Seq(Names)
  BY HeadTailProperties DEF Path
<1>2. PICK h \in Names : h = Head(y)
  BY <1>1
<1>3. PICK t \in Seq(Names) : t = Tail(y)
  BY <1>1
<1>4. Append(x, h) = x \o <<h>> /\ Append(x, h) \in Seq(Names) /\ Len(Append(x, h)) = Len(x) + 1
  BY <1>1, AppendIsConcat, AppendProperties
<1>5. <<h>> \o t = y
  <2>1. PICK n \in Nat : n = Len(y) /\ n >= 1
    BY <1>1, EmptySeq
  <2>2. SubSeq(y, 1, n) = <<y[1]>> \o SubSeq(y, 2, n)
    <3>1. 1 \in 1 .. Len(y) /\ n \in 1 .. Len(y) /\ 1 + 1 = 2
      BY <2>1
    <3>. QED  BY <1>1, <3>1, SubSeqRecursiveFirst
  <2>3. SubSeq(y, 1, n) = y /\ Tail(y) = SubSeq(y, 2, n)
    BY <1>1, <2>1, SubSeqFull, TailIsSubSeq
  <2>4. Head(y) = y[1]
    <3>1. 1 \in 1 .. Len(y) /\ n \in 1 .. Len(y)
      BY <2>1
    <3>2. Head(SubSeq(y, 1, n)) = y[1]
      BY <1>1, <3>1, HeadTailOfSubSeq
    <3>. QED  BY <2>3, <3>2
  <2>. QED  BY <1>2, <1>3, <2>2, <2>3, <2>4
<1>6. PICK one : one = <<h>>
  OBVIOUS
<1>8. one \in Seq(Names)
  BY <1>2, <1>6
<1>9. (x \o one) \o t = x \o (one \o t)
  <2>1. PICK S : S = Names
    OBVIOUS
  <2>2. x \in Seq(S) /\ one \in Seq(S) /\ t \in Seq(S)
    BY <1>1, <1>3, <1>8, <2>1
  <2>. QED  BY <2>2, ConcatAssociative
<1>7. (x \o <<h>>) \o t = x \o y
  BY <1>5, <1>6, <1>9
<1>. QED  BY <1>1, <1>2, <1>3, <1>4, <1>7 DEF Path

LEMMA Joined ==
  ASSUME NEW x \in Path, NEW y \in Path
  PROVE  /\ x \o y \in Path /\ Len(x) \in Nat /\ Len(y) \in Nat /\ Len(x \o y) = Len(x) + Len(y)
         /\ SubSeq(x \o y, 1, Len(x)) = x
         /\ x \o <<>> = x /\ <<>> \o x = x /\ <<>> \in Path
<1>1. x \in Seq(Names) /\ y \in Seq(Names)
  BY DEF Path
<1>2. /\ x \o y \in Seq(Names) /\ Len(x) \in Nat /\ Len(y) \in Nat /\ Len(x \o y) = Len(x) + Len(y)
      /\ x \o <<>> = x /\ <<>> \o x = x
  BY <1>1, ConcatProperties, ConcatEmptySeq
<1>3. SubSeq(x \o y, 1, Len(x)) = x
  <2>1. CASE Len(x) = 0
    <3>1. x = <<>>
      BY <1>1, <2>1, EmptySeq
    <3>2. SubSeq(x \o y, 1, 0) = <<>>
      BY SubSeqEmpty
    <3>. QED  BY <2>1, <3>1, <3>2
  <2>2. CASE Len(x) # 0
    <3>1. 1 \in 1 .. Len(x) /\ Len(x) \in 1 .. Len(x)
      BY <1>2, <2>2
    <3>2. SubSeq(x \o y, 1, Len(x)) = SubSeq(x, 1, Len(x))
      BY <1>1, <3>1, SubSeqOfConcat1
    <3>. QED  BY <1>1, <3>2, SubSeqFull
  <2>. QED  BY <2>1, <2>2
<1>. QED  BY <1>1, <1>2, <1>3, EmptySeq DEF Path

LEMMA FrontIsAbove ==
  ASSUME NEW p \in Path, NEW r \in Path, r # <<>>
  PROVE  p \in Above(p \o r)
<1>1. PICK n \in Nat : n = Len(p)
  BY Joined
<1>2. Len(p \o r) = n + Len(r) /\ Len(r) \in Nat /\ Len(r) # 0
  <2>1. Len(r) # 0
    BY EmptySeq DEF Path
  <2>. QED  BY <1>1, <2>1, Joined
<1>3. n \in 0 .. Len(p \o r) - 1
  BY <1>2
<1>4. SubSeq(p \o r, 1, n) = p
  BY <1>1, Joined
<1>. QED  BY <1>3, <1>4 DEF Above

\* A place above another is that place without a rest.
LEMMA AboveIsFront ==
  ASSUME NEW path \in Path, NEW q \in Above(path)
  PROVE  \E r \in Path : r # <<>> /\ path = q \o r
<1>1. PICK n \in 0 .. Len(path) - 1 : q = SubSeq(path, 1, n)
  BY DEF Above
<1>2. PICK m \in Nat : m = Len(path)
  BY DEF Path
<1>3. PICK r : r = SubSeq(path, n + 1, m)
  OBVIOUS
<1>4. 1 \in 1 .. Len(path) + 1 /\ n \in 1 - 1 .. Len(path) /\ m \in n .. Len(path)
  BY <1>1, <1>2
<1>5. q \o r = path
  <2>1. SubSeq(path, 1, n) \o SubSeq(path, n + 1, m) = SubSeq(path, 1, m)
    BY <1>4, ConcatAdjacentSubSeq DEF Path
  <2>2. SubSeq(path, 1, m) = path
    BY <1>2, SubSeqFull DEF Path
  <2>. QED  BY <1>1, <1>3, <2>1, <2>2
<1>6. r \in Path /\ Len(r) = m - n
  <2>1. n + 1 \in Int /\ m \in Int /\ \A i \in n + 1 .. m : path[i] \in Names
    <3>1. \A i \in n + 1 .. m : i \in 1 .. Len(path)
      BY <1>1, <1>2
    <3>. QED  BY <1>1, <3>1, ElementOfSeq DEF Path
  <2>2. SubSeq(path, n + 1, m) \in Seq(Names) /\ Len(SubSeq(path, n + 1, m)) = IF n + 1 <= m THEN m - (n + 1) + 1 ELSE 0
    BY <2>1, SubSeqProperties
  <2>. QED  BY <1>1, <1>2, <1>3, <2>2 DEF Path
<1>7. r # <<>>
  <2>1. Len(r) # 0
    BY <1>1, <1>2, <1>6
  <2>. QED  BY <2>1, EmptySeq
<1>. QED  BY <1>5, <1>6, <1>7

\* On the way to d \o y, behind d, the first place is that next to d.
LEMMA FirstBehind ==
  ASSUME NEW d \in Path, NEW y \in Path, NEW p \in Path, NEW r \in Path,
         p \o r = d \o y, y # <<>>, Len(p) > Len(d)
  PROVE  Append(d, Head(y)) = p \/ Append(d, Head(y)) \in Above(p)
<1>1. PICK a : a = Append(d, Head(y))
  OBVIOUS
<1>2. PICK t : t = Tail(y)
  OBVIOUS
<1>3. a \in Path /\ t \in Path /\ a \o t = d \o y /\ Len(a) = Len(d) + 1
  BY <1>1, <1>2, StepAlong
<1>4. PICK n \in Nat : n = Len(a)
  BY <1>3, Joined
<1>5. PICK m \in Nat : m = Len(p)
  BY Joined
<1>6. n <= m
  BY <1>3, <1>4, <1>5, Joined
<1>7. SubSeq(p \o r, 1, n) = a
  <2>1. SubSeq(a \o t, 1, Len(a)) = a
    BY <1>3, Joined
  <2>. QED  BY <1>3, <1>4, <2>1
<1>8. n >= 1
  <2>1. Len(d) \in Nat
    BY Joined
  <2>. QED  BY <1>3, <1>4, <2>1
<1>9. SubSeq(p \o r, 1, n) = SubSeq(p, 1, n)
  <2>1. 1 \in 1 .. Len(p) /\ n \in 1 .. Len(p)
    BY <1>5, <1>6, <1>8
  <2>. QED  BY <2>1, SubSeqOfConcat1 DEF Path
<1>10. CASE n = m
  <2>1. SubSeq(p, 1, m) = p
    BY <1>5, SubSeqFull DEF Path
  <2>. QED  BY <1>1, <1>7, <1>9, <1>10, <2>1
<1>11. CASE n # m
  <2>1. n \in 0 .. Len(p) - 1
    BY <1>5, <1>6, <1>11
  <2>. QED  BY <1>1, <1>7, <1>9, <2>1 DEF Above
<1>. QED  BY <1>10, <1>11

LEMMA JoinedTwice ==
  ASSUME NEW x \in Path, NEW y \in Path, NEW z \in Path
  PROVE  x \o (y \o z) = (x \o y) \o z
<1>1. x \in Seq(Names) /\ y \in Seq(Names) /\ z \in Seq(Names)
  BY DEF Path
<1>2. (x \o y) \o z = x \o (y \o z)
  BY <1>1, ConcatAssociative
<1>. QED  BY <1>2

LEMMA HeadOfJoin ==
  ASSUME NEW x \in Path, NEW y \in Path, x # <<>>
  PROVE  x \o y # <<>> /\ Head(x \o y) = Head(x) /\ Tail(x \o y) = Tail(x) \o y
<1>0. x \in Seq(Names) /\ y \in Seq(Names)
  BY DEF Path
<1>1. PICK z : z = x \o y
  OBVIOUS
<1>2. PICK m \in Nat \ {0} : m = Len(x)
  BY <1>0, EmptySeq
<1>3. PICK k \in Nat : k = Len(y)
  BY <1>0
<1>4. /\ z \in Seq(Names) /\ Len(z) = m + k
      /\ \A i \in 1 .. m + k : z[i] = IF i <= m THEN x[i] ELSE y[i - m]
  BY <1>0, <1>1, <1>2, <1>3, ConcatProperties
<1>5. z # <<>>
  <2>1. Len(z) # 0
    BY <1>4
  <2>. QED  BY <2>1, EmptySeq
<1>6. PICK t : t = Tail(x)
  OBVIOUS
<1>7. t \in Seq(Names) /\ Len(t) = m - 1 /\ \A i \in 1 .. m - 1 : t[i] = x[i + 1]
  BY <1>0, <1>2, <1>6, HeadTailProperties
<1>8. PICK u : u = Tail(z)
  OBVIOUS
<1>9. u \in Seq(Names) /\ Len(u) = m + k - 1 /\ \A i \in 1 .. m + k - 1 : u[i] = z[i + 1]
  BY <1>4, <1>5, <1>8, HeadTailProperties
<1>10. PICK v : v = t \o y
  OBVIOUS
<1>11. /\ v \in Seq(Names) /\ Len(v) = m - 1 + k
       /\ \A i \in 1 .. m - 1 + k : v[i] = IF i <= m - 1 THEN t[i] ELSE y[i - (m - 1)]
  <2>1. PICK n \in Nat : n = m - 1
    BY <1>2
  <2>2. t \in Seq(Names) /\ Len(t) = n
    BY <1>7, <2>1
  <2>3. /\ v \in Seq(Names) /\ Len(v) = n + k
        /\ \A i \in 1 .. n + k : v[i] = IF i <= n THEN t[i] ELSE y[i - n]
    BY <1>0, <1>3, <1>10, <2>2, ConcatProperties
  <2>. QED  BY <2>1, <2>3
<1>12. ASSUME NEW i \in 1 .. m + k - 1 PROVE u[i] = v[i]
  <2>1. i + 1 \in 1 .. m + k /\ i \in 1 .. m - 1 + k /\ i + 1 - m = i - (m - 1)
    OBVIOUS
  <2>2. u[i] = IF i + 1 <= m THEN x[i + 1] ELSE y[i + 1 - m]
    BY <1>4, <1>9, <2>1
  <2>3. CASE i <= m - 1
    BY <1>7, <1>11, <2>1, <2>2, <2>3
  <2>4. CASE ~(i <= m - 1)
    BY <1>11, <2>1, <2>2, <2>4
  <2>. QED  BY <2>3, <2>4
<1>13. u = v
  BY <1>9, <1>11, <1>12, SeqEqual
<1>14. Head(z) = Head(x)
  <2>1. Head(z) = z[1] /\ Head(x) = x[1]
    BY <1>0, <1>2, <1>4, <1>5
  <2>. QED  BY <1>4, <2>1
<1>. QED  BY <1>1, <1>5, <1>6, <1>8, <1>10, <1>13, <1>14

-----------------------------------------------------------------------------
(* Walks through the same directories.                                      *)

LEMMA StateFields ==
  /\ \A a, r, l : State(a, r, l).at = a /\ State(a, r, l).rest = r /\ State(a, r, l).links = l
  /\ \A a, r \in Path, l \in Nat : State(a, r, l) \in WalkState
  /\ \A s \in WalkState : /\ s.at \in Path /\ s.rest \in Path /\ s.links \in Nat
                          /\ s = State(s.at, s.rest, s.links)
BY DEF State, WalkState

LEMMA WalkValue ==
  ASSUME NEW f, NEW walk, IsWalk(f, walk), NEW s \in WalkState
  PROVE  walk[s] = IF Ends(f, s) THEN EndOf(f, s) ELSE walk[NextOf(f, s)]
BY DEF IsWalk

\* From d on, all names of y are directories; the last one may be a file if
\* nothing is behind it.
Trodden(f, d, y, rest) ==
  \A p, r \in Path : p \o r = d \o y /\ Len(p) > Len(d) =>
    /\ p \in DOMAIN f
    /\ f[p].is = "dir" \/ (f[p].is = "file" /\ r = <<>> /\ rest = <<>>)

\* A walk goes along them.
LEMMA WalkAlong ==
  ASSUME NEW f, Typed(f), NEW walk, IsWalk(f, walk), NEW d \in Path, NEW y \in Path,
         NEW rest \in Path, NEW l \in Nat, Trodden(f, d, y, rest)
  PROVE  walk[State(d, y \o rest, l)] = walk[State(d \o y, rest, l)]
<1>. DEFINE S == {s \in WalkState : \A x \in Path :
                    s.rest = x \o rest /\ s.at \o x = d \o y /\ Len(s.at) >= Len(d)
                      => walk[s] = walk[State(d \o y, rest, s.links)]}
<1>1. ASSUME NEW s \in WalkState, Ends(f, s) \/ NextOf(f, s) \in S PROVE s \in S
  <2>. SUFFICES ASSUME NEW x \in Path, s.rest = x \o rest, s.at \o x = d \o y, Len(s.at) >= Len(d)
                PROVE  walk[s] = walk[State(d \o y, rest, s.links)]
    OBVIOUS
  <2>0. s.at \in Path /\ s.rest \in Path /\ s.links \in Nat /\ s = State(s.at, s.rest, s.links)
    BY StateFields
  <2>1. CASE x = <<>>
    <3>1. s.rest = rest /\ s.at = d \o y
      BY <2>0, <2>1, Joined
    <3>. QED  BY <2>0, <3>1
  <2>2. CASE x # <<>>
    <3>1. PICK next : next = Append(s.at, Head(x))
      OBVIOUS
    <3>2. PICK t : t = Tail(x)
      OBVIOUS
    <3>3. next \in Path /\ t \in Path /\ next \o t = d \o y /\ Len(next) = Len(s.at) + 1
      BY <2>0, <2>2, <3>1, <3>2, StepAlong
    <3>4. s.rest # <<>> /\ NextPlace(s) = next /\ Tail(s.rest) = t \o rest
      <4>1. x \o rest # <<>> /\ Head(x \o rest) = Head(x) /\ Tail(x \o rest) = Tail(x) \o rest
        BY <2>2, HeadOfJoin
      <4>2. s.rest # <<>> /\ Head(s.rest) = Head(x) /\ Tail(s.rest) = t \o rest
        BY <3>2, <4>1, Zenon
      <4>. QED  BY <3>1, <4>2, Zenon DEF NextPlace
    <3>5. Len(next) > Len(d) /\ Len(next) >= Len(d)
      <4>1. Len(d) \in Nat /\ Len(s.at) \in Nat
        BY <2>0, Joined
      <4>. QED  BY <3>3, <4>1
    <3>6. next \in DOMAIN f /\ (f[next].is = "dir" \/ (f[next].is = "file" /\ t = <<>> /\ rest = <<>>))
      BY <3>3, <3>5 DEF Trodden
    <3>7. f[next].is = "file" => Tail(s.rest) = <<>>
      BY <3>4, <3>6, Joined
    <3>8. ~Ends(f, s)
      BY <3>4, <3>6, <3>7 DEF Ends
    <3>9. NextOf(f, s) = State(next, t \o rest, s.links)
      BY <3>4, <3>6 DEF NextOf, State
    <3>10. walk[s] = walk[NextOf(f, s)]
      BY <3>8, WalkValue
    <3>11. walk[NextOf(f, s)] = walk[State(d \o y, rest, s.links)]
      <4>1. PICK u \in WalkState : u = NextOf(f, s)
        BY <3>8, NextIsState
      <4>2. u \in S
        BY <1>1, <3>8, <4>1
      <4>3. PICK left \in Path : left = t \o rest
        BY <3>3, Joined
      <4>6. u = State(next, left, s.links)
        BY <3>9, <4>1, <4>3, Zenon
      <4>4. u.at = next /\ u.rest = t \o rest /\ u.links = s.links
        <5>1. u.at = next /\ u.rest = left /\ u.links = s.links
          <6>1. PICK k \in Nat : k = s.links
            BY <2>0
          <6>2. u = State(next, left, k)
            BY <4>6, <6>1, Zenon
          <6>3. State(next, left, k).at = next /\ State(next, left, k).rest = left /\ State(next, left, k).links = k
            BY StateFields
          <6>. QED  BY <6>1, <6>2, <6>3, Zenon
        <5>. QED  BY <4>3, <5>1
      <4>5. walk[u] = walk[State(d \o y, rest, u.links)]
        BY <3>3, <3>5, <4>2, <4>4
      <4>. QED  BY <4>1, <4>4, <4>5
    <3>. QED  BY <3>10, <3>11
  <2>. QED  BY <2>1, <2>2
<1>. HIDE DEF S
<1>2. WalkState \subseteq S
  BY <1>1, WalkInduction
<1>3. PICK s : s = State(d, y \o rest, l)
  OBVIOUS
<1>4. s \in WalkState /\ s.at = d /\ s.rest = y \o rest /\ s.links = l
  <2>1. PICK z \in Path : z = y \o rest
    BY Joined
  <2>2. s = State(d, z, l)
    BY <1>3, <2>1, Zenon
  <2>3. s \in WalkState /\ s.at = d /\ s.rest = z /\ s.links = l
    BY <2>2, StateFields
  <2>. QED  BY <2>1, <2>3
<1>5. Len(s.at) >= Len(d) /\ s.at \o y = d \o y
  BY <1>4, Joined
<1>. QED  BY <1>2, <1>3, <1>4, <1>5 DEF S

\* All that is there in f is there in g, of the same kind.
Extends(f, g) == \A p \in DOMAIN f : p \in DOMAIN g /\ g[p].is = f[p].is /\ (f[p].is = "link" => g[p].to = f[p].to)

NotFile(f, p) == p \in DOMAIN f \ {<<>>} => f[p].is # "file"

\* Where a walk in f leads, one in g goes on with the rest of the path.
LEMMA WalkOn ==
  ASSUME NEW f, NEW g, Typed(f), Extends(f, g), NEW from, IsWalk(f, from), NEW walk, IsWalk(g, walk), Typed(g),
         NEW rest \in Path, NEW s0 \in WalkState, from[s0].err = "none",
         rest = <<>> \/ NotFile(f, from[s0].at)
  PROVE  \E l \in 0 .. s0.links : walk[State(s0.at, s0.rest \o rest, s0.links)] = walk[State(from[s0].at, rest, l)]
<1>. DEFINE S == {s \in WalkState :
                    from[s].err = "none" /\ (rest = <<>> \/ NotFile(f, from[s].at)) =>
                      \E l \in 0 .. s.links :
                        walk[State(s.at, s.rest \o rest, s.links)] = walk[State(from[s].at, rest, l)]}
<1>1. ASSUME NEW s \in WalkState, Ends(f, s) \/ NextOf(f, s) \in S PROVE s \in S
  <2>. SUFFICES ASSUME from[s].err = "none", rest = <<>> \/ NotFile(f, from[s].at)
                PROVE  \E l \in 0 .. s.links :
                         walk[State(s.at, s.rest \o rest, s.links)] = walk[State(from[s].at, rest, l)]
    OBVIOUS
  <2>0. s.at \in Path /\ s.rest \in Path /\ s.links \in Nat
    BY StateFields
  <2>1. CASE Ends(f, s)
    <3>1. from[s] = EndOf(f, s)
      BY <2>1, WalkValue
    <3>2. s.rest = <<>> /\ from[s].at = s.at
      BY <3>1 DEF EndOf, Found, Missing, Failed, TooManyLinks
    <3>3. s.rest \o rest = rest /\ s.links \in 0 .. s.links
      BY <2>0, <3>2, Joined
    <3>. QED  BY <3>2, <3>3
  <2>2. CASE ~Ends(f, s)
    <3>1. PICK t : t = NextOf(f, s)
      OBVIOUS
    <3>2. t \in WalkState /\ from[s] = from[t]
      BY <2>2, <3>1, NextIsState, WalkValue
    <3>3. PICK next : next = NextPlace(s)
      OBVIOUS
    <3>4. PICK left : left = Tail(s.rest)
      OBVIOUS
    <3>5. PICK u : u = State(s.at, s.rest \o rest, s.links)
      OBVIOUS
    <3>6. u \in WalkState /\ u.at = s.at /\ u.rest = s.rest \o rest /\ u.links = s.links
      <4>1. PICK z \in Path : z = s.rest \o rest
        BY <2>0, Joined
      <4>2. u = State(s.at, z, s.links)
        BY <3>5, <4>1, Zenon
      <4>3. u \in WalkState /\ u.at = s.at /\ u.rest = z /\ u.links = s.links
        BY <2>0, <4>2, StateFields
      <4>. QED  BY <4>1, <4>3
    <3>7. s.rest # <<>> /\ next \in DOMAIN f
      BY <2>2, <3>3 DEF Ends
    <3>8. u.rest # <<>> /\ NextPlace(u) = next /\ Tail(u.rest) = left \o rest /\ left \in Path
      <4>1. PICK way \in Path : way = s.rest
        BY <2>0
      <4>2. way \o rest # <<>> /\ Head(way \o rest) = Head(way) /\ Tail(way \o rest) = Tail(way) \o rest
        BY <3>7, <4>1, HeadOfJoin
      <4>3. Tail(way) \in Path
        BY <3>7, <4>1, StepAlong
      <4>4. NextPlace(u) = NextPlace(s)
        BY <3>6, <4>1, <4>2 DEF NextPlace
      <4>. QED  BY <3>3, <3>4, <3>6, <4>1, <4>2, <4>3, <4>4
    <3>9. next \in DOMAIN g /\ g[next].is = f[next].is /\ (f[next].is = "link" => g[next].to = f[next].to)
      BY <3>7 DEF Extends
    <3>10. f[next].is = "file" => left \o rest = <<>>
      <4>. SUFFICES ASSUME f[next].is = "file" PROVE left \o rest = <<>>
        OBVIOUS
      <4>1. left = <<>>
        BY <2>2, <3>3, <3>4 DEF Ends
      <4>2. t = State(next, left, s.links)
        BY <3>1, <3>3, <3>4 DEF NextOf, State
      <4>3. Ends(f, t) /\ EndOf(f, t) = Found(next)
        BY <4>1, <4>2, StateFields DEF Ends, EndOf
      <4>4. from[s] = Found(next)
        BY <3>2, <4>3, WalkValue
      <4>5. next # <<>>
        <5>1. PICK h \in Names : h = Head(s.rest)
          BY <2>0, <3>7, HeadTailProperties DEF Path
        <5>2. Append(s.at, h) # <<>>
          <6>1. s.at \in Seq(Names)
            BY <2>0 DEF Path
          <6>. QED  BY <5>1, <6>1, AppendProperties
        <5>. QED  BY <3>3, <5>1, <5>2 DEF NextPlace
      <4>6. rest = <<>>
        BY <3>7, <4>4, <4>5 DEF Found, NotFile
      <4>. QED  BY <4>1, <4>6, Joined
    <3>11. f[next].is = "link" => s.links # 0
      BY <2>2, <3>3 DEF Ends
    <3>12. ~Ends(g, u)
      BY <3>6, <3>8, <3>9, <3>10, <3>11 DEF Ends
    <3>13. walk[u] = walk[NextOf(g, u)]
      BY <3>6, <3>12, WalkValue
    <3>14. NextOf(g, u) = State(t.at, t.rest \o rest, t.links) /\ t.links <= s.links /\ t.links \in Nat
      <4>1. CASE f[next].is = "link"
        <5>1. PICK to \in Path : to = f[next].to
          BY <3>7 DEF Typed
        <5>2. t = State(<<>>, to \o left, s.links - 1)
          BY <3>1, <3>3, <3>4, <4>1, <5>1 DEF NextOf, State
        <5>3. NextOf(g, u) = State(<<>>, to \o (left \o rest), s.links - 1)
          BY <3>6, <3>8, <3>9, <4>1, <5>1 DEF NextOf, State
        <5>4. to \o (left \o rest) = (to \o left) \o rest
          BY <3>8, <5>1, JoinedTwice
        <5>5. s.links - 1 \in Nat /\ s.links - 1 <= s.links
          BY <2>0, <3>11, <4>1
        <5>. QED  BY <5>2, <5>3, <5>4, <5>5, StateFields
      <4>2. CASE f[next].is # "link"
        <5>1. t = State(next, left, s.links)
          BY <3>1, <3>3, <3>4, <4>2 DEF NextOf, State
        <5>2. NextOf(g, u) = State(next, left \o rest, s.links)
          BY <3>6, <3>8, <3>9, <4>2 DEF NextOf, State
        <5>. QED  BY <2>0, <5>1, <5>2, StateFields
      <4>. QED  BY <4>1, <4>2
    <3>15. PICK l \in 0 .. t.links : walk[State(t.at, t.rest \o rest, t.links)] = walk[State(from[t].at, rest, l)]
      BY <1>1, <2>2, <3>1, <3>2
    <3>16. l \in 0 .. s.links
      BY <2>0, <3>14
    <3>. QED  BY <3>2, <3>5, <3>13, <3>14, <3>15, <3>16
  <2>. QED  BY <2>1, <2>2
<1>. HIDE DEF S
<1>2. WalkState \subseteq S
  BY <1>1, WalkInduction
<1>. QED  BY <1>2 DEF S

\* With more links to follow a walk comes to the same, if it was not for the
\* links that it failed.
LEMMA WalkFurther ==
  ASSUME NEW f, Typed(f), NEW walk, IsWalk(f, walk), NEW s0 \in WalkState, NEW m \in Nat, s0.links <= m
  PROVE  walk[s0] = TooManyLinks \/ walk[s0] = walk[State(s0.at, s0.rest, m)]
<1>. DEFINE S == {s \in WalkState : \A k \in Nat : s.links <= k =>
                    walk[s] = TooManyLinks \/ walk[s] = walk[State(s.at, s.rest, k)]}
<1>1. ASSUME NEW s \in WalkState, Ends(f, s) \/ NextOf(f, s) \in S PROVE s \in S
  <2>. SUFFICES ASSUME NEW k \in Nat, s.links <= k, walk[s] # TooManyLinks
                PROVE  walk[s] = walk[State(s.at, s.rest, k)]
    OBVIOUS
  <2>0. s.at \in Path /\ s.rest \in Path /\ s.links \in Nat
    BY StateFields
  <2>1. PICK u : u = State(s.at, s.rest, k)
    OBVIOUS
  <2>2. u \in WalkState /\ u.at = s.at /\ u.rest = s.rest /\ u.links = k
    BY <2>0, <2>1, StateFields
  <2>3. NextPlace(u) = NextPlace(s)
    BY <2>2 DEF NextPlace
  <2>4. CASE Ends(f, s)
    <3>1. walk[s] = EndOf(f, s)
      BY <2>4, WalkValue
    <3>2. ~(s.rest # <<>> /\ NextPlace(s) \in DOMAIN f /\ f[NextPlace(s)].is = "link")
      BY <3>1 DEF EndOf
    <3>3. Ends(f, u) /\ EndOf(f, u) = EndOf(f, s)
      BY <2>2, <2>3, <2>4, <3>2 DEF Ends, EndOf
    <3>. QED  BY <2>1, <2>2, <3>1, <3>3, WalkValue
  <2>5. CASE ~Ends(f, s)
    <3>1. PICK t : t = NextOf(f, s)
      OBVIOUS
    <3>2. t \in WalkState /\ walk[s] = walk[t]
      BY <2>5, <3>1, NextIsState, WalkValue
    <3>3. f[NextPlace(s)].is = "link" => s.links # 0
      BY <2>5 DEF Ends
    <3>4. ~Ends(f, u)
      BY <2>0, <2>2, <2>3, <2>5, <3>3 DEF Ends
    <3>5. walk[u] = walk[NextOf(f, u)]
      BY <2>2, <3>4, WalkValue
    <3>6. \E n \in Nat : t.links <= n /\ NextOf(f, u) = State(t.at, t.rest, n)
      <4>1. CASE f[NextPlace(s)].is = "link"
        <5>1. PICK to : to = f[NextPlace(s)].to \o Tail(s.rest)
          OBVIOUS
        <5>2. t = State(<<>>, to, s.links - 1) /\ NextOf(f, u) = State(<<>>, to, k - 1)
          BY <2>2, <2>3, <3>1, <4>1, <5>1 DEF NextOf, State
        <5>3. k - 1 \in Nat /\ s.links - 1 <= k - 1
          BY <2>0, <3>3, <4>1
        <5>. QED  BY <5>2, <5>3, StateFields
      <4>2. CASE f[NextPlace(s)].is # "link"
        <5>1. PICK next : next = NextPlace(s)
          OBVIOUS
        <5>2. PICK left : left = Tail(s.rest)
          OBVIOUS
        <5>3. t = State(next, left, s.links) /\ NextOf(f, u) = State(next, left, k)
          BY <2>2, <2>3, <3>1, <4>2, <5>1, <5>2 DEF NextOf, State
        <5>. QED  BY <5>3, StateFields
      <4>. QED  BY <4>1, <4>2
    <3>7. PICK n \in Nat : t.links <= n /\ NextOf(f, u) = State(t.at, t.rest, n)
      BY <3>6
    <3>8. walk[t] = walk[State(t.at, t.rest, n)]
      BY <1>1, <2>5, <3>1, <3>2, <3>7
    <3>. QED  BY <2>1, <3>2, <3>5, <3>7, <3>8
  <2>. QED  BY <2>4, <2>5
<1>. HIDE DEF S
<1>2. WalkState \subseteq S
  BY <1>1, WalkInduction
<1>. QED  BY <1>2 DEF S

\* A walk leads to what is not a link.
Place(f, p) == p = <<>> \/ (p \in DOMAIN f /\ f[p].is # "link")

LEMMA WalkFinds ==
  ASSUME NEW f, Typed(f), NEW walk, IsWalk(f, walk), NEW s0 \in WalkState, Place(f, s0.at),
         walk[s0].err = "none"
  PROVE  Place(f, walk[s0].at)
<1>. DEFINE S == {s \in WalkState : Place(f, s.at) /\ walk[s].err = "none" => Place(f, walk[s].at)}
<1>1. ASSUME NEW s \in WalkState, Ends(f, s) \/ NextOf(f, s) \in S PROVE s \in S
  <2>. SUFFICES ASSUME Place(f, s.at), walk[s].err = "none" PROVE Place(f, walk[s].at)
    OBVIOUS
  <2>1. CASE Ends(f, s)
    <3>1. walk[s] = EndOf(f, s)
      BY <2>1, WalkValue
    <3>2. walk[s] = Found(s.at)
      BY <3>1 DEF EndOf, Missing, Failed, TooManyLinks
    <3>. QED  BY <3>2 DEF Found
  <2>2. CASE ~Ends(f, s)
    <3>1. PICK t : t = NextOf(f, s)
      OBVIOUS
    <3>2. walk[s] = walk[t]
      BY <2>2, <3>1, WalkValue
    <3>3. NextPlace(s) \in DOMAIN f
      BY <2>2 DEF Ends
    <3>4. Place(f, t.at)
      BY <3>1, <3>3 DEF NextOf, Place
    <3>. QED  BY <1>1, <2>2, <3>1, <3>2, <3>4
  <2>. QED  BY <2>1, <2>2
<1>. HIDE DEF S
<1>2. WalkState \subseteq S
  BY <1>1, WalkInduction
<1>. QED  BY <1>2 DEF S

\* A walk to d goes on to d \o rest.
LEMMA WalkAcross ==
  ASSUME NEW f, NEW g, Typed(f), Typed(g), Extends(f, g), NEW from, IsWalk(f, from), NEW walk, IsWalk(g, walk),
         NEW near \in Path, NEW d \in Path, NEW rest \in Path, NEW m \in Nat,
         from[State(<<>>, near, m)] = Found(d), rest = <<>> \/ NotFile(f, d), Trodden(g, d, rest, <<>>)
  PROVE  walk[State(<<>>, near \o rest, m)] = Found(d \o rest)
<1>1. <<>> \in Path
  BY Joined
<1>2. PICK s : s = State(<<>>, near, m)
  OBVIOUS
<1>3. s \in WalkState /\ s.at = <<>> /\ s.rest = near /\ s.links = m
  BY <1>1, <1>2, StateFields
<1>4. from[s].err = "none" /\ from[s].at = d
  BY <1>2 DEF Found
<1>5. PICK l \in 0 .. m : walk[State(s.at, s.rest \o rest, s.links)] = walk[State(from[s].at, rest, l)]
  BY <1>3, <1>4, WalkOn
<1>6. walk[State(<<>>, near \o rest, m)] = walk[State(d, rest, l)]
  BY <1>3, <1>4, <1>5, Zenon
<1>7. l \in Nat
  OBVIOUS
<1>8. walk[State(d, rest \o <<>>, l)] = walk[State(d \o rest, <<>>, l)]
  <2>1. PICK none \in Path : none = <<>>
    BY <1>1
  <2>2. Trodden(g, d, rest, none)
    BY <2>1
  <2>3. walk[State(d, rest \o none, l)] = walk[State(d \o rest, none, l)]
    BY <1>7, <2>2, WalkAlong
  <2>. QED  BY <2>1, <2>3
<1>9. rest \o <<>> = rest
  BY Joined
<1>10. PICK at \in Path : at = d \o rest
  BY Joined
<1>11. PICK t : t = State(at, <<>>, l)
  OBVIOUS
<1>12. t \in WalkState /\ t.at = at /\ t.rest = <<>>
  BY <1>1, <1>7, <1>11, StateFields
<1>13. walk[t] = Found(at)
  BY <1>12, WalkValue DEF Ends, EndOf
<1>. QED  BY <1>6, <1>8, <1>9, <1>10, <1>11, <1>13, Zenon

-----------------------------------------------------------------------------
(* Where a file is written.                                                 *)

\* The restriction of a sequence to what is behind a place above it.
LEMMA AboveRest ==
  ASSUME NEW path \in Path, NEW q \in Above(path)
  PROVE  /\ SubSeq(path, Len(q) + 1, Len(path)) \in Path
         /\ SubSeq(path, Len(q) + 1, Len(path)) # <<>>
         /\ path = q \o SubSeq(path, Len(q) + 1, Len(path))
<1>1. PICK r \in Path : r # <<>> /\ path = q \o r
  BY AboveIsFront
<1>2. q \in Path
  BY AboveTyped
<1>3. SubSeq(q \o r, Len(q) + 1, Len(q \o r)) = r
  <2>1. PICK n \in Nat : n = Len(q)
    BY <1>2, Joined
  <2>2. PICK m \in Nat : m = Len(r) /\ Len(q \o r) = n + m /\ m # 0
    <3>1. Len(r) # 0
      BY <1>1, EmptySeq DEF Path
    <3>. QED  BY <1>2, <2>1, <3>1, Joined
  <2>3. n + 1 \in Len(q) + 1 .. Len(q) + Len(r) /\ n + m \in n + 1 .. Len(q) + Len(r)
    BY <2>1, <2>2
  <2>4. SubSeq(q \o r, n + 1, n + m) = SubSeq(r, n + 1 - Len(q), n + m - Len(q))
    BY <1>2, <2>3, SubSeqOfConcat2 DEF Path
  <2>5. n + 1 - Len(q) = 1 /\ n + m - Len(q) = m
    BY <2>1
  <2>6. SubSeq(r, 1, m) = r
    BY <2>2, SubSeqFull DEF Path
  <2>. QED  BY <2>1, <2>2, <2>4, <2>5, <2>6
<1>. QED  BY <1>1, <1>3

LEMMA AboveOfAbove ==
  ASSUME NEW path \in Path, NEW p \in Above(path), NEW q \in Above(p)
  PROVE  q \in Above(path)
<1>1. PICK r \in Path : r # <<>> /\ path = p \o r
  BY AboveIsFront
<1>2. p \in Path
  BY AboveTyped
<1>3. PICK s \in Path : s # <<>> /\ p = q \o s
  BY <1>2, AboveIsFront
<1>4. q \in Path
  BY <1>2, AboveTyped
<1>5. path = q \o (s \o r)
  BY <1>1, <1>3, <1>4, JoinedTwice
<1>6. PICK t \in Path : t = s \o r /\ t # <<>>
  BY <1>1, <1>3, Joined, HeadOfJoin
<1>. QED  BY <1>4, <1>5, <1>6, FrontIsAbove

\* What is above d \o rest is behind d, d itself, or above d.
LEMMA AboveSplit ==
  ASSUME NEW d \in Path, NEW rest \in Path, NEW q \in Above(d \o rest), ~(Len(q) > Len(d))
  PROVE  q = d \/ q \in Above(d)
<1>1. PICK n \in 0 .. Len(d \o rest) - 1 : q = SubSeq(d \o rest, 1, n)
  BY DEF Above
<1>2. PICK k \in Nat : k = Len(d)
  BY Joined
<1>3. Len(q) = n
  <2>1. PICK at \in Path : at = d \o rest
    BY Joined
  <2>2. PICK m \in Nat : m = Len(at)
    BY <2>1, Joined
  <2>. QED  BY <1>1, <2>1, <2>2 DEF Path
<1>4. n <= k
  BY <1>1, <1>2, <1>3
<1>5. CASE n = k
  BY <1>1, <1>2, <1>5, Joined
<1>6. CASE n = 0 /\ n # k
  <2>1. SubSeq(d \o rest, 1, 0) = <<>> /\ SubSeq(d, 1, 0) = <<>>
    BY SubSeqEmpty
  <2>2. 0 \in 0 .. Len(d) - 1
    BY <1>2, <1>6
  <2>. QED  BY <1>1, <1>6, <2>1, <2>2 DEF Above
<1>7. CASE n # 0 /\ n # k
  <2>1. 1 \in 1 .. Len(d) /\ n \in 1 .. Len(d) /\ n \in 0 .. Len(d) - 1
    BY <1>1, <1>2, <1>4, <1>7
  <2>2. SubSeq(d \o rest, 1, n) = SubSeq(d, 1, n)
    BY <2>1, SubSeqOfConcat1 DEF Path
  <2>. QED  BY <1>1, <2>1, <2>2 DEF Above
<1>. QED  BY <1>5, <1>6, <1>7

\* Lstat of a name in what a path leads to.
LEMMA LstatNext ==
  ASSUME NEW near \in Path, NEW name \in Names, NEW parent, parent = Walk(near), parent.err = "none",
         parent.at = <<>> \/ fs[parent.at].is = "dir", Append(parent.at, name) \in DOMAIN fs
  PROVE  Lstat(Append(near, name)) = "none"
<1>1. PICK p : p = Append(near, name)
  OBVIOUS
<1>2. near \in Seq(Names)
  BY DEF Path
<1>3. PICK n \in Nat : n = Len(near)
  BY <1>2
<1>4. p \in Seq(Names) /\ Len(p) = n + 1 /\ p[n + 1] = name /\ \A i \in 1 .. n : p[i] = near[i]
  BY <1>1, <1>2, <1>3, AppendProperties
<1>5. p # <<>>
  <2>1. Len(p) # 0
    BY <1>4
  <2>. QED  BY <2>1, EmptySeq
<1>6. Last(p) = name
  BY <1>4 DEF Last
<1>7. Front(p) = near
  <2>1. Front(p) = SubSeq(p, 1, n)
    <3>1. Len(p) - 1 = n
      BY <1>4
    <3>. QED  BY <3>1 DEF Front
  <2>2. near \o <<name>> = p
    BY <1>1, <1>2, AppendIsConcat
  <2>3. PICK one : one = <<name>>
    OBVIOUS
  <2>4. one \in Path
    BY <2>3 DEF Path
  <2>5. SubSeq(near \o one, 1, n) = near
    BY <1>3, <2>4, Joined
  <2>. QED  BY <2>1, <2>2, <2>3, <2>5
<1>8. ~(parent.at # <<>> /\ fs[parent.at].is # "dir")
  OBVIOUS
<1>. QED  BY <1>1, <1>5, <1>6, <1>7, <1>8 DEF Lstat

\* What there is lies in directories, and the workspace is one.
Rooted(f) ==
  /\ \A p \in DOMAIN f : /\ f[p].is \in {"dir", "file", "link"}
                         /\ \A q \in Above(p) \ {<<>>} : q \in DOMAIN f /\ f[q].is = "dir"
  /\ Root \in DOMAIN f /\ f[Root].is = "dir"

\* A write that is not blocked goes to what the beginning of the path leads to
\* and the rest of it, of which nothing is there.
WayTo(target, at, near, d, rest) ==
  /\ target = near \o rest /\ at = d \o rest
  /\ Walk(near) = Found(d)
  /\ Place(fs, d)
  /\ rest = <<>> \/ NotFile(fs, d)
  /\ \A p, r \in Path : p \o r = d \o rest /\ Len(p) > Len(d) => p \notin DOMAIN fs

LEMMA WalkPlace ==
  ASSUME FilesTyped, NEW path \in Path, Walk(path).err = "none"
  PROVE  Walk(path) = Found(Walk(path).at) /\ Walk(path).at \in Path /\ Place(fs, Walk(path).at)
<1>1. PICK walk : IsWalk(fs, walk) /\ Walk(path) = walk[State(<<>>, path, MaxLinks)]
  BY WalkIsOne DEF FilesTyped
<1>2. PICK s : s = State(<<>>, path, MaxLinks)
  OBVIOUS
<1>3. s \in WalkState /\ s.at = <<>>
  BY <1>2, WorkspaceAssumption, Joined, StateFields
<1>4. Place(fs, s.at)
  BY <1>3 DEF Place
<1>5. Place(fs, walk[s].at)
  BY <1>1, <1>2, <1>3, <1>4, WalkFinds DEF FilesTyped
<1>6. PICK found \in Outcome : found = Walk(path)
  BY WalkTyped
<1>7. found.at \in Path /\ found = Found(found.at)
  BY <1>6 DEF Outcome, Found
<1>. QED  BY <1>1, <1>2, <1>5, <1>6, <1>7

\* The end of a path of which a beginning is the longest that is there.
LEMMA NewWay ==
  ASSUME FilesTyped, Rooted(fs), NEW target \in Path, target # <<>>, Lstat(target) # "none",
         NewTarget(target).err = "none",
         \A q \in Above(NewTarget(target).at) \ {<<>>} : NotFile(fs, q)
  PROVE  \E near, d, rest \in Path : WayTo(target, NewTarget(target).at, near, d, rest)
<1>. DEFINE there == {p \in Above(target) : Lstat(p) # "missing"}
<1>1. PICK near : near = (CHOOSE p \in there : \A q \in there : Len(q) <= Len(p))
  OBVIOUS
<1>2. near \in Above(target) /\ \A q \in there : Len(q) <= Len(near)
  BY <1>1, NearestLongest
<1>3. near \in Path
  BY <1>2, AboveTyped
<1>4. PICK rest \in Path : rest = SubSeq(target, Len(near) + 1, Len(target))
  BY <1>2, AboveRest
<1>5. rest # <<>> /\ target = near \o rest
  BY <1>2, <1>4, AboveRest
<1>6. NewTarget(target) = IF Lstat(near) # "none" \/ Walk(near).err # "none" THEN Failed
                          ELSE Found(Walk(near).at \o rest)
  BY <1>1, <1>4 DEF NewTarget
<1>7. Walk(near).err = "none" /\ NewTarget(target).at = Walk(near).at \o rest
  BY <1>6 DEF Failed, Found
<1>8. PICK d \in Path : d = Walk(near).at
  BY <1>3, <1>7, WalkPlace DEF FilesTyped
<1>9. Walk(near) = Found(d) /\ Place(fs, d)
  BY <1>3, <1>7, <1>8, WalkPlace
<1>10. d = <<>> \/ NotFile(fs, d)
  <2>1. d \in Above(d \o rest)
    BY <1>5, FrontIsAbove
  <2>. QED  BY <1>7, <1>8, <2>1
<1>11. d = <<>> \/ fs[d].is = "dir"
  BY <1>9, <1>10 DEF Place, NotFile, Rooted
<1>12. PICK name \in Names : name = Head(rest)
  BY <1>5, HeadTailProperties DEF Path
<1>13. PICK left \in Path : left = Tail(rest)
  BY <1>5, HeadTailProperties DEF Path
<1>14. PICK next \in Path : next = Append(near, name) /\ next \o left = target /\ Len(next) = Len(near) + 1
  BY <1>3, <1>5, <1>12, <1>13, StepAlong
<1>15. Lstat(next) # "none"
  <2>1. CASE left = <<>>
    <3>1. next = target
      BY <1>14, <2>1, Joined
    <3>. QED  BY <3>1
  <2>2. CASE left # <<>>
    <3>1. next \in Above(target)
      BY <1>14, <2>2, FrontIsAbove
    <3>2. ~(Len(next) <= Len(near))
      <4>1. Len(near) \in Nat
        BY <1>3, Joined
      <4>. QED  BY <1>14, <4>1
    <3>3. next \notin there
      BY <1>2, <3>2
    <3>. QED  BY <3>1, <3>3
  <2>. QED  BY <2>1, <2>2
<1>16. Append(d, name) \notin DOMAIN fs
  BY <1>3, <1>7, <1>8, <1>11, <1>14, <1>15, LstatNext
<1>17. ASSUME NEW p \in Path, NEW r \in Path, p \o r = d \o rest, Len(p) > Len(d), p \in DOMAIN fs
       PROVE  FALSE
  <2>1. PICK a : a = Append(d, name)
    OBVIOUS
  <2>2. a = p \/ a \in Above(p)
    BY <1>5, <1>12, <1>17, <2>1, FirstBehind
  <2>3. a # <<>>
    <3>1. Len(a) # 0
      <4>1. Len(d) \in Nat
        BY Joined
      <4>2. Len(a) = Len(d) + 1
        BY <1>5, <1>12, <2>1, StepAlong
      <4>. QED  BY <4>1, <4>2
    <3>. QED  BY <3>1, EmptySeq
  <2>4. a \in DOMAIN fs
    BY <1>17, <2>2, <2>3 DEF Rooted
  <2>. QED  BY <1>16, <2>1, <2>4
<1>18. rest = <<>> \/ NotFile(fs, d)
  BY <1>11 DEF NotFile
<1>19. WayTo(target, NewTarget(target).at, near, d, rest)
  BY <1>5, <1>7, <1>8, <1>9, <1>17, <1>18 DEF WayTo
<1>. QED  BY <1>3, <1>19

LEMMA WriteWay ==
  ASSUME FilesTyped, Rooted(fs), Root \in Path, NEW path \in Seq(STRING), NEW target \in Path,
         target = Root \o Clean(path), NEW at \in Path, SecurePath(path, TRUE) = Found(at),
         \A q \in Above(at) \ {<<>>} : NotFile(fs, q)
  PROVE  \E near, d, rest \in Path : WayTo(target, at, near, d, rest)
<1>1. PICK found : found = IF Lstat(target) # "none" THEN NewTarget(target) ELSE Walk(target)
  OBVIOUS
<1>2. found = Found(at)
  <2>1. SecurePath(path, TRUE) = IF found.err # "none" \/ ~Inside(found.at) THEN Failed ELSE found
    BY <1>1 DEF SecurePath
  <2>2. Failed.err = "other" /\ Found(at).err = "none"
    BY DEF Failed, Found
  <2>. QED  BY <2>1, <2>2
<1>3. found.err = "none" /\ found.at = at
  BY <1>2 DEF Found
<1>4. CASE Lstat(target) # "none"
  <2>1. target # <<>>
    BY <1>4 DEF Lstat
  <2>2. NewTarget(target).err = "none" /\ NewTarget(target).at = at
    BY <1>1, <1>3, <1>4
  <2>. QED  BY <1>4, <2>1, <2>2, NewWay
<1>5. CASE Lstat(target) = "none"
  <2>1. Walk(target) = Found(at)
    BY <1>1, <1>2, <1>5
  <2>2. Place(fs, at)
    BY <1>1, <1>3, <1>5, WalkPlace
  <2>3. <<>> \in Path /\ target = target \o <<>> /\ at = at \o <<>>
    BY Joined
  <2>4. ASSUME NEW p \in Path, NEW r \in Path, p \o r = at \o <<>>, Len(p) > Len(at) PROVE FALSE
    <3>1. Len(p) + Len(r) = Len(at) /\ Len(p) \in Nat /\ Len(r) \in Nat /\ Len(at) \in Nat
      BY <2>3, <2>4, Joined
    <3>. QED  BY <2>4, <3>1
  <2>5. WayTo(target, at, target, at, <<>>)
    BY <2>1, <2>2, <2>3, <2>4 DEF WayTo
  <2>. QED  BY <2>3, <2>5
<1>. QED  BY <1>4, <1>5

\* So the parents of the file that are there are directories.
LEMMA ParentsAreDirs ==
  ASSUME Rooted(fs), NEW target, NEW at \in Path, NEW near \in Path, NEW d \in Path, NEW rest \in Path,
         WayTo(target, at, near, d, rest), NEW q \in Above(at) \ {<<>>}, NotFile(fs, q), q \in DOMAIN fs
  PROVE  fs[q].is = "dir"
<1>1. at = d \o rest /\ Place(fs, d)
  BY DEF WayTo
<1>2. q \in Path
  BY AboveTyped
<1>3. ~(Len(q) > Len(d))
  <2>1. PICK r \in Path : at = q \o r
    BY AboveIsFront
  <2>. QED  BY <1>1, <1>2, <2>1 DEF WayTo
<1>4. q = d \/ q \in Above(d)
  BY <1>1, <1>3, AboveSplit
<1>5. CASE q = d
  BY <1>1, <1>5 DEF Place, NotFile, Rooted
<1>6. CASE q \in Above(d)
  <2>1. d # <<>>
    <3>1. Len(q) \in Nat /\ Len(q) < Len(d)
      BY <1>6, AboveTyped
    <3>2. Len(d) # 0
      BY <3>1
    <3>. QED  BY <3>2, EmptySeq
  <2>2. d \in DOMAIN fs
    BY <1>1, <2>1 DEF Place
  <2>. QED  BY <1>6, <2>2 DEF Rooted
<1>. QED  BY <1>4, <1>5, <1>6

-----------------------------------------------------------------------------
(* The invariant.                                                           *)

\* The parents of the workspace are there from the beginning, so that no
\* write creates one; and a write puts a file where directories lead.
FilesInv == /\ Root \in Path
            /\ FilesTyped
            /\ Rooted(fs)
            /\ \A q \in Above(Root) \ {<<>>} : q \in DOMAIN begin
            /\ OnlyWorkspaceChanges

\* What lies above a place in the workspace lies in it or above it.
LEMMA AboveInside ==
  ASSUME Root \in Path, NEW at \in Path, IsPrefix(Root, at), NEW q \in Above(at)
  PROVE  IsPrefix(Root, q) \/ q \in Above(Root)
<1>1. PICK n \in 0 .. Len(at) - 1 : q = SubSeq(at, 1, n)
  BY DEF Above
<1>2. PICK r \in Nat : r = Len(Root)
  BY DEF Path
<1>3. PICK a \in Nat : a = Len(at)
  BY DEF Path
<1>4. r <= a /\ SubSeq(Root, 1, r) = SubSeq(at, 1, r)
  BY <1>2, <1>3 DEF IsPrefix
<1>5. SubSeq(Root, 1, r) = Root
  BY <1>2, SubSeqFull DEF Path
<1>6. CASE r <= n
  <2>1. SubSeq(SubSeq(at, 1, n), 1, r) = SubSeq(at, 1, r)
    <3>1. CASE r = 0
      BY <3>1, SubSeqEmpty
    <3>2. CASE r > 0
      <4>1. 1 \in 1 .. Len(at) /\ n \in 1 .. Len(at) /\ 1 \in 1 .. n - 1 + 1 /\ r \in 1 .. n - 1 + 1
        BY <1>1, <1>3, <1>6, <3>2
      <4>2. SubSeq(SubSeq(at, 1, n), 1, r) = SubSeq(at, 1 + 1 - 1, 1 + r - 1)
        BY <4>1, SubSeqOfSubSeq DEF Path
      <4>3. 1 + 1 - 1 = 1 /\ 1 + r - 1 = r
        BY <1>1, <1>2
      <4>. QED  BY <4>2, <4>3
    <3>3. r = 0 \/ r > 0
      BY <1>1, <1>2
    <3>. QED  BY <3>1, <3>2, <3>3
  <2>2. Len(q) = n
    BY <1>1, <1>3 DEF Path
  <2>. QED  BY <1>1, <1>2, <1>4, <1>6, <2>1, <2>2 DEF IsPrefix
<1>7. CASE n < r
  <2>1. SubSeq(SubSeq(at, 1, r), 1, n) = SubSeq(at, 1, n)
    <3>1. CASE n = 0
      BY <3>1, SubSeqEmpty
    <3>2. CASE n > 0
      <4>1. 1 \in 1 .. Len(at) /\ r \in 1 .. Len(at) /\ 1 \in 1 .. r - 1 + 1 /\ n \in 1 .. r - 1 + 1
        BY <1>1, <1>3, <1>4, <1>7, <3>2
      <4>2. SubSeq(SubSeq(at, 1, r), 1, n) = SubSeq(at, 1 + 1 - 1, 1 + n - 1)
        BY <4>1, SubSeqOfSubSeq DEF Path
      <4>3. 1 + 1 - 1 = 1 /\ 1 + n - 1 = n
        BY <1>1, <1>2
      <4>. QED  BY <4>2, <4>3
    <3>3. n = 0 \/ n > 0
      BY <1>1, <1>2
    <3>. QED  BY <3>1, <3>2, <3>3
  <2>2. q = SubSeq(Root, 1, n) /\ n \in 0 .. Len(Root) - 1
    BY <1>1, <1>2, <1>4, <1>5, <1>7, <2>1
  <2>. QED  BY <2>2 DEF Above
<1>. QED  BY <1>1, <1>2, <1>6, <1>7

\* What a write that succeeds puts there.
Written(target, at, near, d, rest) ==
  /\ IsPrefix(Root, at)
  /\ at \in DOMAIN fs => fs[at].is = "file"
  /\ WayTo(target, at, near, d, rest)
  /\ \A q \in Above(at) \ {<<>>} : NotFile(fs, q)
  /\ DOMAIN fs' = {at} \cup DOMAIN fs \cup (Above(at) \ {<<>>})
  /\ \A p \in DOMAIN fs' : fs'[p] = IF p = at THEN File("new")
                                    ELSE IF p \in DOMAIN fs THEN fs[p] ELSE Dir

LEMMA WriteEffect ==
  ASSUME FilesInv, NEW path \in Seq(STRING), Write(path), last'.data # ""
  PROVE  /\ last' = [op |-> "write", path |-> path, data |-> "new"]
         /\ \E at, near, d, rest \in Path : Written(Root \o Clean(path), at, near, d, rest)
<1>1. PICK p : p = SecurePath(path, TRUE)
  OBVIOUS
<1>2. PICK parents : parents = Above(p.at) \ {<<>>}
  OBVIOUS
<1>3. /\ p.err = "none"
      /\ p.at \in DOMAIN fs => fs[p.at].is = "file"
      /\ \A q \in parents \cap DOMAIN fs : fs[q].is # "file"
      /\ fs' = [q \in {p.at} \cup DOMAIN fs \cup parents |->
                  IF q = p.at THEN File("new") ELSE IF q \in DOMAIN fs THEN fs[q] ELSE Dir]
      /\ last' = [op |-> "write", path |-> path, data |-> "new"]
  BY <1>1, <1>2 DEF Write
<1>4. p.at \in Path /\ IsPrefix(Root, p.at) /\ p = Found(p.at)
  BY <1>1, <1>3, SecurePathInside DEF FilesInv
<1>5. PICK at \in Path : at = p.at
  BY <1>4
<1>6. \A q \in Above(at) \ {<<>>} : NotFile(fs, q)
  BY <1>2, <1>3, <1>5 DEF NotFile
<1>7. PICK target \in Path : target = Root \o Clean(path)
  BY CleanTyped, ConcatProperties DEF FilesInv, Path
<1>8. PICK near, d, rest \in Path : WayTo(target, at, near, d, rest)
  BY <1>1, <1>4, <1>5, <1>6, <1>7, WriteWay DEF FilesInv
<1>9. Written(target, at, near, d, rest)
  BY <1>2, <1>3, <1>4, <1>5, <1>6, <1>8 DEF Written
<1>. QED  BY <1>3, <1>7, <1>9

\* A write that fails changes nothing.
LEMMA WriteFails ==
  ASSUME NEW path, Write(path), last'.data = ""
  PROVE  fs' = fs
BY DEF Write

LEMMA WriteKeeps ==
  ASSUME FilesInv, NEW path \in Seq(STRING), Write(path), begin' = begin
  PROVE  FilesInv'
<1>1. CASE last'.data = ""
  <2>1. fs' = fs
    BY <1>1, WriteFails
  <2>. QED  BY <2>1 DEF FilesInv, FilesTyped, Rooted, OnlyWorkspaceChanges
<1>2. CASE last'.data # ""
  <2>0. PICK at, near, d, rest \in Path : Written(Root \o Clean(path), at, near, d, rest)
    BY <1>2, WriteEffect
  <2>1. /\ IsPrefix(Root, at)
        /\ at \in DOMAIN fs => fs[at].is = "file"
        /\ DOMAIN fs' = {at} \cup DOMAIN fs \cup (Above(at) \ {<<>>})
        /\ \A p \in DOMAIN fs' : fs'[p] = IF p = at THEN File("new")
                                          ELSE IF p \in DOMAIN fs THEN fs[p] ELSE Dir
    BY <2>0 DEF Written
  <2>2. FilesTyped'
    <3>1. <<>> \in Seq(Names)
      OBVIOUS
    <3>2. File("new").to \in Path /\ Dir.to \in Path
      BY <3>1 DEF File, Dir, Path
    <3>3. \A p \in Above(at) : p \in Path
      BY AboveTyped
    <3>. QED  BY <2>1, <3>2, <3>3 DEF FilesInv, FilesTyped, Typed
  <2>5. Rooted(fs')
    <3>1. ASSUME NEW q \in Above(at) \ {<<>>} PROVE q \in DOMAIN fs' /\ fs'[q].is = "dir"
      <4>1. q # at
        <5>1. Len(q) \in Nat /\ Len(q) < Len(at)
          BY AboveTyped
        <5>. QED  BY <5>1
      <4>2. q \in DOMAIN fs => fs[q].is = "dir"
        BY <2>0, ParentsAreDirs DEF Written, FilesInv
      <4>3. q \in DOMAIN fs'
        BY <2>1
      <4>4. fs'[q] = IF q \in DOMAIN fs THEN fs[q] ELSE Dir
        BY <2>1, <4>1, <4>3
      <4>5. Dir.is = "dir"
        BY DEF Dir
      <4>. QED  BY <4>2, <4>3, <4>4, <4>5
    <3>2. ASSUME NEW p \in DOMAIN fs, fs[p].is = "dir" PROVE p \in DOMAIN fs' /\ fs'[p].is = "dir"
      BY <2>1, <3>2
    <3>3. ASSUME NEW p \in DOMAIN fs'
          PROVE  fs'[p].is \in {"dir", "file", "link"} /\ \A q \in Above(p) \ {<<>>} : q \in DOMAIN fs' /\ fs'[q].is = "dir"
      <4>1. CASE p \in DOMAIN fs
        <5>1. fs'[p] = File("new") \/ fs'[p] = fs[p]
          BY <2>1, <4>1
        <5>. QED  BY <3>2, <4>1, <5>1 DEF FilesInv, Rooted, File
      <4>2. CASE p = at
        BY <2>1, <3>1, <4>2 DEF File
      <4>3. CASE p \in Above(at) \ {<<>>}
        BY <3>1, <4>3, AboveOfAbove
      <4>. QED  BY <2>1, <4>1, <4>2, <4>3
    <3>. QED  BY <3>2, <3>3 DEF FilesInv, Rooted
  <2>3. DOMAIN begin \subseteq DOMAIN fs'
    BY <2>1 DEF FilesInv, OnlyWorkspaceChanges
  <2>4. ASSUME NEW p \in DOMAIN fs', p \notin DOMAIN begin \/ fs'[p] # begin[p]
        PROVE  IsPrefix(Root, p) /\ (p \in DOMAIN begin => begin[p].is = "file" /\ fs'[p].is = "file")
    <3>1. CASE p = at
      <4>1. fs'[p] = File("new")
        BY <2>1, <3>1
      <4>2. p \in DOMAIN begin => p \in DOMAIN fs /\ fs[p].is = "file"
        BY <2>1, <3>1 DEF FilesInv, OnlyWorkspaceChanges
      <4>3. p \in DOMAIN begin => begin[p].is = "file"
        BY <4>2 DEF FilesInv, OnlyWorkspaceChanges
      <4>. QED  BY <2>1, <3>1, <4>1, <4>3 DEF File
    <3>2. CASE p # at /\ p \in DOMAIN fs
      <4>1. fs'[p] = fs[p]
        BY <2>1, <3>2
      <4>. QED  BY <2>4, <3>2, <4>1 DEF FilesInv, OnlyWorkspaceChanges
    <3>3. CASE p # at /\ p \notin DOMAIN fs
      <4>1. p \in Above(at) \ {<<>>} /\ p \notin DOMAIN begin
        BY <2>1, <3>3 DEF FilesInv, OnlyWorkspaceChanges
      <4>2. p \notin Above(Root)
        BY <4>1 DEF FilesInv
      <4>. QED  BY <2>1, <4>1, <4>2, AboveInside DEF FilesInv
    <3>. QED  BY <3>1, <3>2, <3>3
  <2>. QED  BY <2>2, <2>3, <2>4, <2>5 DEF FilesInv, OnlyWorkspaceChanges
<1>. QED  BY <1>1, <1>2

LEMMA InitFiles == Init => FilesInv
<1>. SUFFICES ASSUME Init PROVE FilesInv
  OBVIOUS
<1>1. fs \in FileSystem /\ begin = fs
  BY DEF Init
<1>. QED  BY <1>1, WorkspaceAssumption DEF FilesInv, FilesTyped, Typed, Rooted, OnlyWorkspaceChanges, Path, Node

LEMMA FilesStep == FilesInv /\ [Next]_vars => FilesInv'
<1>. SUFFICES ASSUME FilesInv, [Next]_vars PROVE FilesInv'
  OBVIOUS
<1>1. CASE UNCHANGED <<fs, begin>>
  BY <1>1 DEF FilesInv, FilesTyped, Rooted, OnlyWorkspaceChanges
<1>2. ASSUME NEW path \in Request, Write(path), begin' = begin PROVE FilesInv'
  BY <1>2, WorkspaceAssumption, WriteKeeps
<1>. QED  BY <1>1, <1>2 DEF Next, Read, vars

\* Reads and writes change nothing outside the workspace (securePath, and
\* Read and Write of both sandboxes).
THEOREM OutsideIsKept == Spec => []OnlyWorkspaceChanges
<1>1. FilesInv => OnlyWorkspaceChanges
  BY DEF FilesInv
<1>. QED  BY InitFiles, FilesStep, <1>1, PTL DEF Spec

-----------------------------------------------------------------------------
(* What was written is read.                                                *)

\* What a path is read as.
LEMMA ReadIs ==
  \A p : LET found == Walk(Root \o Clean(p))
         IN  ReadData(p) = IF found.err # "none" \/ ~IsPrefix(Root, found.at) THEN "" ELSE DataAt(found.at)
<1>. SUFFICES ASSUME NEW p
              PROVE  LET found == Walk(Root \o Clean(p))
                     IN  ReadData(p) = IF found.err # "none" \/ ~IsPrefix(Root, found.at) THEN "" ELSE DataAt(found.at)
  OBVIOUS
<1>1. PICK found : found = Walk(Root \o Clean(p))
  OBVIOUS
<1>2. SecurePath(p, FALSE) = IF found.err # "none" \/ ~IsPrefix(Root, found.at) THEN Failed ELSE found
  BY <1>1 DEF SecurePath, Inside
<1>3. Failed.err = "other"
  BY DEF Failed
<1>. QED  BY <1>1, <1>2, <1>3 DEF ReadData

\* Hence what is at the end of the path is what is read after a write.
EndIsRead ==
  \A p, a : /\ last = [op |-> "write", path |-> p, data |-> "new"]
            /\ Walk(Root \o Clean(p)) = Found(a) /\ IsPrefix(Root, a)
            /\ a \in DOMAIN fs /\ fs[a] = File("new")
    => ReadAfterWrite

LEMMA ReadBack == EndIsRead
<1>. SUFFICES ASSUME NEW p, NEW a, last = [op |-> "write", path |-> p, data |-> "new"],
                     Walk(Root \o Clean(p)) = Found(a), IsPrefix(Root, a),
                     a \in DOMAIN fs, fs[a] = File("new")
              PROVE  ReadAfterWrite
  BY DEF EndIsRead
<1>1. PICK found : found = Walk(Root \o Clean(p))
  OBVIOUS
<1>2. found.err = "none" /\ found.at = a
  BY <1>1 DEF Found
<1>3. ReadData(p) = DataAt(a)
  BY <1>1, <1>2, ReadIs
<1>4. DataAt(a) = "new"
  BY DEF DataAt, File
<1>5. last.path = p /\ last.data = "new"
  OBVIOUS
<1>. QED  BY <1>3, <1>4, <1>5 DEF ReadAfterWrite

\* The write leaves all that the path went through as it was, and makes
\* directories of the rest of it.
LEMMA WrittenIsFound ==
  ASSUME FilesInv, FilesInv', NEW target \in Path, NEW at \in Path, NEW near \in Path, NEW d \in Path,
         NEW rest \in Path, Written(target, at, near, d, rest)
  PROVE  (Walk(target))' = Found(at)
<1>1. /\ at \in DOMAIN fs => fs[at].is = "file"
      /\ target = near \o rest /\ at = d \o rest
      /\ Walk(near) = Found(d)
      /\ rest = <<>> \/ NotFile(fs, d)
      /\ \A p, r \in Path : p \o r = d \o rest /\ Len(p) > Len(d) => p \notin DOMAIN fs
      /\ DOMAIN fs' = {at} \cup DOMAIN fs \cup (Above(at) \ {<<>>})
      /\ \A p \in DOMAIN fs' : fs'[p] = IF p = at THEN File("new")
                                        ELSE IF p \in DOMAIN fs THEN fs[p] ELSE Dir
  BY DEF Written, WayTo
<1>2. Typed(fs) /\ Typed(fs')
  BY DEF FilesInv, FilesTyped
<1>3. Extends(fs, fs')
  <2>. SUFFICES ASSUME NEW p \in DOMAIN fs
                PROVE  p \in DOMAIN fs' /\ fs'[p].is = fs[p].is /\ (fs[p].is = "link" => fs'[p].to = fs[p].to)
    BY DEF Extends
  <2>1. CASE p = at
    BY <1>1, <2>1 DEF File
  <2>2. CASE p # at
    BY <1>1, <2>2
  <2>. QED  BY <2>1, <2>2
<1>4. Trodden(fs', d, rest, <<>>)
  <2>. SUFFICES ASSUME NEW p \in Path, NEW r \in Path, p \o r = d \o rest, Len(p) > Len(d)
                PROVE  p \in DOMAIN fs' /\ (fs'[p].is = "dir" \/ (fs'[p].is = "file" /\ r = <<>>))
    BY DEF Trodden
  <2>1. p \notin DOMAIN fs
    BY <1>1
  <2>2. CASE r = <<>>
    <3>1. p = at
      BY <1>1, <2>2, Joined
    <3>2. at \in DOMAIN fs'
      BY <1>1
    <3>3. fs'[at] = File("new")
      BY <1>1, <3>2
    <3>4. File("new").is = "file"
      BY DEF File
    <3>. QED  BY <2>2, <3>1, <3>2, <3>3, <3>4
  <2>3. CASE r # <<>>
    <3>1. p \in Above(at)
      BY <1>1, <2>3, FrontIsAbove
    <3>2. p # <<>>
      <4>1. Len(d) \in Nat
        BY Joined
      <4>2. Len(p) # 0
        BY <4>1
      <4>. QED  BY <4>2, EmptySeq
    <3>3. p # at
      <4>1. Len(p) \in Nat /\ Len(p) < Len(at)
        BY <3>1, AboveTyped
      <4>. QED  BY <4>1
    <3>4. p \in DOMAIN fs'
      BY <1>1, <3>1, <3>2
    <3>5. fs'[p] = Dir
      BY <1>1, <2>1, <3>3, <3>4
    <3>6. Dir.is = "dir"
      BY DEF Dir
    <3>. QED  BY <3>4, <3>5, <3>6
  <2>. QED  BY <2>2, <2>3
<1>5. PICK from : IsWalk(fs, from) /\ Walk(near) = from[State(<<>>, near, MaxLinks)]
  BY <1>2, WalkIsOne
<1>6. (Typed(fs) => \E walk : IsWalk(fs, walk) /\ \A path \in Path : Walk(path) = walk[State(<<>>, path, MaxLinks)])'
  BY WalkIsOne, PTL
<1>7. PICK walk : IsWalk(fs', walk) /\ (Walk(target))' = walk[State(<<>>, target, MaxLinks)]
  BY <1>2, <1>6
<1>8. from[State(<<>>, near, MaxLinks)] = Found(d)
  BY <1>1, <1>5
<1>9. walk[State(<<>>, near \o rest, MaxLinks)] = Found(d \o rest)
  <2>1. PICK f : f = fs
    OBVIOUS
  <2>2. PICK g : g = fs'
    OBVIOUS
  <2>3. Typed(f) /\ Typed(g) /\ Extends(f, g) /\ Trodden(g, d, rest, <<>>)
    BY <1>2, <1>3, <1>4, <2>1, <2>2
  <2>4. IsWalk(f, from) /\ IsWalk(g, walk)
    BY <1>5, <1>7, <2>1, <2>2
  <2>5. rest = <<>> \/ NotFile(f, d)
    BY <1>1, <2>1
  <2>6. MaxLinks \in Nat
    BY WorkspaceAssumption
  <2>. QED  BY <1>8, <2>3, <2>4, <2>5, <2>6, WalkAcross
<1>. QED  BY <1>1, <1>7, <1>9, Zenon

LEMMA WriteIsRead ==
  ASSUME FilesInv, FilesInv', NEW path \in Seq(STRING), Write(path), last'.data # ""
  PROVE  ReadAfterWrite'
<1>1. PICK at, near, d, rest \in Path : Written(Root \o Clean(path), at, near, d, rest)
  BY WriteEffect
<1>2. PICK target \in Path : target = Root \o Clean(path)
  BY CleanTyped, ConcatProperties DEF FilesInv, Path
<1>3. (Walk(target))' = Found(at)
  BY <1>1, <1>2, WrittenIsFound
<1>4. IsPrefix(Root, at) /\ at \in DOMAIN fs' /\ fs'[at] = File("new")
  BY <1>1 DEF Written
<1>5. last' = [op |-> "write", path |-> path, data |-> "new"]
  BY WriteEffect
<1>6. EndIsRead'
  BY ReadBack, PTL
<1>. QED  BY <1>2, <1>3, <1>4, <1>5, <1>6 DEF EndIsRead

\* What was written at a path is read at it, by whichever links and missing
\* directories it goes (securePath for a write and for a read, os.MkdirAll).
THEOREM WrittenIsRead == Spec => []ReadAfterWrite
<1>1. Init => ReadAfterWrite
  <2>. SUFFICES ASSUME Init PROVE last.op # "write"
    BY DEF ReadAfterWrite
  <2>. QED  BY DEF Init
<1>2. FilesInv /\ FilesInv' /\ ReadAfterWrite /\ [Next]_vars => ReadAfterWrite'
  <2>. SUFFICES ASSUME FilesInv, FilesInv', ReadAfterWrite, [Next]_vars PROVE ReadAfterWrite'
    OBVIOUS
  <2>1. ASSUME NEW path \in Request, Read(path) PROVE ReadAfterWrite'
    BY <2>1 DEF Read, ReadAfterWrite
  <2>2. ASSUME NEW path \in Request, Write(path) PROVE ReadAfterWrite'
    <3>1. CASE last'.data = ""
      BY <3>1 DEF ReadAfterWrite
    <3>2. CASE last'.data # ""
      BY <2>2, <3>2, WorkspaceAssumption, WriteIsRead
    <3>. QED  BY <3>1, <3>2
  <2>3. CASE UNCHANGED vars
    <3>1. fs' = fs /\ last' = last
      BY <2>3 DEF vars
    <3>2. PICK path : path = last.path
      OBVIOUS
    <3>3. (Walk(Root \o Clean(path)))' = Walk(Root \o Clean(path))
      BY <3>1 DEF Walk
    <3>4. \A at : (DataAt(at))' = DataAt(at)
      BY <3>1 DEF DataAt
    <3>5. (\A p : LET found == Walk(Root \o Clean(p))
                IN  ReadData(p) = IF found.err # "none" \/ ~IsPrefix(Root, found.at) THEN "" ELSE DataAt(found.at))'
      BY ReadIs, PTL
    <3>6. (ReadData(path))' = ReadData(path)
      BY <3>3, <3>4, <3>5, ReadIs
    <3>. QED  BY <3>1, <3>2, <3>6 DEF ReadAfterWrite
  <2>. QED  BY <2>1, <2>2, <2>3 DEF Next
<1>. QED  BY InitFiles, FilesStep, <1>1, <1>2, PTL DEF Spec

-----------------------------------------------------------------------------
(* A skill on the list is read.                                             *)

LEMMA PrefixOf ==
  ASSUME NEW x \in Path, NEW y \in Path
  PROVE  IsPrefix(x, y) <=> \E r \in Path : y = x \o r
<1>1. ASSUME IsPrefix(x, y) PROVE \E r \in Path : y = x \o r
  <2>1. PICK n \in Nat : n = Len(x)
    BY Joined
  <2>2. PICK m \in Nat : m = Len(y)
    BY Joined
  <2>3. n <= m /\ SubSeq(x, 1, n) = SubSeq(y, 1, n)
    BY <1>1, <2>1, <2>2 DEF IsPrefix
  <2>4. SubSeq(x, 1, n) = x
    BY <2>1, SubSeqFull DEF Path
  <2>5. CASE n = m
    <3>1. SubSeq(y, 1, m) = y
      BY <2>2, SubSeqFull DEF Path
    <3>2. y = x \o <<>> /\ <<>> \in Path
      BY <2>3, <2>4, <2>5, <3>1, Joined
    <3>. QED  BY <3>2
  <2>6. CASE n # m
    <3>1. n \in 0 .. Len(y) - 1
      BY <2>2, <2>3, <2>6
    <3>2. x \in Above(y)
      BY <2>3, <2>4, <3>1 DEF Above
    <3>. QED  BY <3>2, AboveIsFront
  <2>. QED  BY <2>5, <2>6
<1>2. ASSUME NEW r \in Path, y = x \o r PROVE IsPrefix(x, y)
  <2>1. PICK n \in Nat : n = Len(x)
    BY Joined
  <2>2. n <= Len(y)
    <3>1. Len(y) = n + Len(r) /\ Len(r) \in Nat
      BY <1>2, <2>1, Joined
    <3>. QED  BY <3>1
  <2>3. SubSeq(y, 1, n) = x
    BY <1>2, <2>1, Joined
  <2>4. SubSeq(x, 1, n) = x
    BY <2>1, SubSeqFull DEF Path
  <2>. QED  BY <2>1, <2>2, <2>3, <2>4 DEF IsPrefix
<1>. QED  BY <1>1, <1>2

LEMMA PrefixOfPrefix ==
  ASSUME NEW x \in Path, NEW y \in Path, NEW z \in Path, IsPrefix(x, y), IsPrefix(y, z)
  PROVE  IsPrefix(x, z)
<1>1. PICK r \in Path : y = x \o r
  BY PrefixOf
<1>2. PICK s \in Path : z = y \o s
  BY PrefixOf
<1>3. PICK t \in Path : t = r \o s
  BY Joined
<1>4. z = x \o t
  BY <1>1, <1>2, <1>3, JoinedTwice
<1>. QED  BY <1>4, PrefixOf

\* A path that begins with a link to a directory leads where the rest of it
\* leads from the directory, or has too many links for one walk.
LEMMA ThroughDirectory ==
  ASSUME FilesTyped, Rooted(fs), NEW near \in Path, NEW rest \in Path, NEW d \in Path, Walk(near) = Found(d),
         d = <<>> \/ (d \in DOMAIN fs /\ fs[d].is = "dir")
  PROVE  Walk(near \o rest) = TooManyLinks \/ Walk(near \o rest) = Walk(d \o rest)
<1>1. PICK f : f = fs
  OBVIOUS
<1>2. Typed(f) /\ Rooted(f) /\ (d = <<>> \/ (d \in DOMAIN f /\ f[d].is = "dir"))
  BY <1>1 DEF FilesTyped
<1>3. PICK walk : IsWalk(f, walk) /\ \A path \in Path : Walk(path) = walk[State(<<>>, path, MaxLinks)]
  BY <1>1, WalkIsOne DEF FilesTyped
<1>4. <<>> \in Path /\ <<>> \o d = d /\ Len(<<>>) = 0
  BY Joined
<1>5. PICK s : s = State(<<>>, near, MaxLinks)
  OBVIOUS
<1>6. s \in WalkState /\ s.at = <<>> /\ s.rest = near /\ s.links = MaxLinks /\ MaxLinks \in Nat
  BY <1>4, <1>5, WorkspaceAssumption, StateFields
<1>7. walk[s].err = "none" /\ walk[s].at = d
  <2>1. walk[s] = Found(d)
    BY <1>3, <1>5
  <2>. QED  BY <2>1 DEF Found
<1>8. NotFile(f, d)
  BY <1>2 DEF NotFile
<1>9. Extends(f, f)
  BY DEF Extends
<1>10. PICK l \in 0 .. s.links : walk[State(s.at, s.rest \o rest, s.links)] = walk[State(walk[s].at, rest, l)]
  BY <1>2, <1>3, <1>6, <1>7, <1>8, <1>9, WalkOn
<1>11. walk[State(<<>>, near \o rest, MaxLinks)] = walk[State(d, rest, l)]
  BY <1>6, <1>7, <1>10, Zenon
<1>12. Walk(near \o rest) = walk[State(d, rest, l)]
  <2>1. PICK path \in Path : path = near \o rest
    BY Joined
  <2>2. Walk(path) = walk[State(<<>>, path, MaxLinks)]
    BY <1>3, <2>1
  <2>. QED  BY <1>11, <2>1, <2>2, Zenon
<1>13. Walk(d \o rest) = walk[State(d, rest, MaxLinks)]
  <2>1. PICK none \in Path : none = <<>>
    BY <1>4
  <2>2. Trodden(f, none, d, rest)
    <3>. SUFFICES ASSUME NEW p \in Path, NEW r \in Path, p \o r = none \o d, Len(p) > Len(none)
                  PROVE  p \in DOMAIN f /\ f[p].is = "dir"
      BY DEF Trodden
    <3>1. p \o r = d /\ Len(p) > 0
      BY <1>4, <2>1
    <3>2. p # <<>>
      BY <1>4, <3>1
    <3>3. d # <<>>
      <4>1. Len(d) = Len(p) + Len(r) /\ Len(r) \in Nat /\ Len(p) \in Nat
        BY <3>1, Joined
      <4>2. Len(d) # 0
        BY <3>1, <4>1
      <4>. QED  BY <1>4, <4>2
    <3>4. CASE r = <<>>
      <4>1. p = d
        BY <3>1, <3>4, Joined
      <4>. QED  BY <1>2, <3>3, <4>1
    <3>5. CASE r # <<>>
      <4>1. p \in Above(d)
        BY <3>1, <3>5, FrontIsAbove
      <4>. QED  BY <1>2, <3>2, <3>3, <4>1 DEF Rooted
    <3>. QED  BY <3>4, <3>5
  <2>3. walk[State(none, d \o rest, MaxLinks)] = walk[State(none \o d, rest, MaxLinks)]
    BY <1>2, <1>3, <1>6, <2>2, WalkAlong
  <2>4. PICK path \in Path : path = d \o rest
    BY Joined
  <2>5. Walk(path) = walk[State(<<>>, path, MaxLinks)]
    BY <1>3, <2>4
  <2>. QED  BY <1>4, <2>1, <2>3, <2>4, <2>5, Zenon
<1>14. walk[State(d, rest, l)] = TooManyLinks \/ walk[State(d, rest, l)] = walk[State(d, rest, MaxLinks)]
  <2>1. l \in Nat /\ l <= MaxLinks
    BY <1>6
  <2>2. PICK t : t = State(d, rest, l)
    OBVIOUS
  <2>3. t \in WalkState /\ t.at = d /\ t.rest = rest /\ t.links = l
    BY <2>1, <2>2, StateFields
  <2>4. walk[t] = TooManyLinks \/ walk[t] = walk[State(t.at, t.rest, MaxLinks)]
    BY <1>2, <1>3, <1>6, <2>1, <2>3, WalkFurther
  <2>. QED  BY <2>2, <2>3, <2>4
<1>. QED  BY <1>12, <1>13, <1>14

\* The path of the file of a skill.
LEMMA SkillPath ==
  ASSUME Root \in Path, NEW name \in Names
  PROVE  /\ <<SkillsDir, name, SkillFile>> \in Path /\ <<name, SkillFile>> \in Path
         /\ Append(Root, SkillsDir) \in Path
         /\ Root \o <<SkillsDir, name, SkillFile>> = Append(Root, SkillsDir) \o <<name, SkillFile>>
<1>1. PICK a \in Names : a = SkillsDir
  BY WorkspaceAssumption
<1>2. PICK c \in Names : c = SkillFile
  BY WorkspaceAssumption
<1>3. PICK one : one = <<a>>
  OBVIOUS
<1>4. PICK two : two = <<name, c>>
  OBVIOUS
<1>5. PICK three : three = <<a, name, c>>
  OBVIOUS
<1>6. one \in Path /\ two \in Path /\ three \in Path
  BY <1>3, <1>4, <1>5 DEF Path
<1>7. one \o two = three
  <2>1. Head(three) = a /\ Tail(three) = two /\ three # <<>>
    BY <1>4, <1>5
  <2>2. Append(<<>>, a) = one
    BY <1>3
  <2>3. <<>> \in Path /\ <<>> \o three = three
    BY <1>6, Joined
  <2>4. Append(<<>>, Head(three)) \o Tail(three) = <<>> \o three
    BY <1>6, <2>1, <2>3, StepAlong
  <2>. QED  BY <2>1, <2>2, <2>3, <2>4
<1>8. Append(Root, a) \in Path /\ Append(Root, a) = Root \o one
  BY <1>3, AppendIsConcat, AppendProperties DEF Path
<1>9. Root \o three = Append(Root, a) \o two
  <2>1. Root \o (one \o two) = (Root \o one) \o two
    BY <1>6, JoinedTwice
  <2>. QED  BY <1>7, <1>8, <2>1
<1>. QED  BY <1>1, <1>2, <1>4, <1>5, <1>6, <1>8, <1>9

\* The directory of skills and the name of one of them.
LEMMA SkillPlace ==
  ASSUME FilesTyped, Rooted(fs), NEW p \in DOMAIN fs, p # <<>>
  PROVE  /\ Last(p) \in Names
         /\ Front(p) = <<>> \/ (Front(p) \in DOMAIN fs /\ fs[Front(p)].is = "dir")
<1>1. p \in Path
  BY DEF FilesTyped, Typed
<1>2. PICK n \in Nat : Len(p) = n + 1
  <2>1. Len(p) # 0
    BY <1>1, EmptySeq DEF Path
  <2>2. PICK m \in Nat : m = Len(p)
    BY <1>1 DEF Path
  <2>3. m - 1 \in Nat /\ m = (m - 1) + 1
    BY <2>1, <2>2
  <2>. QED  BY <2>2, <2>3
<1>3. p[n + 1] \in Names
  BY <1>1, <1>2, ElementOfSeq DEF Path
<1>4. Front(p) = SubSeq(p, 1, n)
  <2>1. Len(p) - 1 = n
    BY <1>2
  <2>. QED  BY <2>1 DEF Front
<1>5. Front(p) \in Above(p)
  BY <1>2, <1>4 DEF Above
<1>. QED  BY <1>2, <1>3, <1>5 DEF Last, Rooted

LEMMA SkillIsRead ==
  ASSUME FilesInv, IsPrefix(Root, SkillsRoot.at), NEW s \in Skills
  PROVE  LET path == <<SkillsDir, s.name, SkillFile>>
         IN  ReadData(path) = s.data \/ Walk(Root \o path) = TooManyLinks
<1>1. PICK root : root = SkillsRoot.at
  OBVIOUS
<1>2. PICK p \in DOMAIN fs :
        /\ p # <<>> /\ Front(p) = root
        /\ SkillsRoot.err = "none"
        /\ s.name = Last(p)
        /\ s.data = DataAt(Walk(root \o <<Last(p), SkillFile>>).at)
        /\ Walk(root \o <<Last(p), SkillFile>>).err = "none"
        /\ SkillInside(root, Walk(root \o <<Last(p), SkillFile>>).at)
  <2>1. SkillsRoot.err = "none"
    BY DEF Skills
  <2>2. PICK n \in {Last(p) : p \in {q \in DOMAIN fs : q # <<>> /\ Front(q) = root /\ fs[q].is = "dir"}} :
          /\ s = [name |-> n, data |-> DataAt(Walk(root \o <<n, SkillFile>>).at)]
          /\ Walk(root \o <<n, SkillFile>>).err = "none"
          /\ SkillInside(root, Walk(root \o <<n, SkillFile>>).at)
    BY <1>1, <2>1, Zenon DEF Skills
  <2>3. s.name = n /\ s.data = DataAt(Walk(root \o <<n, SkillFile>>).at)
    BY <2>2
  <2>. QED  BY <2>1, <2>2, <2>3
<1>3. PICK name \in Names : name = Last(p)
  BY <1>2, SkillPlace DEF FilesInv
<1>4. PICK rest \in Path : rest = <<name, SkillFile>>
  BY SkillPath DEF FilesInv
<1>5. PICK near \in Path : near = Append(Root, SkillsDir)
  BY <1>3, SkillPath DEF FilesInv
<1>6. PICK path \in Path : path = <<SkillsDir, name, SkillFile>>
  BY <1>3, SkillPath DEF FilesInv
<1>7. Root \o path = near \o rest
  BY <1>4, <1>5, <1>6, SkillPath DEF FilesInv
<1>8. Walk(near) = Found(root) /\ root \in Path
  BY <1>1, <1>2, <1>5, WalkPlace DEF SkillsRoot, FilesInv
<1>9. root = <<>> \/ (root \in DOMAIN fs /\ fs[root].is = "dir")
  BY <1>2, SkillPlace DEF FilesInv
<1>10. PICK found : found = Walk(root \o rest)
  OBVIOUS
<1>11. found.err = "none" /\ s.data = DataAt(found.at) /\ IsPrefix(root, found.at)
  BY <1>2, <1>3, <1>4, <1>10 DEF SkillInside
<1>12. found.at \in Path
  <2>1. PICK file \in Path : file = root \o rest
    BY <1>8, Joined
  <2>. QED  BY <1>10, <1>11, <2>1, WalkPlace DEF FilesInv
<1>13. IsPrefix(Root, found.at)
  BY <1>1, <1>8, <1>11, <1>12, PrefixOfPrefix DEF FilesInv
<1>14. Walk(near \o rest) = TooManyLinks \/ Walk(near \o rest) = found
  BY <1>8, <1>9, <1>10, ThroughDirectory DEF FilesInv
<1>15. CASE Walk(near \o rest) = found
  <2>1. Walk(Root \o Clean(path)) = found
    BY <1>7, <1>15, CleanOfNames
  <2>2. ReadData(path) = DataAt(found.at)
    BY <1>11, <1>13, <2>1, ReadIs
  <2>. QED  BY <1>2, <1>3, <1>6, <1>11, <2>2
<1>16. CASE Walk(near \o rest) = TooManyLinks
  BY <1>2, <1>3, <1>6, <1>7, <1>16
<1>. QED  BY <1>14, <1>15, <1>16

\* A skill on the list is one that read_file reads, as long as the links of its
\* whole path are not more than are followed (Filesystem.List, securePath).
THEOREM ListedSkillsAreRead == Spec => []SkillsReadable
<1>1. FilesInv => SkillsReadable
  BY SkillIsRead DEF SkillsReadable
<1>. QED  BY InitFiles, FilesStep, <1>1, PTL DEF Spec

-----------------------------------------------------------------------------
(* Commands.                                                                *)

Sandboxes == {"local", "bwrap"}
Phases == {"start", "wait", "drain", "done"}
Contexts == {"live", "deadline", "cancelled"}
Results == {"none", "ok", "exit"} \cup Contexts

CommandTypeOK == /\ sandbox \in Sandboxes
          /\ phase \in Phases
          /\ ctx \in Contexts
          /\ main \in {"none", "running"} \cup Ended
          /\ children \in 0 .. MaxChildren
          /\ written \in 0 .. MaxOutput
          /\ collected \in 0 .. written
          /\ result \in Results

\* cmd.Run waits for a process it has started, and drains one that has ended.
PhaseOfMain == /\ phase = "start" => main = "none" /\ children = 0 /\ written = 0
               /\ phase = "wait" => main # "none"
               /\ phase = "drain" => main \in Ended
               /\ phase = "done" => main \in {"none"} \cup Ended

\* Only a context that is done kills, and it is never live again.
KilledByContext == main = "killed" => ctx # "live"

\* Nothing is returned before the end, and at the end nobody can write.
Settled == /\ phase # "done" => result = "none"
           /\ phase = "done" => children = 0 /\ collected = written /\ result # "none"

ExecutionInv == /\ CommandTypeOK
                /\ PhaseOfMain
                /\ KilledByContext
                /\ Settled
                /\ ResultIsTrue

-----------------------------------------------------------------------------
\* Every step keeps the invariant.
LEMMA CommandStep == ExecutionInv /\ [CommandNext]_command => ExecutionInv'
<1>. SUFFICES ASSUME ExecutionInv, [CommandNext]_command PROVE ExecutionInv'
  OBVIOUS
<1>. USE ExecutionAssumption DEF ExecutionInv, CommandTypeOK, PhaseOfMain, KilledByContext, Settled,
         ResultIsTrue, Sandboxes, Phases, Contexts, Results, Ended
<1>1. CASE Interrupt  BY <1>1 DEF Interrupt
<1>2. CASE Fork  BY <1>2 DEF Fork
<1>3. CASE Output  BY <1>3 DEF Output
<1>4. CASE Exit  BY <1>4 DEF Exit
<1>5. CASE ChildExits  BY <1>5 DEF ChildExits
<1>6. CASE SandboxEnds  BY <1>6 DEF SandboxEnds
<1>7. CASE Kill  BY <1>7 DEF Kill
<1>8. CASE StartFails  BY <1>8 DEF StartFails
<1>9. CASE Start  BY <1>9 DEF Start
<1>10. CASE Wait  BY <1>10 DEF Wait
<1>11. CASE Collect  BY <1>11 DEF Collect
<1>12. CASE Drained  BY <1>12 DEF Drained, EndOfOutput, Return, LocalResult, BwrapResult
<1>13. CASE UNCHANGED command  BY <1>13 DEF command
<1>. QED
  BY <1>1, <1>2, <1>3, <1>4, <1>5, <1>6, <1>7, <1>8, <1>9, <1>10, <1>11, <1>12, <1>13 DEF CommandNext, Run

\* What the agent is told of a command is true.
THEOREM ReportsTrue == CommandSpec => []ResultIsTrue
<1>1. CommandInit => ExecutionInv
  BY ExecutionAssumption DEF CommandInit, ExecutionInv, CommandTypeOK, PhaseOfMain, KilledByContext, Settled,
     ResultIsTrue, Sandboxes, Phases, Contexts, Results, Ended
<1>2. ExecutionInv => ResultIsTrue
  BY DEF ExecutionInv
<1>. QED  BY <1>1, <1>2, CommandStep, PTL DEF CommandSpec
=============================================================================
