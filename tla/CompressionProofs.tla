------------------------- MODULE CompressionProofs -------------------------
(***************************************************************************)
(* What TokenCompressor computes, for every transcript and every window:    *)
(* the scan of Compress keeps the longest newest part that fits (or the     *)
(* newest message alone), and compacting twice is compacting once.          *)
(*                                                                         *)
(* Kept and Tokens are recursive functions.  That such a function has the   *)
(* values its equation says, and what holds of all of them, is shown by     *)
(* induction on sets of natural numbers (NatSetInduction), which follows    *)
(* from the well-foundedness of < without operators as parameters.          *)
(***************************************************************************)
EXTENDS Compression, SequenceTheorems, WellFoundedInduction, TLAPS

LessThan == {p \in Nat \X Nat : p[1] < p[2]}

\* A set of natural numbers that is not empty has a least element.
LEMMA LeastNatural ==
  ASSUME NEW S \in SUBSET Nat, S # {}
  PROVE  \E n \in S : \A m \in S : n <= m
<1>1. IsWellFoundedOn(LessThan, Nat)
  BY NatLessThanWellFounded, Zenon DEF OpToRel, LessThan
<1>2. PICK n \in S : \A m \in S : ~ (<<m, n>> \in LessThan)
  BY <1>1, WFMin
<1>3. \A m \in S : m < n => <<m, n>> \in LessThan
  BY DEF LessThan
<1>4. \A m \in S : m \in Nat /\ n \in Nat /\ ~(m < n)
  BY <1>2, <1>3
<1>5. \A m \in S : n <= m
  BY <1>4
<1>. QED  BY <1>5

\* Induction: a set that has 0 and every successor of its numbers has all.
LEMMA NatSetInduction ==
  ASSUME NEW S, 0 \in S, \A n \in Nat : n \in S => n + 1 \in S
  PROVE  Nat \subseteq S
<1>. DEFINE Missing == Nat \ S
<1>. SUFFICES ASSUME Missing # {} PROVE FALSE
  OBVIOUS
<1>1. PICK n \in Missing : \A m \in Missing : n <= m
  BY LeastNatural
<1>2. n - 1 \in Nat /\ n - 1 \notin Missing
  BY <1>1
<1>. QED  BY <1>1, <1>2

\* Messages have a length.
Sized(M) == \A m \in M : m.chars \in Nat

LEMMA TokensOfMessage ==
  ASSUME NEW M, Sized(M), NEW m \in M
  PROVE  MessageTokens(m) \in Nat
BY DEF Sized, MessageTokens

-----------------------------------------------------------------------------
(* Tokens: the sum over a transcript.                                       *)

IsSum(sum, messages, n) ==
  sum = [k \in 0 .. n |-> IF k = 0 THEN 0 ELSE sum[k - 1] + MessageTokens(messages[k])]

\* The equation of the sum has a solution.
LEMMA SumExists ==
  ASSUME NEW messages, NEW n \in Nat
  PROVE  \E sum : IsSum(sum, messages, n)
<1>. DEFINE S == {k \in Nat : \E sum : IsSum(sum, messages, k)}
<1>1. 0 \in S
  <2>. DEFINE sum == [k \in 0 .. 0 |-> 0]
  <2>1. IsSum(sum, messages, 0)
    BY DEF IsSum
  <2>. QED  BY <2>1
<1>2. ASSUME NEW k \in Nat, k \in S PROVE k + 1 \in S
  <2>1. PICK old : IsSum(old, messages, k)
    BY <1>2
  <2>. DEFINE sum == [i \in 0 .. k + 1 |-> IF i <= k THEN old[i]
                                           ELSE old[k] + MessageTokens(messages[k + 1])]
  <2>2. \A i \in 0 .. k : old[i] = IF i = 0 THEN 0 ELSE old[i - 1] + MessageTokens(messages[i])
    BY <2>1, Zenon DEF IsSum
  <2>3. \A i \in 0 .. k + 1 : sum[i] = IF i = 0 THEN 0 ELSE sum[i - 1] + MessageTokens(messages[i])
    <3>. TAKE i \in 0 .. k + 1
    <3>1. CASE i = 0  BY <3>1, <2>2
    <3>2. CASE i \in 1 .. k  BY <3>2, <2>2
    <3>3. CASE i = k + 1  BY <3>3
    <3>. QED  BY <3>1, <3>2, <3>3
  <2>4. IsSum(sum, messages, k + 1)
    BY <2>3 DEF IsSum
  <2>. QED  BY <2>4
<1>. HIDE DEF S
<1>3. Nat \subseteq S
  BY <1>1, <1>2, NatSetInduction
<1>. QED  BY <1>3 DEF S

\* Tokens is the last value of that solution.
LEMMA TokensIsSum ==
  ASSUME NEW messages, Len(messages) \in Nat
  PROVE  \E sum : IsSum(sum, messages, Len(messages)) /\ Tokens(messages) = sum[Len(messages)]
<1>1. \E sum : IsSum(sum, messages, Len(messages))
  BY SumExists
<1>. DEFINE s == CHOOSE sum : IsSum(sum, messages, Len(messages))
<1>2. IsSum(s, messages, Len(messages))
  BY <1>1
<1>3. Tokens(messages) = s[Len(messages)]
  BY DEF Tokens, IsSum
<1>. QED  BY <1>2, <1>3

\* One message more in front adds its tokens.
LEMMA TokensInFront ==
  ASSUME NEW M, Sized(M), NEW s \in Seq(M), NEW t \in Seq(M),
         Len(s) = Len(t) + 1, \A i \in 1 .. Len(t) : s[i + 1] = t[i]
  PROVE  /\ Tokens(t) \in Nat
         /\ Tokens(s) = MessageTokens(s[1]) + Tokens(t)
<1>1. PICK f : IsSum(f, s, Len(s)) /\ Tokens(s) = f[Len(s)]
  BY TokensIsSum
<1>2. PICK g : IsSum(g, t, Len(t)) /\ Tokens(t) = g[Len(t)]
  BY TokensIsSum
<1>. DEFINE S == {k \in Nat : k <= Len(t) => g[k] \in Nat /\ f[k + 1] = MessageTokens(s[1]) + g[k]}
<1>3. \A k \in 0 .. Len(s) : f[k] = IF k = 0 THEN 0 ELSE f[k - 1] + MessageTokens(s[k])
  BY <1>1, Zenon DEF IsSum
<1>4. \A k \in 0 .. Len(t) : g[k] = IF k = 0 THEN 0 ELSE g[k - 1] + MessageTokens(t[k])
  BY <1>2, Zenon DEF IsSum
<1>5. \A k \in 1 .. Len(t) : MessageTokens(t[k]) \in Nat /\ MessageTokens(s[k + 1]) = MessageTokens(t[k])
  BY TokensOfMessage
<1>6. MessageTokens(s[1]) \in Nat
  BY TokensOfMessage
<1>7. 0 \in S
  BY <1>3, <1>4, <1>6
<1>8. ASSUME NEW k \in Nat, k \in S PROVE k + 1 \in S
  <2>. SUFFICES ASSUME k + 1 <= Len(t) 
       PROVE  g[k + 1] \in Nat /\ f[k + 2] = MessageTokens(s[1]) + g[k + 1]
    OBVIOUS
  <2>1. g[k] \in Nat /\ f[k + 1] = MessageTokens(s[1]) + g[k]
    BY <1>8
  <2>2. g[k + 1] = g[k] + MessageTokens(t[k + 1])
    BY <1>4
  <2>3. f[k + 2] = f[k + 1] + MessageTokens(s[k + 2])
    BY <1>3
  <2>4. MessageTokens(t[k + 1]) \in Nat /\ MessageTokens(s[k + 2]) = MessageTokens(t[k + 1])
    BY <1>5
  <2>. QED  BY <2>1, <2>2, <2>3, <2>4, <1>6
<1>. HIDE DEF S
<1>9. Nat \subseteq S
  BY <1>7, <1>8, NatSetInduction
<1>. QED  BY <1>1, <1>2, <1>9 DEF S

\* The parts of a transcript that are looked at, newest first.
LEMMA NewestPart ==
  ASSUME NEW M, NEW messages \in Seq(M), NEW k \in 0 .. Len(messages)
  PROVE  /\ Newest(messages, k) \in Seq(M)
         /\ Len(Newest(messages, k)) = k
         /\ \A i \in 1 .. k : Newest(messages, k)[i] = messages[Len(messages) - k + i]
<1>. DEFINE m == Len(messages) - k + 1
<1>1. m \in Int /\ Len(messages) \in Int /\ \A i \in m .. Len(messages) : messages[i] \in M
  OBVIOUS
<1>2. /\ SubSeq(messages, m, Len(messages)) \in Seq(M)
      /\ Len(SubSeq(messages, m, Len(messages)))
           = IF m <= Len(messages) THEN Len(messages) - m + 1 ELSE 0
      /\ \A i \in 1 .. Len(messages) - m + 1 : SubSeq(messages, m, Len(messages))[i] = messages[m + i - 1]
  BY <1>1, SubSeqProperties
<1>. QED  BY <1>2 DEF Newest

LEMMA TokensOfNewest ==
  ASSUME NEW M, Sized(M), NEW messages \in Seq(M)
  PROVE  /\ Tokens(Newest(messages, 0)) = 0
         /\ \A k \in 1 .. Len(messages) :
              /\ Tokens(Newest(messages, k - 1)) \in Nat
              /\ Tokens(Newest(messages, k))
                   = Tokens(Newest(messages, k - 1)) + MessageTokens(messages[Len(messages) - k + 1])
<1>1. Tokens(Newest(messages, 0)) = 0
  <2>1. Len(Newest(messages, 0)) = 0
    BY NewestPart
  <2>2. PICK f : IsSum(f, Newest(messages, 0), 0) /\ Tokens(Newest(messages, 0)) = f[0]
    BY <2>1, TokensIsSum
  <2>3. 0 \in 0 .. 0
    OBVIOUS
  <2>4. f[0] = 0
    BY <2>2, <2>3, Zenon DEF IsSum
  <2>. QED  BY <2>2, <2>4
<1>2. ASSUME NEW k \in 1 .. Len(messages)
      PROVE  /\ Tokens(Newest(messages, k - 1)) \in Nat
             /\ Tokens(Newest(messages, k))
                  = Tokens(Newest(messages, k - 1)) + MessageTokens(messages[Len(messages) - k + 1])
  <2>. DEFINE s == Newest(messages, k)
              t == Newest(messages, k - 1)
  <2>1. /\ s \in Seq(M) /\ Len(s) = k
        /\ \A i \in 1 .. k : s[i] = messages[Len(messages) - k + i]
    BY NewestPart
  <2>2. /\ t \in Seq(M) /\ Len(t) = k - 1
        /\ \A i \in 1 .. k - 1 : t[i] = messages[Len(messages) - (k - 1) + i]
    BY NewestPart
  <2>. HIDE DEF s, t
  <2>5. Len(s) = Len(t) + 1 /\ \A i \in 1 .. Len(t) : s[i + 1] = t[i]
    <3>1. ASSUME NEW i \in 1 .. Len(t) PROVE s[i + 1] = t[i]
      <4>1. i + 1 \in 1 .. k /\ i \in 1 .. k - 1 /\ Len(messages) - k + (i + 1) = Len(messages) - (k - 1) + i
        BY <2>2
      <4>2. s[i + 1] = messages[Len(messages) - k + (i + 1)]
        BY <4>1, <2>1
      <4>3. t[i] = messages[Len(messages) - (k - 1) + i]
        BY <4>1, <2>2
      <4>. QED  BY <4>1, <4>2, <4>3
    <3>. QED  BY <3>1, <2>1, <2>2
  <2>3. /\ Tokens(t) \in Nat
        /\ Tokens(s) = MessageTokens(s[1]) + Tokens(t)
    BY <2>1, <2>2, <2>5, TokensInFront
  <2>4. s[1] = messages[Len(messages) - k + 1] /\ MessageTokens(s[1]) \in Nat
    BY <2>1, TokensOfMessage
  <2>. QED  BY <2>3, <2>4 DEF s, t
<1>. QED  BY <1>1, <1>2

-----------------------------------------------------------------------------
(* Kept: the scan.                                                          *)

\* The scan at its k-th newest message.
ScanStep(messages, limit, prev, k) ==
  LET used == prev.used + MessageTokens(messages[Len(messages) - k + 1])
  IN  IF prev.open /\ (used <= limit \/ prev.kept = 0)
      THEN [used |-> used, kept |-> prev.kept + 1, open |-> TRUE]
      ELSE [prev EXCEPT !.open = FALSE]

IsScan(scan, messages, limit, n) ==
  scan = [k \in 0 .. n |-> IF k = 0 THEN [used |-> 0, kept |-> 0, open |-> TRUE]
                                   ELSE ScanStep(messages, limit, scan[k - 1], k)]

\* The equation of the scan has a solution.
LEMMA ScanExists ==
  ASSUME NEW messages, NEW limit, NEW n \in Nat
  PROVE  \E scan : IsScan(scan, messages, limit, n)
<1>. DEFINE S == {k \in Nat : \E scan : IsScan(scan, messages, limit, k)}
            start == [used |-> 0, kept |-> 0, open |-> TRUE]
<1>1. 0 \in S
  <2>. DEFINE scan == [k \in 0 .. 0 |-> start]
  <2>1. IsScan(scan, messages, limit, 0)
    BY DEF IsScan
  <2>. QED  BY <2>1
<1>2. ASSUME NEW k \in Nat, k \in S PROVE k + 1 \in S
  <2>1. PICK old : IsScan(old, messages, limit, k)
    BY <1>2
  <2>. DEFINE scan == [i \in 0 .. k + 1 |-> IF i <= k THEN old[i]
                                            ELSE ScanStep(messages, limit, old[k], k + 1)]
  <2>2. \A i \in 0 .. k : old[i] = IF i = 0 THEN start ELSE ScanStep(messages, limit, old[i - 1], i)
    BY <2>1, Zenon DEF IsScan
  <2>3. \A i \in 0 .. k + 1 : scan[i] = IF i = 0 THEN start ELSE ScanStep(messages, limit, scan[i - 1], i)
    <3>. TAKE i \in 0 .. k + 1
    <3>1. CASE i = 0  BY <3>1, <2>2
    <3>2. CASE i \in 1 .. k  BY <3>2, <2>2
    <3>3. CASE i = k + 1  BY <3>3
    <3>. QED  BY <3>1, <3>2, <3>3
  <2>4. IsScan(scan, messages, limit, k + 1)
    BY <2>3 DEF IsScan
  <2>. QED  BY <2>4
<1>. HIDE DEF S
<1>3. Nat \subseteq S
  BY <1>1, <1>2, NatSetInduction
<1>. QED  BY <1>3 DEF S

\* Kept is what that solution keeps of all messages.
LEMMA KeptIsScan ==
  ASSUME NEW messages, Len(messages) \in Nat, NEW limit
  PROVE  \E scan : /\ IsScan(scan, messages, limit, Len(messages))
                   /\ Kept(messages, limit) = scan[Len(messages)].kept
<1>1. \E scan : IsScan(scan, messages, limit, Len(messages))
  BY ScanExists
<1>. DEFINE s == CHOOSE scan : IsScan(scan, messages, limit, Len(messages))
<1>2. IsScan(s, messages, limit, Len(messages))
  BY <1>1
<1>3. Kept(messages, limit) = s[Len(messages)].kept
  BY DEF Kept, IsScan, ScanStep
<1>. QED  BY <1>2, <1>3

\* The state of the scan after its k-th message: what it has kept and its
\* tokens, and, once it has stopped, that one message more would not fit.
ScanOK(state, messages, limit, k) ==
  /\ state \in [used : Nat, kept : 0 .. k, open : BOOLEAN]
  /\ state.used = Tokens(Newest(messages, state.kept))
  /\ state.kept <= 1 \/ state.used <= limit
  /\ k > 0 => state.kept > 0
  /\ state.open => state.kept = k
  /\ ~state.open => /\ state.kept < k
                    /\ Tokens(Newest(messages, state.kept + 1)) > limit

LEMMA ScanCorrect ==
  ASSUME NEW M, Sized(M), NEW messages \in Seq(M), NEW limit \in Int,
         NEW scan, IsScan(scan, messages, limit, Len(messages))
  PROVE  \A k \in 0 .. Len(messages) : ScanOK(scan[k], messages, limit, k)
<1>. DEFINE S == {k \in Nat : k <= Len(messages) => ScanOK(scan[k], messages, limit, k)}
            start == [used |-> 0, kept |-> 0, open |-> TRUE]
<1>1. \A k \in 0 .. Len(messages) :
        scan[k] = IF k = 0 THEN start ELSE ScanStep(messages, limit, scan[k - 1], k)
  BY Zenon DEF IsScan
<1>2. 0 \in S
  <2>1. scan[0] = start
    BY <1>1
  <2>2. Tokens(Newest(messages, 0)) = 0
    BY TokensOfNewest
  <2>3. ScanOK(start, messages, limit, 0)
    BY <2>2 DEF ScanOK
  <2>. QED  BY <2>1, <2>3
<1>3. ASSUME NEW k \in Nat, k \in S PROVE k + 1 \in S
  <2>. SUFFICES ASSUME k + 1 <= Len(messages) PROVE ScanOK(scan[k + 1], messages, limit, k + 1)
    OBVIOUS
  <2>. DEFINE prev == scan[k]
              m == messages[Len(messages) - (k + 1) + 1]
              used == prev.used + MessageTokens(m)
  <2>1. ScanOK(prev, messages, limit, k)
    BY <1>3
  <2>2. scan[k + 1] = ScanStep(messages, limit, prev, k + 1)
    BY <1>1
  <2>3. m \in M /\ MessageTokens(m) \in Nat
    BY TokensOfMessage
  <2>4. CASE prev.open /\ (used <= limit \/ prev.kept = 0)
    <3>1. scan[k + 1] = [used |-> used, kept |-> prev.kept + 1, open |-> TRUE]
      BY <2>2, <2>4 DEF ScanStep
    <3>2. prev.kept = k
      BY <2>1, <2>4 DEF ScanOK
    <3>3. Tokens(Newest(messages, k + 1)) = Tokens(Newest(messages, k)) + MessageTokens(m)
      BY TokensOfNewest
    <3>. QED  BY <3>1, <3>2, <3>3, <2>1, <2>3, <2>4 DEF ScanOK
  <2>. DEFINE stop == [used |-> prev.used, kept |-> prev.kept, open |-> FALSE]
  <2>7. ASSUME scan[k + 1] = [prev EXCEPT !.open = FALSE] PROVE scan[k + 1] = stop
    BY <2>1, <2>7 DEF ScanOK
  <2>5. CASE prev.open /\ ~(used <= limit \/ prev.kept = 0)
    <3>1. scan[k + 1] = stop
      BY <2>2, <2>5, <2>7 DEF ScanStep
    <3>2. prev.kept = k
      BY <2>1, <2>5 DEF ScanOK
    <3>3. Tokens(Newest(messages, k + 1)) = Tokens(Newest(messages, k)) + MessageTokens(m)
      BY <2>3, TokensOfNewest
    <3>4. Tokens(Newest(messages, prev.kept + 1)) = used
      BY <3>2, <3>3, <2>1 DEF ScanOK
    <3>5. used > limit
      BY <2>1, <2>3, <2>5 DEF ScanOK
    <3>6. ScanOK(stop, messages, limit, k + 1)
      BY <3>2, <3>4, <3>5, <2>1, <2>5 DEF ScanOK
    <3>. QED  BY <3>1, <3>6
  <2>6. CASE ~prev.open
    <3>1. scan[k + 1] = stop
      BY <2>2, <2>6, <2>7 DEF ScanStep
    <3>2. ScanOK(stop, messages, limit, k + 1)
      BY <2>1, <2>6 DEF ScanOK
    <3>. QED  BY <3>1, <3>2
  <2>. QED  BY <2>4, <2>5, <2>6
<1>. HIDE DEF S
<1>4. Nat \subseteq S
  BY <1>2, <1>3, NatSetInduction
<1>. QED  BY <1>4 DEF S

\* What is kept: a part that is not empty unless the transcript is, that fits
\* or is the newest message, and that does not fit with one message more.
LEMMA KeptRange ==
  ASSUME NEW M, Sized(M), NEW messages \in Seq(M), NEW limit \in Int
  PROVE  LET k == Kept(messages, limit)
         IN  /\ k \in 0 .. Len(messages)
             /\ messages # <<>> => k > 0
             /\ k <= 1 \/ Tokens(Newest(messages, k)) <= limit
             /\ k < Len(messages) => Tokens(Newest(messages, k + 1)) > limit
<1>1. PICK scan : /\ IsScan(scan, messages, limit, Len(messages))
                  /\ Kept(messages, limit) = scan[Len(messages)].kept
  BY KeptIsScan
<1>2. ScanOK(scan[Len(messages)], messages, limit, Len(messages))
  BY <1>1, ScanCorrect
<1>. QED  BY <1>1, <1>2 DEF ScanOK

\* More messages have more tokens.
LEMMA TokensMonotonic ==
  ASSUME NEW M, Sized(M), NEW messages \in Seq(M),
         NEW j \in 0 .. Len(messages), NEW k \in j .. Len(messages)
  PROVE  /\ Tokens(Newest(messages, j)) \in Nat
         /\ Tokens(Newest(messages, k)) \in Nat
         /\ Tokens(Newest(messages, j)) <= Tokens(Newest(messages, k))
<1>. DEFINE T(i) == Tokens(Newest(messages, i))
            S == {i \in Nat : i <= Len(messages) => T(i) \in Nat /\ (j <= i => T(j) <= T(i))}
<1>1. T(0) = 0
  BY TokensOfNewest
<1>2. ASSUME NEW i \in 1 .. Len(messages) 
      PROVE  T(i - 1) \in Nat /\ \E t \in Nat : T(i) = T(i - 1) + t
  <2>1. messages[Len(messages) - i + 1] \in M
    OBVIOUS
  <2>. QED  BY <2>1, TokensOfMessage, TokensOfNewest
<1>. HIDE DEF T
<1>3. 0 \in S
  BY <1>1
<1>4. ASSUME NEW i \in Nat, i \in S PROVE i + 1 \in S
  <2>. SUFFICES ASSUME i + 1 <= Len(messages)
       PROVE  T(i + 1) \in Nat /\ (j <= i + 1 => T(j) <= T(i + 1))
    OBVIOUS
  <2>1. T(i) \in Nat /\ (j <= i => T(j) <= T(i))
    BY <1>4
  <2>2. PICK t \in Nat : T(i + 1) = T(i) + t
    <3>1. i + 1 \in 1 .. Len(messages) /\ (i + 1) - 1 = i
      OBVIOUS
    <3>. QED  BY <3>1, <1>2
  <2>3. CASE j <= i
    <3>1. CASE j = 0  BY <3>1, <1>1, <2>1, <2>2
    <3>2. CASE j \in 1 .. Len(messages)
      <4>1. T(j) \in Nat
        BY <3>2, <1>2
      <4>. QED  BY <4>1, <2>1, <2>2, <2>3
    <3>. QED  BY <3>1, <3>2
  <2>4. CASE j = i + 1
    BY <2>1, <2>2, <2>4
  <2>. QED  BY <2>1, <2>2, <2>3, <2>4
<1>. HIDE DEF S
<1>5. Nat \subseteq S
  BY <1>3, <1>4, NatSetInduction
<1>6. j \in S /\ k \in S /\ j <= k
  BY <1>5
<1>. QED  BY <1>6 DEF S, T

\* The scan of Compress keeps the longest newest part that fits into the
\* limit, and never fewer than the newest message.
THEOREM KeptIsLongest ==
  ASSUME NEW M, Sized(M), NEW messages \in Seq(M), NEW limit \in Int
  PROVE  Kept(messages, limit) = LongestThatFits(messages, limit)
<1>. DEFINE k == Kept(messages, limit)
            fits == {i \in 0 .. Len(messages) : i <= 1 \/ Tokens(Newest(messages, i)) <= limit}
<1>1. /\ k \in 0 .. Len(messages)
      /\ messages # <<>> => k > 0
      /\ k <= 1 \/ Tokens(Newest(messages, k)) <= limit
      /\ k < Len(messages) => Tokens(Newest(messages, k + 1)) > limit
  BY KeptRange
<1>. HIDE DEF k
<1>2. k \in fits
  BY <1>1
<1>3. ASSUME NEW i \in fits PROVE i <= k
  <2>. SUFFICES ASSUME i > k PROVE FALSE
    BY <1>1
  <2>1. messages # <<>> /\ k > 0 /\ k + 1 \in 0 .. Len(messages) /\ i \in k + 1 .. Len(messages)
    BY <1>1
  <2>2. Tokens(Newest(messages, k + 1)) \in Nat /\ Tokens(Newest(messages, i)) \in Nat
        /\ Tokens(Newest(messages, k + 1)) <= Tokens(Newest(messages, i))
    BY <2>1, TokensMonotonic
  <2>3. Tokens(Newest(messages, i)) <= limit
    BY <1>1, <2>1
  <2>. QED  BY <1>1, <2>1, <2>2, <2>3
<1>4. \A i \in fits : (\A j \in fits : j <= i) => i = k
  BY <1>1, <1>2, <1>3
<1>5. k = CHOOSE i \in fits : \A j \in fits : j <= i
  <2>. DEFINE P(i) == i \in fits /\ \A j \in fits : j <= i
  <2>1. P(k) /\ \A i : P(i) => i = k
    BY <1>2, <1>3, <1>4
  <2>. HIDE DEF P
  <2>2. k = CHOOSE i : P(i)
    BY <2>1
  <2>. QED  BY <2>2, Zenon DEF P
<1>. QED  BY <1>5 DEF LongestThatFits, k

-----------------------------------------------------------------------------
(* Compress.                                                                *)

\* A transcript is left alone, or all but its newest messages make place for
\* the summary.
LEMMA CompressCuts ==
  ASSUME NEW M, Sized(M), NEW messages \in Seq(M), SummaryPrefix \in Seq(M),
         NEW window \in Int, ReserveOutput \in Int
  PROVE  /\ Compress(messages, window) \in Seq(M)
         /\ \/ /\ Compress(messages, window) = messages
               /\ Limit(window) <= 0 \/ Kept(messages, Limit(window)) = Len(messages)
            \/ \E k \in 1 .. Len(messages) - 1 :
                 /\ k = Kept(messages, Limit(window))
                 /\ Limit(window) > 0
                 /\ Compress(messages, window) = SummaryPrefix \o Newest(messages, k)
<1>. DEFINE k == Kept(messages, Limit(window))
<1>1. Limit(window) \in Int
  BY DEF Limit
<1>2. k \in 0 .. Len(messages) /\ (messages # <<>> => k > 0)
  BY <1>1, KeptRange
<1>. HIDE DEF k
<1>3. CASE Limit(window) <= 0 \/ k = Len(messages)
  BY <1>3 DEF Compress, k
<1>4. CASE ~(Limit(window) <= 0 \/ k = Len(messages))
  <2>1. Compress(messages, window) = SummaryPrefix \o Newest(messages, k)
    BY <1>4 DEF Compress, k
  <2>2. messages # <<>>
    BY <1>2, <1>4
  <2>3. k \in 1 .. Len(messages) - 1 /\ Limit(window) > 0
    BY <1>1, <1>2, <1>4, <2>2
  <2>4. Newest(messages, k) \in Seq(M)
    BY <1>2, NewestPart
  <2>. QED  BY <2>1, <2>3, <2>4, ConcatProperties DEF k
<1>. QED  BY <1>3, <1>4

\* The newest part of a compacted transcript is that of the transcript.
LEMMA NewestOfCut ==
  ASSUME NEW M, NEW messages \in Seq(M), NEW prefix \in Seq(M),
         NEW k \in 0 .. Len(messages), NEW j \in 0 .. k
  PROVE  Newest(prefix \o Newest(messages, k), j) = Newest(messages, j)
<1>. DEFINE part == Newest(messages, k)
            cut == prefix \o part
<1>1. /\ part \in Seq(M) /\ Len(part) = k
      /\ \A i \in 1 .. k : part[i] = messages[Len(messages) - k + i]
  BY NewestPart
<1>. HIDE DEF part
<1>2. /\ cut \in Seq(M) /\ Len(cut) = Len(prefix) + k
      /\ \A i \in 1 .. Len(prefix) + k : cut[i] = IF i <= Len(prefix) THEN prefix[i] ELSE part[i - Len(prefix)]
  BY <1>1, ConcatProperties
<1>. HIDE DEF cut
<1>3. /\ Newest(cut, j) \in Seq(M) /\ Len(Newest(cut, j)) = j
      /\ \A i \in 1 .. j : Newest(cut, j)[i] = cut[Len(cut) - j + i]
  <2>1. j \in 0 .. Len(cut)
    BY <1>2
  <2>. QED  BY <1>2, <2>1, NewestPart
<1>4. /\ Newest(messages, j) \in Seq(M) /\ Len(Newest(messages, j)) = j
      /\ \A i \in 1 .. j : Newest(messages, j)[i] = messages[Len(messages) - j + i]
  BY NewestPart
<1>5. ASSUME NEW i \in 1 .. j PROVE Newest(cut, j)[i] = Newest(messages, j)[i]
  <2>1. /\ Len(cut) - j + i \in 1 .. Len(prefix) + k /\ ~(Len(cut) - j + i <= Len(prefix))
        /\ Len(cut) - j + i - Len(prefix) = k - j + i
    BY <1>2
  <2>2. cut[Len(cut) - j + i] = part[k - j + i]
    BY <1>2, <2>1
  <2>3. k - j + i \in 1 .. k /\ Len(messages) - k + (k - j + i) = Len(messages) - j + i
    OBVIOUS
  <2>4. part[k - j + i] = messages[Len(messages) - j + i]
    BY <1>1, <2>3
  <2>. QED  BY <1>3, <1>4, <2>2, <2>4
<1>6. Newest(cut, j) = Newest(messages, j)
  BY <1>3, <1>4, <1>5, SeqEqual
<1>. QED  BY <1>6 DEF cut, part

\* Compacting what is compacted changes nothing.
THEOREM CompressTwice ==
  ASSUME NEW M, Sized(M), NEW messages \in Seq(M),
         SummaryPrefix \in Seq(M), Len(SummaryPrefix) <= 1,
         NEW window \in Int, ReserveOutput \in Int
  PROVE  Compress(Compress(messages, window), window) = Compress(messages, window)
<1>. DEFINE once == Compress(messages, window)
            limit == Limit(window)
<1>1. limit \in Int
  BY DEF Limit
<1>2. CASE once = messages
  BY <1>2
<1>3. ASSUME NEW k \in 1 .. Len(messages) - 1, k = Kept(messages, limit), limit > 0,
             once = SummaryPrefix \o Newest(messages, k)
      PROVE  Compress(once, window) = once
  <2>1. /\ Newest(messages, k) \in Seq(M) /\ Len(Newest(messages, k)) = k
    BY NewestPart
  <2>2. once \in Seq(M) /\ Len(once) = Len(SummaryPrefix) + k
    BY <1>3, <2>1, ConcatProperties
  <2>3. \A j \in 0 .. k : Newest(once, j) = Newest(messages, j)
    <3>1. k \in 0 .. Len(messages)
      BY <1>3
    <3>2. \A j \in 0 .. k : Newest(SummaryPrefix \o Newest(messages, k), j) = Newest(messages, j)
      BY <3>1, NewestOfCut
    <3>. QED  BY <1>3, <3>2, Zenon
  <2>. DEFINE again == Kept(once, limit)
  <2>4. k <= 1 \/ Tokens(Newest(messages, k)) <= limit
    BY <1>1, <1>3, KeptRange
  <2>. HIDE DEF once, limit
  <2>5. /\ again \in 0 .. Len(once)
        /\ once # <<>> => again > 0
        /\ again < Len(once) => Tokens(Newest(once, again + 1)) > limit
    BY <1>1, <2>2, KeptRange
  <2>. HIDE DEF again
  <2>6. again >= k
    <3>. SUFFICES ASSUME again < k PROVE FALSE
      BY <2>5
    <3>1. once # <<>> /\ again > 0 /\ again < Len(once) /\ again + 1 \in 0 .. k /\ k > 1
      BY <2>2, <2>5
    <3>2. Tokens(Newest(messages, again + 1)) > limit
      BY <3>1, <2>3, <2>5
    <3>3. /\ Tokens(Newest(messages, again + 1)) \in Nat /\ Tokens(Newest(messages, k)) \in Nat
          /\ Tokens(Newest(messages, again + 1)) <= Tokens(Newest(messages, k))
      <4>1. again + 1 \in 0 .. Len(messages) /\ k \in again + 1 .. Len(messages)
        BY <3>1
      <4>. QED  BY <4>1, TokensMonotonic
    <3>. QED  BY <1>1, <2>4, <3>1, <3>2, <3>3
  <2>7. CASE again = Len(once)
    BY <2>7 DEF Compress, again, limit
  <2>8. CASE again = k
    <3>1. Newest(once, again) = Newest(messages, k)
      BY <2>3, <2>8
    <3>2. SummaryPrefix \o Newest(once, again) = once
      BY <1>3, <3>1
    <3>. QED  BY <3>2 DEF Compress, again, limit
  <2>9. again = Len(once) \/ again = k
    BY <2>2, <2>5, <2>6
  <2>. QED  BY <2>7, <2>8, <2>9
<1>4. \/ once = messages
      \/ \E k \in 1 .. Len(messages) - 1 :
           k = Kept(messages, limit) /\ limit > 0 /\ once = SummaryPrefix \o Newest(messages, k)
  BY CompressCuts
<1>. QED  BY <1>2, <1>3, <1>4
=============================================================================
