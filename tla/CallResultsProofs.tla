--------------------------- MODULE CallResultsProofs ---------------------------
(***************************************************************************)
(* The calls of CallBinding that are accepted, and what their parameters   *)
(* receive, for every set of call sites. While the loops of                *)
(* resolveFunctionArgs run, what is bound is the part of the items they    *)
(* have taken, and nothing else (ResultInv): the values come in the order  *)
(* of the items with the elements of the starred ones last (Taken), a      *)
(* keyword is bound to the parameter it names or kept for **kwargs. Two    *)
(* lists of the same set in the same order are the same (ListsOnce), which *)
(* relates the loops to the order Python gives. While the code runs, every *)
(* parameter has the values of those of its operations that are done       *)
(* (FrameInv); they lie together in the code and are those of what was     *)
(* bound to it (Blocks). What was evaluated is the part of the code that   *)
(* is done (TraceInv); the code's order is one on the expressions of the   *)
(* items (Evaluates), Python's is one on the items (InTurn), and the call  *)
(* is evaluated as it is written when the two agree.                       *)
(***************************************************************************)
EXTENDS CallBindingProofs, FunctionTheorems

-------------------------------------------------------------------------------
(* Lists of the members of a set in an order *)

Lists(s, S, R) ==
  /\ s \in Seq(S)
  /\ \A e \in S : \E n \in DOMAIN s : s[n] = e
  /\ \A m, n \in DOMAIN s : m < n => << s[m], s[n] >> \in R

Asymmetric(S, R) == \A e, f \in S : << e, f >> \in R => << f, e >> \notin R

\* A list is as long as its set has members.
LEMMA ListsAll ==
  ASSUME NEW S, NEW R, NEW s, Lists(s, S, R), Asymmetric(S, R)
  PROVE  /\ IsFiniteSet(S) /\ Cardinality(S) = Len(s)
         /\ \A m, n \in DOMAIN s : s[m] = s[n] => m = n
<1>1. s \in Seq(S) /\ Len(s) \in Nat /\ DOMAIN s = 1 .. Len(s) /\ s \in [1 .. Len(s) -> S]
  BY DEF Lists
<1>2. ASSUME NEW m \in DOMAIN s, NEW n \in DOMAIN s, s[m] = s[n], m # n PROVE FALSE
  <2>1. m < n \/ n < m
    BY <1>1, <1>2
  <2>2. << s[m], s[n] >> \in R \/ << s[n], s[m] >> \in R
    BY <2>1 DEF Lists
  <2>3. << s[m], s[m] >> \in R /\ s[m] \in S
    BY <1>1, <1>2, <2>2
  <2>4. QED
    BY <2>3 DEF Asymmetric
<1>3. s \in Bijection(1 .. Len(s), S)
  <2>1. \A e \in S : \E n \in 1 .. Len(s) : s[n] = e
    BY <1>1 DEF Lists
  <2>2. \A m, n \in 1 .. Len(s) : s[m] = s[n] => m = n
    BY <1>1, <1>2
  <2>3. s \in Injection(1 .. Len(s), S)
    BY <1>1, <2>2, Fun_IsInj
  <2>4. s \in Surjection(1 .. Len(s), S)
    BY <1>1, <2>1, Fun_IsSurj
  <2>5. QED
    BY <2>3, <2>4 DEF Bijection
<1>4. ExistsBijection(1 .. Len(s), S)
  BY <1>3 DEF ExistsBijection
<1>5. IsFiniteSet(S)
  BY <1>1, <1>4, FS_NatBijection
<1>6. Cardinality(S) = Len(s)
  BY <1>1, <1>4, FS_CountingElements
<1>7. QED
  BY <1>2, <1>5, <1>6

\* A set has one list in an order.
LEMMA ListsOnce ==
  ASSUME NEW S, NEW R, Asymmetric(S, R), NEW s, Lists(s, S, R), NEW t, Lists(t, S, R)
  PROVE  s = t
<1>1. Len(s) = Len(t)
  BY ListsAll
<1>2. /\ s \in Seq(S) /\ Len(s) \in Nat /\ DOMAIN s = 1 .. Len(s)
      /\ t \in Seq(S) /\ DOMAIN t = 1 .. Len(s)
  BY <1>1 DEF Lists
<1> DEFINE Bad == {k \in 1 .. Len(s) : s[k] # t[k]}
<1>3. ASSUME Bad # {} PROVE FALSE
  <2>1. PICK k \in Bad : \A j \in Bad : k <= j
    <3>1. Bad \in SUBSET Nat
      BY <1>2
    <3>2. QED
      BY <1>3, <3>1, LeastNumber
  <2>2. k \in 1 .. Len(s) /\ s[k] # t[k] /\ s[k] \in S /\ t[k] \in S
    BY <1>2, <2>1
  <2>3. \A j \in 1 .. Len(s) : j < k => s[j] = t[j]
    BY <1>2, <2>1, <2>2
  <2> HIDE DEF Bad
  <2>4. PICK a \in DOMAIN t : t[a] = s[k]
    BY <2>2 DEF Lists
  <2>5. PICK b \in DOMAIN s : s[b] = t[k]
    BY <2>2 DEF Lists
  <2>6. a \in 1 .. Len(s) /\ b \in 1 .. Len(s) /\ a # k /\ b # k
    BY <1>2, <2>2, <2>4, <2>5
  <2>7. ~ (a < k)
    <3>1. ASSUME a < k PROVE FALSE
      <4>1. s[a] = s[k]
        BY <2>3, <2>4, <2>6, <3>1
      <4>2. a = k
        BY <1>2, <2>2, <2>6, <4>1, ListsAll
      <4>3. QED
        BY <2>6, <4>2
    <3>2. QED
      BY <3>1
  <2>8. ~ (b < k)
    <3>1. ASSUME b < k PROVE FALSE
      <4>1. t[b] = t[k]
        BY <2>3, <2>5, <2>6, <3>1
      <4>2. b = k
        BY <1>2, <2>2, <2>6, <4>1, ListsAll
      <4>3. QED
        BY <2>6, <4>2
    <3>2. QED
      BY <3>1
  <2>9. k < a /\ k < b
    BY <2>2, <2>6, <2>7, <2>8
  <2>10. << t[k], t[a] >> \in R /\ << s[k], s[b] >> \in R
    BY <1>2, <2>2, <2>6, <2>9 DEF Lists
  <2>11. QED
    BY <2>2, <2>4, <2>5, <2>10 DEF Asymmetric
<1>4. \A k \in 1 .. Len(s) : s[k] = t[k]
  BY <1>3
<1>5. QED
  BY <1>1, <1>2, <1>4, SeqEqual

\* Two lists, the first before the second.
LEMMA ListsJoin ==
  ASSUME NEW S, NEW T, NEW R, NEW s, NEW t, Lists(s, S, R), Lists(t, T, R),
         \A e \in S, f \in T : << e, f >> \in R
  PROVE  Lists(s \o t, S \cup T, R)
<1> DEFINE u == s \o t
<1>1. /\ s \in Seq(S) /\ Len(s) \in Nat /\ DOMAIN s = 1 .. Len(s)
      /\ t \in Seq(T) /\ Len(t) \in Nat /\ DOMAIN t = 1 .. Len(t)
  BY DEF Lists
<1>2. u \in Seq(S \cup T) /\ Len(u) = Len(s) + Len(t) /\ DOMAIN u = 1 .. Len(s) + Len(t)
  BY <1>1
<1>3. \A n \in DOMAIN s : u[n] = s[n] /\ n \in DOMAIN u
  BY <1>1, <1>2
<1>4. \A n \in DOMAIN t : u[Len(s) + n] = t[n] /\ Len(s) + n \in DOMAIN u
  BY <1>1, <1>2
<1>5. \A n \in DOMAIN u : n \in DOMAIN s \/ (n - Len(s) \in DOMAIN t /\ u[n] = t[n - Len(s)])
  BY <1>1, <1>2
<1> HIDE DEF u
<1>6. ASSUME NEW e \in S \cup T PROVE \E n \in DOMAIN u : u[n] = e
  <2>1. CASE e \in S
    BY <1>3, <2>1 DEF Lists
  <2>2. CASE e \in T
    <3>1. PICK n \in DOMAIN t : t[n] = e
      BY <2>2 DEF Lists
    <3>2. QED
      BY <1>4, <3>1
  <2>3. QED
    BY <2>1, <2>2
<1>7. ASSUME NEW m \in DOMAIN u, NEW n \in DOMAIN u, m < n PROVE << u[m], u[n] >> \in R
  <2>1. CASE n \in DOMAIN s
    <3>1. m \in DOMAIN s
      BY <1>1, <1>2, <1>7, <2>1
    <3>2. QED
      BY <1>3, <1>7, <2>1, <3>1 DEF Lists
  <2>2. CASE m \in DOMAIN s /\ n \notin DOMAIN s
    <3>1. n - Len(s) \in DOMAIN t /\ u[n] = t[n - Len(s)]
      BY <1>5, <2>2
    <3>2. u[m] \in S /\ u[n] \in T
      BY <1>1, <1>3, <2>2, <3>1
    <3>3. QED
      BY <3>2
  <2>3. CASE m \notin DOMAIN s /\ n \notin DOMAIN s
    <3>1. /\ n - Len(s) \in DOMAIN t /\ u[n] = t[n - Len(s)]
          /\ m - Len(s) \in DOMAIN t /\ u[m] = t[m - Len(s)]
      BY <1>5, <2>3
    <3>2. m - Len(s) < n - Len(s)
      BY <1>1, <1>2, <1>7
    <3>3. << t[m - Len(s)], t[n - Len(s)] >> \in R
      BY <3>1, <3>2 DEF Lists
    <3>4. QED
      BY <3>1, <3>3
  <2>4. QED
    BY <2>1, <2>2, <2>3
<1>8. QED
  BY <1>2, <1>6, <1>7 DEF Lists, u

\* InOrder lists all the members of a set of numbers, in their order.
LEMMA InOrderAll ==
  ASSUME NEW n \in Nat, NEW S \in SUBSET (1 .. n)
  PROVE  /\ InOrder(S) \in Seq(S) /\ InOrder(S) \in Seq(Nat)
         /\ Len(InOrder(S)) \in Nat /\ DOMAIN InOrder(S) = 1 .. Len(InOrder(S))
         /\ \A i, j \in DOMAIN InOrder(S) : i < j => InOrder(S)[i] < InOrder(S)[j]
         /\ \A i, j \in DOMAIN InOrder(S) : InOrder(S)[i] = InOrder(S)[j] => i = j
         /\ \A e \in S : \E i \in DOMAIN InOrder(S) : InOrder(S)[i] = e
<1> DEFINE s == InOrder(S)
<1>1. Ascending(S, s) /\ s \in Seq(S)
  BY InOrderLists
<1>2. IsFiniteSet(S) /\ S \subseteq Nat
  <2>1. IsFiniteSet(1 .. n)
    BY FS_Interval
  <2>2. IsFiniteSet(S)
    BY <2>1, FS_Subset
  <2>3. QED
    BY <2>2
<1> DEFINE c == Cardinality(S)
<1>3. c \in Nat /\ s \in [1 .. c -> S]
  BY <1>1, <1>2, FS_CardinalityType DEF Ascending
<1> HIDE DEF s, c
<1>4. s \in Seq(Nat) /\ DOMAIN s = 1 .. c /\ Len(s) = c
  <2>1. s \in Seq(Nat)
    BY <1>1, <1>2, SeqWidens
  <2>2. DOMAIN s = 1 .. c
    BY <1>3
  <2>3. Len(s) = c
    BY <1>3, <2>1, <2>2
  <2>4. QED
    BY <2>1, <2>2, <2>3
<1>5. \A i, j \in 1 .. c : i < j => s[i] < s[j]
  BY <1>1, <1>4 DEF Ascending
<1>6. \A i, j \in 1 .. c : s[i] = s[j] => i = j
  <2> SUFFICES ASSUME NEW i \in 1 .. c, NEW j \in 1 .. c, s[i] = s[j], i # j PROVE FALSE
    OBVIOUS
  <2>1. s[i] \in Nat /\ s[j] \in Nat
    BY <1>2, <1>3
  <2>2. i < j \/ j < i
    BY <1>3
  <2>3. QED
    BY <1>5, <2>1, <2>2
<1>7. s \in Injection(1 .. c, S)
  BY <1>3, <1>6, Fun_IsInj
<1>8. Cardinality(1 .. c) = c
  <2>1. 1 \in Int /\ c \in Int
    BY <1>3
  <2>2. Cardinality(1 .. c) = IF 1 > c THEN 0 ELSE c - 1 + 1
    BY <2>1, FS_Interval
  <2>3. QED
    BY <1>3, <2>2
<1>9. s \in Surjection(1 .. c, S)
  BY <1>2, <1>7, <1>8, FS_Injection DEF c
<1>10. \A e \in S : \E i \in 1 .. c : s[i] = e
  BY <1>9 DEF Surjection
<1>11. QED
  BY <1>1, <1>3, <1>4, <1>5, <1>6, <1>10 DEF s

-------------------------------------------------------------------------------
(* Where each sequence begins in what FlattenSeq joins *)

Start(f, i) == IF i = 1 THEN 0 ELSE Len(f[i - 1])

Covers(ss, f, k, T) ==
  /\ f[k] \in Seq(T)
  /\ \A i \in 1 .. k :
       /\ Start(f, i) \in Nat /\ Start(f, i) + Len(ss[i]) <= Len(f[k])
       /\ \A m \in 1 .. Len(ss[i]) : f[k][Start(f, i) + m] = ss[i][m]
  /\ \A x \in 1 .. Len(f[k]) : \E i \in 1 .. k : \E m \in 1 .. Len(ss[i]) : x = Start(f, i) + m

\* One more sequence comes after the others.
LEMMA CoversGrows ==
  ASSUME NEW T, NEW ss \in Seq(Seq(T)), NEW f, Flattens(ss, Len(ss), f), NEW k \in 1 .. Len(ss),
         k = 1 \/ Covers(ss, f, k - 1, T)
  PROVE  Covers(ss, f, k, T)
<1>1. k \in Nat /\ ss[k] \in Seq(T) /\ \A i \in 1 .. k : ss[i] \in Seq(T)
  OBVIOUS
<1>2. f[k] = IF k = 1 THEN ss[k] ELSE f[k - 1] \o ss[k]
  BY DEF Flattens
<1>3. CASE k = 1
  <2>1. f[k] = ss[k] /\ Start(f, k) = 0
    BY <1>2, <1>3 DEF Start
  <2>2. \A i \in 1 .. k : i = k
    BY <1>3
  <2>3. Len(ss[k]) \in Nat /\ k \in 1 .. k /\ 0 + Len(ss[k]) <= Len(ss[k])
    BY <1>1
  <2>4. \A x \in 1 .. Len(ss[k]) : x = 0 + x /\ 0 + x = x
    BY <2>3
  <2>5. ASSUME NEW i \in 1 .. k
        PROVE  /\ Start(f, i) \in Nat /\ Start(f, i) + Len(ss[i]) <= Len(f[k])
               /\ \A m \in 1 .. Len(ss[i]) : f[k][Start(f, i) + m] = ss[i][m]
    <3>1. i = k /\ Start(f, i) = 0
      BY <2>1, <2>2
    <3>2. \A m \in 1 .. Len(ss[i]) : f[k][Start(f, i) + m] = ss[i][m]
      BY <2>1, <2>4, <3>1
    <3>3. QED
      BY <2>1, <2>3, <3>1, <3>2
  <2>6. \A x \in 1 .. Len(f[k]) : \E i \in 1 .. k : \E m \in 1 .. Len(ss[i]) : x = Start(f, i) + m
    BY <2>1, <2>3, <2>4
  <2>7. QED
    BY <1>1, <2>1, <2>5, <2>6 DEF Covers
<1>4. CASE k # 1
  <2> DEFINE j == k - 1
             g == f[j]
             s == ss[k]
             u == g \o s
  <2>1. j \in 1 .. k /\ Covers(ss, f, j, T) /\ Start(f, k) = Len(g)
    BY <1>1, <1>4 DEF Start
  <2>2. f[k] = u /\ s \in Seq(T)
    BY <1>1, <1>2, <1>4
  <2>3. g \in Seq(T)
    BY <2>1 DEF Covers
  <2>4. j \in Nat /\ k = j + 1
    BY <1>1, <2>1
  <2> HIDE DEF g, s, j
  <2>5. /\ u \in Seq(T) /\ Len(g) \in Nat /\ Len(s) \in Nat /\ Len(u) = Len(g) + Len(s)
        /\ \A m \in 1 .. Len(g) : u[m] = g[m]
        /\ \A m \in 1 .. Len(s) : u[Len(g) + m] = s[m]
    BY <2>2, <2>3
  <2> HIDE DEF u
  <2>6. ASSUME NEW i \in 1 .. k
        PROVE  /\ Start(f, i) \in Nat /\ Start(f, i) + Len(ss[i]) <= Len(u)
               /\ \A m \in 1 .. Len(ss[i]) : u[Start(f, i) + m] = ss[i][m]
    <3>1. CASE i = k
      <4>1. Start(f, i) = Len(g) /\ ss[i] = s
        BY <2>1, <3>1 DEF s
      <4>2. QED
        BY <2>5, <4>1
    <3>2. CASE i # k
      <4>1. i \in 1 .. j
        BY <2>4, <3>2
      <4>2. /\ Start(f, i) \in Nat /\ Start(f, i) + Len(ss[i]) <= Len(g)
            /\ \A m \in 1 .. Len(ss[i]) : g[Start(f, i) + m] = ss[i][m]
        BY <2>1, <4>1 DEF Covers, g
      <4>3. Len(ss[i]) \in Nat
        BY <1>1
      <4>4. \A m \in 1 .. Len(ss[i]) : Start(f, i) + m \in 1 .. Len(g)
        BY <2>5, <4>2, <4>3, SMTT(30)
      <4>5. \A m \in 1 .. Len(ss[i]) : u[Start(f, i) + m] = ss[i][m]
        BY <2>5, <4>2, <4>4
      <4>6. Start(f, i) + Len(ss[i]) <= Len(u)
        BY <2>5, <4>2, <4>3
      <4>7. QED
        BY <4>2, <4>5, <4>6
    <3>3. QED
      BY <3>1, <3>2
  <2>7. ASSUME NEW x \in 1 .. Len(u)
        PROVE  \E i \in 1 .. k : \E m \in 1 .. Len(ss[i]) : x = Start(f, i) + m
    <3>1. CASE x <= Len(g)
      <4>1. x \in 1 .. Len(g)
        BY <2>5, <3>1
      <4>2. PICK i \in 1 .. j : \E m \in 1 .. Len(ss[i]) : x = Start(f, i) + m
        BY <2>1, <4>1 DEF Covers, g
      <4>3. i \in 1 .. k
        BY <2>4
      <4>4. QED
        BY <4>2, <4>3
    <3>2. CASE ~ (x <= Len(g))
      <4>1. x - Len(g) \in 1 .. Len(s) /\ x = Len(g) + (x - Len(g))
        BY <2>5, <3>2
      <4>2. k \in 1 .. k /\ ss[k] = s /\ Start(f, k) = Len(g)
        BY <1>1, <2>1 DEF s
      <4>3. QED
        BY <4>1, <4>2
    <3>3. QED
      BY <3>1, <3>2
  <2>8. QED
    BY <2>2, <2>5, <2>6, <2>7 DEF Covers
<1>5. QED
  BY <1>3, <1>4

\* Every member of the joined sequence is one of one of the sequences, and where
\* each begins the ones before it have ended.
LEMMA FlattenBlocks ==
  ASSUME NEW T, NEW ss \in Seq(Seq(T))
  PROVE  \E start \in [1 .. Len(ss) -> Nat] :
           /\ \A i \in 1 .. Len(ss) : \A m \in 1 .. Len(ss[i]) :
                /\ start[i] + m \in 1 .. Len(FlattenSeq(ss))
                /\ FlattenSeq(ss)[start[i] + m] = ss[i][m]
           /\ \A x \in 1 .. Len(FlattenSeq(ss)) :
                \E i \in 1 .. Len(ss) : \E m \in 1 .. Len(ss[i]) : x = start[i] + m
           /\ \A i, j \in 1 .. Len(ss) : i < j => start[i] + Len(ss[i]) <= start[j]
<1> DEFINE n == Len(ss)
<1>1. n \in Nat /\ \A i \in 1 .. n : ss[i] \in Seq(T)
  OBVIOUS
<1>2. CASE n = 0
  <2>1. ss = << >>
    BY <1>2
  <2>2. FlattenSeq(ss) = << >>
    BY <1>2, <2>1 DEF FlattenSeq
  <2>3. Len(FlattenSeq(ss)) = 0 /\ << >> \in [1 .. n -> Nat]
    BY <1>2, <2>2
  <2>4. 1 .. 0 = {}
    OBVIOUS
  <2>5. QED
    BY <1>2, <2>3, <2>4
<1>3. CASE n # 0
  <2> DEFINE f == CHOOSE f : Flattens(ss, n, f)
             start == [i \in 1 .. n |-> Start(f, i)]
  <2>1. Flattens(ss, n, f)
    BY <1>1, FlattensExists
  <2>2. FlattenSeq(ss) = f[n]
    BY <1>3 DEF FlattenSeq, Flattens
  <2> HIDE DEF f
  <2> DEFINE Bad == {k \in Nat : k \in 1 .. n /\ ~ Covers(ss, f, k, T)}
  <2>3. ASSUME Bad # {} PROVE FALSE
    <3>1. PICK k \in Bad : \A j \in Bad : k <= j
      BY <2>3, LeastNumber
    <3>2. k \in 1 .. n /\ ~ Covers(ss, f, k, T)
      BY <3>1
    <3>3. CASE k = 1
      BY <2>1, <3>2, <3>3, CoversGrows
    <3>4. CASE k # 1
      <4>1. k - 1 \in Nat /\ k - 1 \in 1 .. n /\ ~ (k <= k - 1)
        BY <1>1, <3>2, <3>4
      <4>2. Covers(ss, f, k - 1, T)
        BY <3>1, <4>1
      <4>3. QED
        BY <2>1, <3>2, <4>2, CoversGrows
    <3>5. QED
      BY <3>3, <3>4
  <2>4. ASSUME NEW k \in 1 .. n PROVE Covers(ss, f, k, T)
    <3>1. k \in Nat
      BY <1>1
    <3> HIDE DEF Bad
    <3>2. k \notin Bad
      BY <2>3, Zenon
    <3>3. QED
      BY <3>1, <3>2 DEF Bad
  <2>5. n \in 1 .. n /\ Covers(ss, f, n, T)
    BY <1>1, <1>3, <2>4
  <2> DEFINE u == FlattenSeq(ss)
  <2>6. u \in Seq(T) /\ u = f[n]
    BY <2>2, <2>5 DEF Covers
  <2>7. start \in [1 .. n -> Nat] /\ \A i \in 1 .. n : start[i] = Start(f, i)
    BY <2>5 DEF Covers
  <2> HIDE DEF start, u
  <2>8. ASSUME NEW i \in 1 .. n, NEW m \in 1 .. Len(ss[i])
        PROVE  start[i] + m \in 1 .. Len(u) /\ u[start[i] + m] = ss[i][m]
    <3>1. /\ start[i] \in Nat /\ start[i] + Len(ss[i]) <= Len(u)
          /\ u[start[i] + m] = ss[i][m]
      BY <2>5, <2>6, <2>7 DEF Covers
    <3>2. Len(ss[i]) \in Nat /\ Len(u) \in Nat
      BY <1>1, <2>6
    <3>3. QED
      BY <3>1, <3>2
  <2>9. \A x \in 1 .. Len(u) : \E i \in 1 .. n : \E m \in 1 .. Len(ss[i]) : x = start[i] + m
    BY <2>5, <2>6, <2>7 DEF Covers
  <2>10. ASSUME NEW i \in 1 .. n, NEW j \in 1 .. n, i < j
         PROVE  start[i] + Len(ss[i]) <= start[j]
    <3>1. j - 1 \in 1 .. n /\ i \in 1 .. j - 1 /\ j # 1
      BY <1>1, <2>10
    <3>2. start[j] = Len(f[j - 1]) /\ start[i] = Start(f, i)
      BY <2>7, <3>1 DEF Start
    <3>3. Covers(ss, f, j - 1, T)
      BY <2>4, <3>1
    <3>4. QED
      BY <3>1, <3>2, <3>3 DEF Covers
  <2>11. QED
    BY <2>7, <2>8, <2>9, <2>10 DEF u
<1>4. QED
  BY <1>2, <1>3

-------------------------------------------------------------------------------
(* The values the items of a call give *)

ItemValues ==
  {e \in ItemExprs : \/ call.items[e.item].form = "pos" /\ e.elem = 0
                     \/ call.items[e.item].form = "star" /\ e.elem \in 1 .. call.items[e.item].len}

\* The order in which they are written, and the one in which the compiler takes
\* them: the elements of the starred items after the plain ones.
Before(e, f) == e.item < f.item \/ (e.item = f.item /\ e.elem < f.elem)
Written == {x \in ItemExprs \X ItemExprs : Before(x[1], x[2])}
Taken ==
  {x \in ItemExprs \X ItemExprs :
     \/ x[1].elem = 0 /\ x[2].elem > 0
     \/ (x[1].elem = 0 <=> x[2].elem = 0) /\ Before(x[1], x[2])}

PyExprs == [n \in DOMAIN PyValues |-> Element(PyValues[n][1], PyValues[n][2])]

LEMMA ExprFields ==
  ASSUME CallOk, NEW e \in ItemExprs
  PROVE  /\ e.item \in Places /\ e.item \in Nat \ {0} /\ e.elem \in Nat /\ e.sort = "item"
         /\ e = Element(e.item, e.elem) /\ call.items[e.item] \in Arguments
<1>1. e.item \in Nat /\ e.elem \in Nat /\ e.sort = "item" /\ e.item \in Places
      /\ e = [sort |-> "item", item |-> e.item, elem |-> e.elem]
  BY DEF ItemExprs, Exprs
<1>2. e.item # 0 /\ call.items[e.item] \in Arguments
  BY <1>1 DEF CallOk, Places
<1>3. QED
  BY <1>1, <1>2 DEF Element

LEMMA ElementIn ==
  ASSUME CallOk, NEW i \in Places, NEW k \in Nat
  PROVE  /\ Element(i, k) \in ItemExprs /\ Element(i, k).item = i /\ Element(i, k).elem = k
         /\ Element(i, k).sort = "item" /\ Element(i, 0) = Item(i) /\ i \in Nat \ {0}
<1>1. i \in Nat \ {0}
  BY DEF CallOk, Places
<1>2. QED
  BY <1>1 DEF Element, Item, ItemExprs, Exprs

LEMMA OrdersAsymmetric ==
  ASSUME CallOk PROVE Asymmetric(ItemExprs, Written) /\ Asymmetric(ItemExprs, Taken)
<1>1. ASSUME NEW e \in ItemExprs, NEW f \in ItemExprs
      PROVE  ~ (Before(e, f) /\ Before(f, e))
  <2>1. e.item \in Nat /\ f.item \in Nat /\ e.elem \in Nat /\ f.elem \in Nat
    BY ExprFields
  <2>2. QED
    BY <2>1 DEF Before
<1>2. ASSUME NEW e \in ItemExprs, NEW f \in ItemExprs
      PROVE  ~ (<< e, f >> \in Written /\ << f, e >> \in Written)
  BY <1>1 DEF Written
<1>3. ASSUME NEW e \in ItemExprs, NEW f \in ItemExprs
      PROVE  ~ (<< e, f >> \in Taken /\ << f, e >> \in Taken)
  <2>1. e.elem \in Nat /\ f.elem \in Nat
    BY ExprFields
  <2>2. QED
    BY <1>1, <2>1 DEF Taken
<1>4. QED
  BY <1>2, <1>3 DEF Asymmetric

LEMMA ValuesAsymmetric ==
  ASSUME CallOk PROVE Asymmetric(ItemValues, Written) /\ Asymmetric(ItemValues, Taken)
<1>1. ItemValues \subseteq ItemExprs
  BY DEF ItemValues
<1>2. QED
  BY <1>1, OrdersAsymmetric DEF Asymmetric

\* What one item gives.
LEMMA SpreadMembers ==
  ASSUME CallOk, NEW i \in Places
  PROVE  /\ Spread(i) \in Seq(Nat \X Nat)
         /\ \A m \in 1 .. Len(Spread(i)) :
              Spread(i)[m][1] = i /\ Element(i, Spread(i)[m][2]) \in ItemValues
         /\ \A m, n \in 1 .. Len(Spread(i)) : m < n => Spread(i)[m][2] < Spread(i)[n][2]
         /\ \A e \in ItemValues : e.item = i =>
              \E m \in 1 .. Len(Spread(i)) : Spread(i)[m] = << i, e.elem >>
<1>1. i \in Nat \ {0} /\ call.items[i] \in Arguments
  BY DEF CallOk, Places
<1>2. call.items[i].len \in Int
  BY <1>1 DEF Arguments
<1>3. CASE call.items[i].form = "pos"
  <2> DEFINE v == << i, 0 >>
  <2>1. v \in Nat \X Nat /\ v[1] = i /\ v[2] = 0
    BY <1>1
  <2>2. Spread(i) = << v >>
    BY <1>3 DEF Spread
  <2>3. Element(i, 0) \in ItemValues
    BY <1>3, ElementIn DEF ItemValues
  <2>4. \A e \in ItemValues : e.item = i => e.elem = 0
    BY <1>3 DEF ItemValues
  <2>5. \A e \in ItemValues : e.item = i => v = << i, e.elem >>
    BY <2>4
  <2> HIDE DEF v
  <2>6. << v >> \in Seq(Nat \X Nat) /\ Len(<< v >>) = 1 /\ << v >>[1] = v
    BY <2>1
  <2> DEFINE s == << v >>
  <2>7. s \in Seq(Nat \X Nat) /\ Len(s) = 1 /\ s[1] = v /\ Spread(i) = s
    BY <2>2, <2>6
  <2> HIDE DEF s
  <2>8. \A m \in 1 .. Len(s) : m = 1
    BY <2>7
  <2>9. 1 \in 1 .. Len(s)
    BY <2>7
  <2>10. \A m \in 1 .. Len(s) : s[m][1] = i /\ Element(i, s[m][2]) \in ItemValues
    BY <2>1, <2>3, <2>7, <2>8
  <2>11. \A m, n \in 1 .. Len(s) : ~ (m < n)
    BY <2>7
  <2>12. \A e \in ItemValues : e.item = i => \E m \in 1 .. Len(s) : s[m] = << i, e.elem >>
    BY <2>5, <2>7, <2>9
  <2>13. QED
    BY <2>7, <2>10, <2>11, <2>12
<1>4. CASE call.items[i].form = "star"
  <2> DEFINE n == call.items[i].len
             s == [k \in 1 .. n |-> << i, k >>]
  <2>1. Spread(i) = s
    BY <1>4 DEF Spread
  <2>2. \E c \in Nat : c = IF n > 0 THEN n ELSE 0
    BY <1>2
  <2>3. PICK c \in Nat : c = IF n > 0 THEN n ELSE 0
    BY <2>2
  <2>4. 1 .. n = 1 .. c
    BY <1>2, <2>3
  <2>5. s = [k \in 1 .. c |-> << i, k >>]
    BY <2>4
  <2>6. s \in Seq(Nat \X Nat) /\ Len(s) = c /\ \A k \in 1 .. c : s[k] = << i, k >>
    <3>1. \A k \in 1 .. c : << i, k >> \in Nat \X Nat
      BY <1>1
    <3>2. s \in [1 .. c -> Nat \X Nat] /\ c \in Nat
      BY <2>3, <2>5, <3>1
    <3> HIDE DEF s
    <3>3. s \in Seq(Nat \X Nat) /\ Len(s) = c
      BY <3>2
    <3>4. QED
      BY <2>5, <3>3
  <2> HIDE DEF s
  <2>7. \A k \in 1 .. c : Element(i, k) \in ItemValues
    <3>1. TAKE k \in 1 .. c
    <3>2. k \in 1 .. n /\ k \in Nat
      BY <2>3, <2>4, <3>1
    <3>3. QED
      BY <1>4, <3>2, ElementIn DEF ItemValues
  <2>8. \A e \in ItemValues : e.item = i => e.elem \in 1 .. c
    BY <1>4, <2>4 DEF ItemValues
  <2>9. QED
    BY <2>1, <2>6, <2>7, <2>8
<1>5. CASE call.items[i].form \notin {"pos", "star"}
  <2>1. Spread(i) = << >>
    BY <1>5 DEF Spread
  <2>2. \A e \in ItemValues : e.item # i
    BY <1>5 DEF ItemValues
  <2>3. << >> \in Seq(Nat \X Nat) /\ 1 .. Len(<< >>) = {}
    OBVIOUS
  <2>4. QED
    BY <2>1, <2>2, <2>3
<1>6. QED
  BY <1>3, <1>4, <1>5

\* Python takes the values in the order they are written.
LEMMA PyListed ==
  ASSUME CallOk
  PROVE  /\ Lists(PyExprs, ItemValues, Written)
         /\ PyValues \in Seq(Nat \X Nat) /\ Len(PyExprs) = Len(PyValues)
         /\ \A n \in DOMAIN PyValues : PyValues[n] = << PyExprs[n].item, PyExprs[n].elem >>
<1> DEFINE ss == [i \in DOMAIN call.items |-> Spread(i)]
           u == FlattenSeq(ss)
<1>1. DOMAIN call.items = 1 .. Len(call.items) /\ Len(call.items) \in Nat
      /\ Places = 1 .. Len(call.items)
  BY DEF CallOk, Places
<1>2. \A i \in 1 .. Len(call.items) : Spread(i) \in Seq(Nat \X Nat)
  BY <1>1, SpreadMembers
<1>3. ss \in Seq(Seq(Nat \X Nat)) /\ Len(ss) = Len(call.items)
  BY <1>1, <1>2
<1>4. \A i \in Places : ss[i] = Spread(i)
  BY <1>1
<1>5. PyValues = u
  BY DEF PyValues
<1> HIDE DEF ss
<1>6. u \in Seq(Nat \X Nat)
  BY <1>3, FlattenedOver
<1>7. PICK start \in [1 .. Len(ss) -> Nat] :
        /\ \A i \in 1 .. Len(ss) : \A m \in 1 .. Len(ss[i]) :
             start[i] + m \in 1 .. Len(u) /\ u[start[i] + m] = ss[i][m]
        /\ \A x \in 1 .. Len(u) :
             \E i \in 1 .. Len(ss) : \E m \in 1 .. Len(ss[i]) : x = start[i] + m
        /\ \A i, j \in 1 .. Len(ss) : i < j => start[i] + Len(ss[i]) <= start[j]
  BY <1>3, FlattenBlocks
<1> HIDE DEF u
<1>8. /\ \A i \in Places : start[i] \in Nat /\ Len(Spread(i)) \in Nat
      /\ \A i \in Places : \A m \in 1 .. Len(Spread(i)) :
           start[i] + m \in 1 .. Len(u) /\ u[start[i] + m] = Spread(i)[m]
      /\ \A x \in 1 .. Len(u) :
           \E i \in Places : \E m \in 1 .. Len(Spread(i)) : x = start[i] + m
      /\ \A i, j \in Places : i < j => start[i] + Len(Spread(i)) <= start[j]
  <2>1. \A i \in Places : start[i] \in Nat /\ Len(Spread(i)) \in Nat
    <3>1. \A i \in Places : i \in 1 .. Len(ss) /\ Spread(i) \in Seq(Nat \X Nat)
      BY <1>1, <1>2, <1>3
    <3>2. \A i \in 1 .. Len(ss) : start[i] \in Nat
      BY <1>7
    <3>3. \A s \in Seq(Nat \X Nat) : Len(s) \in Nat
      OBVIOUS
    <3>4. QED
      BY <3>1, <3>2, <3>3
  <2>2. \A i \in Places : i \in 1 .. Len(ss) /\ ss[i] = Spread(i)
    BY <1>1, <1>3, <1>4
  <2>3. \A i \in Places : \A m \in 1 .. Len(Spread(i)) :
           start[i] + m \in 1 .. Len(u) /\ u[start[i] + m] = Spread(i)[m]
    <3>1. TAKE i \in Places
    <3>2. i \in 1 .. Len(ss) /\ ss[i] = Spread(i)
      BY <2>2
    <3>3. \A m \in 1 .. Len(ss[i]) : start[i] + m \in 1 .. Len(u) /\ u[start[i] + m] = ss[i][m]
      BY <1>7, <3>2, Zenon
    <3>4. QED
      BY <3>2, <3>3, Zenon
  <2>4. ASSUME NEW x \in 1 .. Len(u)
        PROVE  \E i \in Places : \E m \in 1 .. Len(Spread(i)) : x = start[i] + m
    <3>1. PICK i \in 1 .. Len(ss) : \E m \in 1 .. Len(ss[i]) : x = start[i] + m
      BY <1>7
    <3>2. i \in Places
      BY <1>1, <1>3, <3>1
    <3>3. QED
      BY <2>2, <3>1, <3>2
  <2>5. \A i, j \in Places : i < j => start[i] + Len(Spread(i)) <= start[j]
    BY <1>7, <2>2
  <2>6. QED
    BY <2>1, <2>3, <2>4, <2>5
<1>9. DOMAIN u = 1 .. Len(u) /\ Len(u) \in Nat
  BY <1>6
<1> DEFINE s == PyExprs
<1>10. \A n \in 1 .. Len(u) : s[n] = Element(u[n][1], u[n][2])
  BY <1>5, <1>9 DEF PyExprs
<1>11. DOMAIN s = 1 .. Len(u) /\ s = [n \in 1 .. Len(u) |-> s[n]]
  BY <1>5, <1>9 DEF PyExprs
<1> HIDE DEF s
<1>12. ASSUME NEW n \in 1 .. Len(u)
       PROVE  /\ s[n] \in ItemValues
              /\ u[n] = << s[n].item, s[n].elem >>
  <2>0. PICK i \in Places : \E m \in 1 .. Len(Spread(i)) : n = start[i] + m
    BY <1>8
  <2>1. PICK m \in 1 .. Len(Spread(i)) : n = start[i] + m
    BY <2>0
  <2>2. u[n] = Spread(i)[m] /\ u[n][1] = i /\ Element(i, u[n][2]) \in ItemValues
    <3>1. i \in Places /\ m \in 1 .. Len(Spread(i))
      BY <2>0, <2>1
    <3>2. u[n] = Spread(i)[m]
      BY <1>8, <2>1, <3>1
    <3>3. Spread(i)[m][1] = i /\ Element(i, Spread(i)[m][2]) \in ItemValues
      BY <3>1, SpreadMembers
    <3>4. QED
      BY <3>2, <3>3
  <2>3. u[n] \in Nat \X Nat
    BY <1>6
  <2>4. s[n] = Element(i, u[n][2]) /\ u[n][2] \in Nat
    BY <1>10, <2>2, <2>3
  <2>5. s[n].item = i /\ s[n].elem = u[n][2]
    BY <2>4, ElementIn
  <2>6. u[n] = << u[n][1], u[n][2] >>
    BY <2>3
  <2>7. QED
    BY <2>2, <2>4, <2>5, <2>6
<1>13. s \in Seq(ItemValues) /\ Len(s) = Len(u)
  BY <1>9, <1>11, <1>12
<1>14. ASSUME NEW e \in ItemValues PROVE \E n \in DOMAIN s : s[n] = e
  <2>1. e \in ItemExprs /\ e.item \in Places /\ e = Element(e.item, e.elem)
    BY ExprFields DEF ItemValues
  <2>2. PICK m \in 1 .. Len(Spread(e.item)) : Spread(e.item)[m] = << e.item, e.elem >>
    BY <2>1, SpreadMembers
  <2>3. start[e.item] + m \in 1 .. Len(u) /\ u[start[e.item] + m] = << e.item, e.elem >>
    BY <1>8, <2>1, <2>2
  <2>4. s[start[e.item] + m] = Element(e.item, e.elem)
    BY <1>10, <2>3
  <2>5. QED
    BY <1>11, <2>1, <2>3, <2>4
<1>15. ASSUME NEW x \in DOMAIN s, NEW y \in DOMAIN s, x < y PROVE << s[x], s[y] >> \in Written
  <2>0. PICK i \in Places, j \in Places :
          /\ \E m \in 1 .. Len(Spread(i)) : x = start[i] + m
          /\ \E n \in 1 .. Len(Spread(j)) : y = start[j] + n
    BY <1>8, <1>11
  <2>1. PICK m \in 1 .. Len(Spread(i)) : x = start[i] + m
    BY <2>0
  <2>2. PICK n \in 1 .. Len(Spread(j)) : y = start[j] + n
    BY <2>0
  <2>3. u[x] = Spread(i)[m] /\ u[y] = Spread(j)[n]
    BY <1>8, <2>1, <2>2
  <2>4. /\ s[x] \in ItemValues /\ u[x] = << s[x].item, s[x].elem >>
        /\ s[y] \in ItemValues /\ u[y] = << s[y].item, s[y].elem >>
    BY <1>11, <1>12
  <2>5. /\ s[x].item = i /\ s[y].item = j
        /\ s[x].elem = Spread(i)[m][2] /\ s[y].elem = Spread(j)[n][2]
    <3>1. Spread(i)[m][1] = i /\ Spread(j)[n][1] = j
      BY <2>0, <2>1, <2>2, SpreadMembers
    <3>2. /\ u[x][1] = s[x].item /\ u[x][2] = s[x].elem
          /\ u[y][1] = s[y].item /\ u[y][2] = s[y].elem
      BY <2>4
    <3>3. QED
      BY <2>3, <3>1, <3>2
  <2>6. i \in Nat /\ j \in Nat
    BY <1>1
  <2>7. i <= j
    <3> SUFFICES ASSUME j < i PROVE FALSE
      BY <2>6
    <3>1. start[j] + Len(Spread(j)) <= start[i]
      BY <1>8
    <3>2. start[i] \in Nat /\ start[j] \in Nat /\ Len(Spread(j)) \in Nat /\ Len(Spread(i)) \in Nat
      BY <1>8
    <3>3. QED
      BY <1>15, <2>1, <2>2, <3>1, <3>2
  <2>8. CASE i = j
    <3>1. m < n
      <4>1. start[i] \in Nat /\ Len(Spread(i)) \in Nat
        BY <1>8
      <4>2. QED
        BY <1>15, <2>1, <2>2, <2>8, <4>1
    <3>2. Spread(i)[m][2] < Spread(i)[n][2]
      BY <2>8, <3>1, SpreadMembers
    <3>3. Before(s[x], s[y])
      BY <2>5, <2>8, <3>2 DEF Before
    <3>4. QED
      BY <2>4, <3>3 DEF Written, ItemValues
  <2>9. CASE i < j
    BY <2>4, <2>5, <2>9 DEF Written, ItemValues, Before
  <2>10. QED
    BY <2>6, <2>7, <2>8, <2>9
<1>16. Lists(s, ItemValues, Written)
  BY <1>13, <1>14, <1>15 DEF Lists
<1>17. QED
  BY <1>5, <1>6, <1>9, <1>12, <1>13, <1>16 DEF s

-------------------------------------------------------------------------------
(* Parameters, and the items of a form *)

\* What the checker accepts of a declaration (CallsAssumption) holds of an
\* exception's message, and of no parameters, as well.
Declared ==
  /\ CallOk
  /\ \A p, q \in DOMAIN Params : Params[p].name = Params[q].name => p = q
  /\ \A p \in DOMAIN Params :
       /\ Params[p].default = "none" \/ AssignableTo(Params[p].default, Params[p].typ)
       /\ call.callee \in Plain => Params[p].kind = "posonly" /\ Params[p].default = "none"

Ordinary(p) == Params[p].kind \in {"posonly", "normal"}

LEMMA ParamsListed ==
  ASSUME CallOk
  PROVE  /\ Params \in Seq(Parameters) /\ Len(Params) \in Nat /\ DOMAIN Params = 1 .. Len(Params)
         /\ \A p \in DOMAIN Params : p \in Nat \ {0} /\ Params[p] \in Parameters
                                     /\ Params[p].kind \in Kinds
<1>1. Params \in Seq(Parameters)
  BY ParamsTyped
<1>2. \A p \in Parameters : p.kind \in Kinds
  BY DEF Parameters
<1>3. QED
  BY <1>1, <1>2

\* The list of the parameters a positional argument may fill.
LEMMA PositionalListed ==
  ASSUME CallOk
  PROVE  /\ Len(Positional) \in Nat /\ DOMAIN Positional = 1 .. Len(Positional)
         /\ \A n \in DOMAIN Positional : Positional[n] \in DOMAIN Params /\ Ordinary(Positional[n])
         /\ \A m, n \in DOMAIN Positional : Positional[m] = Positional[n] => m = n
         /\ \A p \in DOMAIN Params : Ordinary(p) => \E n \in DOMAIN Positional : Positional[n] = p
<1> DEFINE S == {p \in DOMAIN Params : Params[p].kind \notin Aggregates \cup {"kwonly"}}
           s == InOrder(S)
<1>1. \A p \in DOMAIN Params : p \in S <=> Ordinary(p)
  BY ParamsListed DEF Kinds, Aggregates, Ordinary
<1>2. Len(Params) \in Nat /\ S \in SUBSET (1 .. Len(Params)) /\ S \subseteq DOMAIN Params
  BY ParamsListed
<1>3. Positional = s
  BY DEF Positional
<1> HIDE DEF S
<1>4. /\ s \in Seq(S) /\ Len(s) \in Nat /\ DOMAIN s = 1 .. Len(s)
      /\ \A i, j \in DOMAIN s : s[i] = s[j] => i = j
      /\ \A e \in S : \E i \in DOMAIN s : s[i] = e
  BY <1>2, InOrderAll
<1> HIDE DEF s
<1>5. \A n \in DOMAIN s : s[n] \in S
  BY <1>4
<1>6. QED
  BY <1>1, <1>2, <1>3, <1>4, <1>5

LEMMA ItemsListed ==
  ASSUME CallOk, NEW form
  PROVE  /\ Items(form) \in Seq(Places) /\ Len(Items(form)) \in Nat
         /\ DOMAIN Items(form) = 1 .. Len(Items(form))
         /\ \A n \in DOMAIN Items(form) : Items(form)[n] \in Places
                                          /\ call.items[Items(form)[n]].form = form
         /\ \A m, n \in DOMAIN Items(form) : m < n => Items(form)[m] < Items(form)[n]
         /\ \A i \in Places : call.items[i].form = form =>
              \E n \in DOMAIN Items(form) : Items(form)[n] = i
<1> DEFINE S == {i \in DOMAIN call.items : call.items[i].form = form}
           s == InOrder(S)
<1>1. Len(call.items) \in Nat /\ DOMAIN call.items = 1 .. Len(call.items)
  BY DEF CallOk
<1>2. S \in SUBSET (1 .. Len(call.items)) /\ S \in SUBSET Places
  BY <1>1 DEF Places
<1>3. \A i \in Places : i \in S <=> call.items[i].form = form
  BY DEF Places
<1>4. Items(form) = s
  BY DEF Items
<1> HIDE DEF S
<1>5. /\ s \in Seq(S) /\ Len(s) \in Nat /\ DOMAIN s = 1 .. Len(s)
      /\ \A i, j \in DOMAIN s : i < j => s[i] < s[j]
      /\ \A e \in S : \E i \in DOMAIN s : s[i] = e
  BY <1>1, <1>2, InOrderAll
<1> HIDE DEF s
<1>6. s \in Seq(Places) /\ \A n \in DOMAIN s : s[n] \in S
  <2>1. \A n \in DOMAIN s : s[n] \in S
    BY <1>5
  <2>2. S \subseteq Places
    BY <1>2
  <2>3. s \in Seq(Places)
    BY <1>5, <2>2, SeqWidens
  <2>4. QED
    BY <2>1, <2>3
<1>7. QED
  BY <1>2, <1>3, <1>4, <1>5, <1>6

\* Where Python and the compiler look at the same parameters.
LEMMA RegularParams ==
  ASSUME CallOk, ~OtherConstructor
  PROVE  PyParams = Params /\ PyPositional = Positional /\ call.callee # "derived"
<1>1. call.callee # "derived"
  BY DEF OtherConstructor
<1>2. PyParams = Params
  <2>1. CASE call.callee = "exception"
    <3>1. Len(call.params) = 1 /\ call.params = Params
      BY <2>1 DEF OtherConstructor
    <3>2. call.params # << >>
      BY <3>1
    <3>3. QED
      BY <3>1, <3>2 DEF PyParams
  <2>2. CASE call.callee # "exception"
    BY <1>1, <2>2 DEF PyParams, Params
  <2>3. QED
    BY <2>1, <2>2
<1>3. PyPositional = Positional
  <2>1. {p \in DOMAIN Params : Params[p].kind \notin Aggregates \cup {"kwonly"}}
          = {p \in DOMAIN Params : Params[p].kind \in {"posonly", "normal"}}
    BY ParamsListed DEF Kinds, Aggregates
  <2>2. QED
    BY <1>2, <2>1 DEF Positional, PyPositional
<1>4. QED
  BY <1>1, <1>2, <1>3

LEMMA DeclaredFirst ==
  ASSUME Init PROVE Declared
<1>1. /\ CallOk
      /\ \A p, q \in DOMAIN call.params : call.params[p].name = call.params[q].name => p = q
      /\ \A p \in DOMAIN call.params :
           /\ \/ call.params[p].default = "none"
              \/ AssignableTo(call.params[p].default, call.params[p].typ)
           /\ call.callee \in {"callable", "native", "builtinmethod"} =>
                call.params[p].kind = "posonly" /\ call.params[p].default = "none"
  BY CallsAssumption DEF Init, CallOk
<1>2. CASE call.callee = "exception"
  <2> DEFINE message == [name |-> "message", kind |-> "normal", typ |-> call.typ,
                         default |-> call.typ]
  <2>1. Params = << message >> /\ message.default = message.typ
    BY <1>2 DEF Params
  <2> HIDE DEF message
  <2>2. DOMAIN Params = {1} /\ Params[1] = message
    BY <2>1
  <2>3. \A p \in DOMAIN Params : p = 1 /\ AssignableTo(Params[p].default, Params[p].typ)
    BY <2>1, <2>2 DEF AssignableTo
  <2>4. call.callee \notin Plain
    BY <1>2 DEF Plain
  <2>5. QED
    BY <1>1, <2>3, <2>4 DEF Declared
<1>3. CASE call.callee = "derived"
  <2>1. Params = << >>
    BY <1>3 DEF Params
  <2>2. DOMAIN Params = {}
    BY <2>1
  <2>3. QED
    BY <1>1, <2>2 DEF Declared
<1>4. CASE call.callee \notin {"exception", "derived"}
  <2>1. Params = call.params
    BY <1>4 DEF Params
  <2>2. call.callee \in Plain => call.callee \in {"callable", "native", "builtinmethod"}
    BY <1>4 DEF Plain
  <2>3. QED
    BY <1>1, <2>1, <2>2 DEF Declared
<1>5. QED
  BY <1>2, <1>3, <1>4

\* The compiler takes as many values as Python does.
LEMMA SameLength ==
  ASSUME CallOk, NEW vals, Lists(vals, ItemValues, Taken)
  PROVE  Len(vals) = Len(PyValues) /\ Len(vals) \in Nat /\ DOMAIN vals = 1 .. Len(vals)
         /\ vals \in Seq(ItemExprs) /\ \A n \in DOMAIN vals : vals[n] \in ItemValues
<1>1. Len(vals) = Cardinality(ItemValues)
  BY ValuesAsymmetric, ListsAll
<1>2. Len(PyExprs) = Cardinality(ItemValues)
  BY ValuesAsymmetric, PyListed, ListsAll
<1>3. vals \in Seq(ItemValues) /\ ItemValues \subseteq ItemExprs
  BY DEF Lists, ItemValues
<1>4. vals \in Seq(ItemExprs)
  BY <1>3, SeqWidens
<1>5. QED
  BY <1>1, <1>2, <1>3, <1>4, PyListed

-------------------------------------------------------------------------------
(* What is bound in each phase *)

KeywordItems == {i \in Places : call.items[i].form = "kw"}
PlainNamed(i) == {p \in Called(call.items[i].name) : Params[p].kind \notin Aggregates}
OtherItems == {e \in ItemExprs : e.item \in KeywordItems /\ e.elem = 0 /\ PlainNamed(e.item) = {}}

Ranked(vals, p) == \E n \in DOMAIN Positional : Positional[n] = p /\ n <= Len(vals)
Enough(vals) == Len(vals) <= Len(Positional) \/ Of("var") # {}

\* The values from the first m that no parameter of their own takes.
Rest(vals, m, s) ==
  /\ s \in Seq(ItemExprs)
  /\ Len(s) = IF m > Len(Positional) THEN m - Len(Positional) ELSE 0
  /\ \A n \in 1 .. Len(s) : s[n] = vals[Len(Positional) + n]

\* The items the loop of the phase has yet to take: in order, after the others.
Members(q) == {q[n] : n \in DOMAIN q}
Waiting == Members(queue)

WaitsFor(q, form) ==
  /\ q \in Seq(Places)
  /\ \A n \in DOMAIN q : call.items[q[n]].form = form
  /\ \A m, n \in DOMAIN q : m < n => q[m] < q[n]
  /\ \A i \in Places \ Members(q) : call.items[i].form = form => \A n \in DOMAIN q : i < q[n]

Expandable(taken) ==
  \A i \in Places \ taken : call.items[i].form = "star" => call.items[i].len >= 0

DispatchOk ==
  /\ phase = "dispatch" => extra.kw = << >>
  /\ phase \notin {"dispatch", "rejected"} =>
       /\ Items("map") = << >> /\ call.defined
       /\ call.callee \in Plain => OnlyPositional

StarsOk ==
  phase = "stars" =>
    /\ WaitsFor(queue, "star") /\ Expandable(Waiting)
    /\ Lists(extra.pos, {e \in ItemValues : e.item \notin Waiting}, Taken)
    /\ extra.kw = << >>
    /\ \A p \in DOMAIN Params : args[p] = Unset

\* The first m values are bound, the others are still to be.
Positioned(b, rest, vals, m) ==
  /\ \A n \in DOMAIN Positional : b[Positional[n]] = IF n <= m THEN vals[n] ELSE Unset
  /\ \A p \in DOMAIN Params : ~Ordinary(p) => b[p] = Unset
  /\ m <= Len(Positional) \/ Of("var") # {}
  /\ Rest(vals, m, rest)

Pending(q, vals, m) ==
  /\ m \in 0 .. Len(vals) /\ Len(q) = Len(vals) - m
  /\ \A n \in 1 .. Len(q) : q[n] = vals[m + n]

PositionalsOk ==
  phase = "positionals" =>
    /\ Expandable({}) /\ extra.kw = << >>
    /\ \E vals, m : Lists(vals, ItemValues, Taken) /\ Pending(queue, vals, m)
                    /\ Positioned(args, extra.pos, vals, m)

\* A keyword names a parameter that no value was bound to, or goes to **kwargs.
KeywordsBound(b, vals, done) ==
  \A i \in done :
    IF PlainNamed(i) = {} THEN Of("kw") # {}
    ELSE \E p \in PlainNamed(i) :
           Params[p].kind # "posonly" /\ ~Ranked(vals, p) /\ b[p] = Item(i)

RanksBound(b, vals) ==
  \A n \in DOMAIN Positional : n <= Len(vals) => b[Positional[n]] = vals[n]

\* Nothing else is bound.
OthersUnset(b, vals, done, unset) ==
  \A p \in DOMAIN Params :
    \/ Params[p].kind \in Aggregates
    \/ Ranked(vals, p)
    \/ \E i \in done : p \in PlainNamed(i)
    \/ b[p] = unset[p] /\ (unset[p] = Default(p) => Params[p].default # "none")

AllUnset == [p \in DOMAIN Params |-> Unset]
AllDefault == [p \in DOMAIN Params |-> Default(p)]

\* The keywords done are bound, and all the values are.
KeywordsTaken(b, rest, vals, done) ==
  /\ Lists(vals, ItemValues, Taken) /\ Enough(vals)
  /\ Rest(vals, Len(vals), rest)
  /\ KeywordsBound(b, vals, done)
  /\ RanksBound(b, vals)
  /\ OthersUnset(b, vals, done, AllUnset)

KeywordsOk ==
  phase = "keywords" =>
    /\ Expandable({}) /\ WaitsFor(queue, "kw")
    /\ Lists(extra.kw, {e \in OtherItems : e.item \notin Waiting}, Written)
    /\ \E vals : KeywordsTaken(args, extra.pos, vals, KeywordItems \ Waiting)

DisplaysBound(b, vals) ==
  \A p \in DOMAIN Params :
    /\ Params[p].kind = "var" => b[p].sort = "list" /\ Rest(vals, Len(vals), b[p].parts)
    /\ Params[p].kind = "kw" => b[p].sort = "dict" /\ Lists(b[p].parts, OtherItems, Written)

Resolved(b, vals, unset) ==
  /\ Lists(vals, ItemValues, Taken) /\ Enough(vals)
  /\ KeywordsBound(b, vals, KeywordItems)
  /\ RanksBound(b, vals)
  /\ OthersUnset(b, vals, KeywordItems, unset)
  /\ DisplaysBound(b, vals)

DefaultsOk == phase = "defaults" => Expandable({}) /\ \E vals : Resolved(args, vals, AllUnset)

Settled == {"types", "evaluate", "entered"}

ResolvedOk == phase \in Settled => Expandable({}) /\ \E vals : Resolved(args, vals, AllDefault)

FitsOk ==
  phase \in {"evaluate", "entered"} =>
    /\ args = [p \in DOMAIN Params |-> args[p]]
    /\ \A p \in DOMAIN Params : args[p] \in Bindable(p) /\ Fits(args[p], p)

RefusedOk ==
  ~OtherConstructor =>
    /\ phase = "rejected" => ~PyAccepts \/ Unsupported
    /\ phase = "mistyped" => ~WellTyped \/ Unsupported

ResultInv ==
  Declared /\ DispatchOk /\ StarsOk /\ PositionalsOk /\ KeywordsOk /\ DefaultsOk
  /\ ResolvedOk /\ FitsOk /\ RefusedOk

\* While the call site stays, so does everything these are about but the bindings.
LEMMA CallSame ==
  ASSUME call' = call
  PROVE  /\ Params' = Params /\ Places' = Places /\ ItemExprs' = ItemExprs
         /\ ItemValues' = ItemValues /\ Taken' = Taken /\ Written' = Written
         /\ Positional' = Positional /\ KeywordItems' = KeywordItems /\ OtherItems' = OtherItems
         /\ AllUnset' = AllUnset /\ AllDefault' = AllDefault
         /\ (Declared <=> Declared') /\ (OnlyPositional <=> OnlyPositional')
         /\ (OtherConstructor <=> OtherConstructor') /\ (PyAccepts <=> PyAccepts')
         /\ (Unsupported <=> Unsupported') /\ (WellTyped <=> WellTyped')
         /\ \A kind : Of(kind)' = Of(kind)
         /\ \A form : Items(form)' = Items(form)
         /\ \A i : PlainNamed(i)' = PlainNamed(i)
         /\ \A p : Ordinary(p)' <=> Ordinary(p)
         /\ \A p : Bindable(p)' = Bindable(p)
         /\ \A e, p : Fits(e, p)' <=> Fits(e, p)
         /\ \A vals, p : Ranked(vals, p)' <=> Ranked(vals, p)
         /\ \A vals : Enough(vals)' <=> Enough(vals)
         /\ \A vals, m, s : Rest(vals, m, s)' <=> Rest(vals, m, s)
         /\ \A taken : Expandable(taken)' <=> Expandable(taken)
<1>1. /\ Params' = Params /\ Places' = Places /\ ItemExprs' = ItemExprs
      /\ (CallOk <=> CallOk') /\ \A p : Bindable(p)' = Bindable(p)
  BY CallKept
<1>2. /\ Positional' = Positional /\ \A kind : Of(kind)' = Of(kind)
      /\ \A name : Called(name)' = Called(name)
      /\ \A p : Ordinary(p)' <=> Ordinary(p)
  BY <1>1 DEF Positional, Of, Called, Ordinary
<1>3. \A form : Items(form)' = Items(form)
  BY DEF Items
<1>4. /\ ItemValues' = ItemValues /\ Taken' = Taken /\ Written' = Written
      /\ KeywordItems' = KeywordItems
  BY <1>1 DEF ItemValues, Taken, Written, KeywordItems, Before
<1>5. \A i : PlainNamed(i)' = PlainNamed(i)
  BY <1>1, <1>2 DEF PlainNamed
<1>6. OtherItems' = OtherItems
  BY <1>1, <1>4, <1>5 DEF OtherItems
<1>7. AllUnset' = AllUnset /\ AllDefault' = AllDefault
  BY <1>1 DEF AllUnset, AllDefault
<1>8. Declared <=> Declared'
  BY <1>1 DEF Declared
<1>9. (Starred <=> Starred') /\ (Named <=> Named') /\ (OnlyPositional <=> OnlyPositional')
  BY <1>1, <1>3 DEF Starred, Named, OnlyPositional
<1>10. OtherConstructor <=> OtherConstructor'
  BY <1>1 DEF OtherConstructor
<1>11. PyParams' = PyParams /\ \A kind : PyHas(kind)' <=> PyHas(kind)
  BY DEF PyParams, PyHas
<1>12. PyNamed' = PyNamed /\ PyPositional' = PyPositional
  BY <1>11 DEF PyNamed, PyPositional
<1>13. PyValues' = PyValues
  BY DEF PyValues, Spread
<1>14. \A p : Rank(p)' = Rank(p) /\ Naming(p)' = Naming(p)
  BY <1>11, <1>12, <1>13 DEF Rank, Naming
<1>15. Others' = Others
  BY <1>3, <1>12, <1>14 DEF Others
<1>16. PyAccepts <=> PyAccepts'
  BY <1>3, <1>11, <1>12, <1>13, <1>14, <1>15 DEF PyAccepts
<1>17. Unsupported <=> Unsupported'
  BY <1>1, <1>2, <1>3, <1>9, <1>11 DEF Unsupported
<1>18. WellTyped <=> WellTyped'
  BY <1>1 DEF WellTyped
<1>19. \A e : TypeOf(e)' = TypeOf(e)
  BY <1>1 DEF TypeOf
<1>20. \A e, p : Fits(e, p)' <=> Fits(e, p)
  BY <1>1, <1>19 DEF Fits
<1>21. /\ \A vals, p : Ranked(vals, p)' <=> Ranked(vals, p)
       /\ \A vals : Enough(vals)' <=> Enough(vals)
  BY <1>2 DEF Ranked, Enough
<1>22. \A vals, m, s : Rest(vals, m, s)' <=> Rest(vals, m, s)
  BY <1>1, <1>2 DEF Rest
<1>23. \A taken : Expandable(taken)' <=> Expandable(taken)
  BY <1>1 DEF Expandable
<1>24. QED
  BY <1>1, <1>2, <1>3, <1>4, <1>5, <1>6, <1>7, <1>8, <1>9, <1>10, <1>16, <1>17, <1>18,
     <1>20, <1>21, <1>22, <1>23

-------------------------------------------------------------------------------
(* Python's rules in terms of what is bound *)

LEMMA NamedOnce ==
  ASSUME Declared, NEW i, NEW p \in PlainNamed(i), NEW q \in PlainNamed(i)
  PROVE  p = q /\ p \in DOMAIN Params
BY DEF Declared, PlainNamed, Called

LEMMA NamingIs ==
  ASSUME CallOk, ~OtherConstructor, NEW p \in DOMAIN Params, NEW i
  PROVE  i \in Naming(p) <=> /\ i \in KeywordItems /\ p \in PlainNamed(i)
                             /\ Params[p].kind # "posonly"
<1>1. PyParams = Params
  BY RegularParams
<1>2. Params[p].kind \in {"normal", "kwonly"}
        <=> Params[p].kind \notin Aggregates /\ Params[p].kind # "posonly"
  BY ParamsListed DEF Kinds, Aggregates
<1>3. p \in PyNamed <=> Params[p].kind \in {"normal", "kwonly"}
  BY <1>1 DEF PyNamed
<1>4. p \in PlainNamed(i) <=> /\ Params[p].name = call.items[i].name
                              /\ Params[p].kind \notin Aggregates
  BY DEF PlainNamed, Called
<1>5. i \in Naming(p) <=> /\ i \in DOMAIN call.items /\ call.items[i].form = "kw"
                          /\ p \in PyNamed /\ call.items[i].name = Params[p].name
  BY <1>1 DEF Naming
<1>6. i \in KeywordItems <=> i \in DOMAIN call.items /\ call.items[i].form = "kw"
  BY DEF KeywordItems, Places
<1>7. QED
  BY <1>2, <1>3, <1>4, <1>5, <1>6

LEMMA KeywordsAre ==
  ASSUME CallOk PROVE ToSet(Items("kw")) = KeywordItems
<1> DEFINE s == Items("kw")
<1>1. /\ \A n \in DOMAIN s : s[n] \in KeywordItems
      /\ \A i \in KeywordItems : \E n \in DOMAIN s : s[n] = i
  BY ItemsListed DEF KeywordItems
<1> HIDE DEF s
<1>2. ToSet(s) = KeywordItems
  BY <1>1 DEF ToSet
<1>3. QED
  BY <1>2 DEF s

\* The keywords that name no parameter they could be bound to.
LEMMA OthersListed ==
  ASSUME CallOk, ~OtherConstructor
  PROVE  /\ Others \in Seq(Nat) /\ Len(Others) \in Nat /\ DOMAIN Others = 1 .. Len(Others)
         /\ \A m, n \in DOMAIN Others : m < n => Others[m] < Others[n]
         /\ \A n \in DOMAIN Others :
              /\ Others[n] \in KeywordItems
              /\ \A p \in PlainNamed(Others[n]) : Params[p].kind = "posonly"
         /\ \A i \in KeywordItems : (\A p \in PlainNamed(i) : Params[p].kind = "posonly") =>
              \E n \in DOMAIN Others : Others[n] = i
<1> DEFINE S == {i \in ToSet(Items("kw")) : \A p \in PyNamed : i \notin Naming(p)}
           s == InOrder(S)
           free(i) == \A p \in PlainNamed(i) : Params[p].kind = "posonly"
<1>1. ASSUME NEW i PROVE i \in S <=> i \in KeywordItems /\ free(i)
  <2>1. PyParams = Params /\ ToSet(Items("kw")) = KeywordItems
    BY RegularParams, KeywordsAre
  <2>2. PyNamed \subseteq DOMAIN Params /\ \A p : i \in Naming(p) => p \in PyNamed
    BY <2>1 DEF PyNamed, Naming
  <2>3. \A p \in PlainNamed(i) : p \in DOMAIN Params
    BY DEF PlainNamed, Called
  <2>4. \A p \in DOMAIN Params :
          i \in Naming(p) <=> /\ i \in KeywordItems /\ p \in PlainNamed(i)
                              /\ Params[p].kind # "posonly"
    BY NamingIs
  <2>5. QED
    BY <2>1, <2>2, <2>3, <2>4
<1>2. Len(call.items) \in Nat /\ KeywordItems \subseteq 1 .. Len(call.items)
  BY DEF CallOk, KeywordItems, Places
<1>3. Others = s
  BY DEF Others
<1> HIDE DEF S, free
<1>4. S \in SUBSET (1 .. Len(call.items))
  BY <1>1, <1>2
<1>5. /\ s \in Seq(S) /\ s \in Seq(Nat) /\ Len(s) \in Nat /\ DOMAIN s = 1 .. Len(s)
      /\ \A i, j \in DOMAIN s : i < j => s[i] < s[j]
      /\ \A e \in S : \E i \in DOMAIN s : s[i] = e
  BY <1>2, <1>4, InOrderAll
<1> HIDE DEF s
<1>6. \A n \in DOMAIN s : s[n] \in KeywordItems /\ free(s[n])
  BY <1>1, <1>5
<1>7. \A i \in KeywordItems : free(i) => \E n \in DOMAIN s : s[n] = i
  BY <1>1, <1>5
<1>8. QED
  BY <1>3, <1>5, <1>6, <1>7 DEF free

LEMMA RankIs ==
  ASSUME CallOk, ~OtherConstructor, NEW vals, Lists(vals, ItemValues, Taken), NEW p
  PROVE  /\ \A n : n \in Rank(p) <=> /\ n \in DOMAIN Positional /\ Positional[n] = p
                                     /\ n <= Len(vals)
         /\ Rank(p) # {} <=> Ranked(vals, p)
         /\ IsFiniteSet(Rank(p))
         /\ Cardinality(Rank(p)) = IF Ranked(vals, p) THEN 1 ELSE 0
<1>1. PyPositional = Positional /\ Len(vals) = Len(PyValues)
  BY RegularParams, SameLength
<1>2. \A n : n \in Rank(p) <=> /\ n \in DOMAIN Positional /\ Positional[n] = p
                               /\ n <= Len(vals)
  BY <1>1 DEF Rank
<1>3. Rank(p) # {} <=> Ranked(vals, p)
  BY <1>2 DEF Ranked
<1>4. CASE Ranked(vals, p)
  <2>1. PICK n : n \in Rank(p)
    BY <1>3, <1>4
  <2>2. \A m \in Rank(p) : m = n
    BY <1>2, <2>1, PositionalListed
  <2>3. Rank(p) = {n}
    BY <2>1, <2>2
  <2>4. IsFiniteSet(Rank(p)) /\ Cardinality(Rank(p)) = 1
    BY <2>3, FS_Singleton
  <2>5. QED
    BY <1>2, <1>3, <1>4, <2>4
<1>5. CASE ~Ranked(vals, p)
  <2>1. Rank(p) = {}
    BY <1>3, <1>5
  <2>2. IsFiniteSet(Rank(p)) /\ Cardinality(Rank(p)) = 0
    BY <2>1, FS_EmptySet
  <2>3. QED
    BY <1>2, <1>3, <1>5, <2>2
<1>6. QED
  BY <1>4, <1>5

LEMMA HasIs ==
  ASSUME CallOk, ~OtherConstructor, NEW kind
  PROVE  PyHas(kind) <=> Of(kind) # {}
BY RegularParams DEF PyHas, Of

\* Reasons for which Python refuses a call.
LEMMA TooManyValues ==
  ASSUME CallOk, ~OtherConstructor, NEW vals, Lists(vals, ItemValues, Taken), ~Enough(vals)
  PROVE  ~PyAccepts
<1>1. Len(PyValues) = Len(vals) /\ PyPositional = Positional /\ (PyHas("var") <=> Of("var") # {})
  BY SameLength, RegularParams, HasIs
<1>2. QED
  BY <1>1 DEF PyAccepts, Enough

LEMMA NoPlace ==
  ASSUME CallOk, ~OtherConstructor, NEW i \in KeywordItems, Of("kw") = {},
         \A p \in PlainNamed(i) : Params[p].kind = "posonly"
  PROVE  ~PyAccepts
<1>1. \E n \in DOMAIN Others : Others[n] = i
  BY OthersListed
<1>2. Others # << >>
  BY <1>1
<1>3. ~PyHas("kw")
  BY HasIs
<1>4. QED
  BY <1>2, <1>3 DEF PyAccepts

LEMMA NotGiven ==
  ASSUME CallOk, ~OtherConstructor, NEW vals, Lists(vals, ItemValues, Taken),
         NEW p \in DOMAIN Params, Params[p].kind \notin Aggregates, ~Ranked(vals, p),
         \A i \in KeywordItems : p \in PlainNamed(i) => Params[p].kind = "posonly",
         Params[p].default = "none"
  PROVE  ~PyAccepts
<1>1. Rank(p) = {} /\ Naming(p) = {}
  BY RankIs, NamingIs
<1>2. p \in DOMAIN PyParams /\ PyParams[p] = Params[p]
  BY RegularParams
<1>3. QED
  BY <1>1, <1>2 DEF PyAccepts

LEMMA GivenTwice ==
  ASSUME Declared, ~OtherConstructor, NEW vals, Lists(vals, ItemValues, Taken),
         NEW i \in KeywordItems, NEW p \in PlainNamed(i), Params[p].kind # "posonly",
         \/ Ranked(vals, p)
         \/ \E j \in KeywordItems : j # i /\ p \in PlainNamed(j)
  PROVE  ~PyAccepts
<1>1. CallOk /\ p \in DOMAIN Params /\ Params[p].kind \notin Aggregates
  BY DEF Declared, PlainNamed, Called
<1>2. CASE Ranked(vals, p)
  <2>1. i \in Naming(p) /\ Naming(p) \subseteq Places
    BY <1>1, NamingIs DEF Naming, Places
  <2>2. IsFiniteSet(Naming(p))
    <3>1. Places = 1 .. Len(call.items) /\ 1 \in Int /\ Len(call.items) \in Int
      BY <1>1 DEF CallOk, Places
    <3>2. IsFiniteSet(Places)
      BY <3>1, FS_Interval
    <3>3. QED
      BY <2>1, <3>2, FS_Subset
  <2>3. Cardinality(Naming(p)) \in Nat /\ Cardinality(Naming(p)) # 0
    BY <2>1, <2>2, FS_CardinalityType, FS_EmptySet
  <2>4. Cardinality(Rank(p)) = 1
    BY <1>1, <1>2, RankIs
  <2>5. ~ (Cardinality(Rank(p)) + Cardinality(Naming(p)) <= 1)
    BY <2>3, <2>4
  <2>6. p \in DOMAIN PyParams /\ PyParams[p].kind \notin Aggregates
    BY <1>1, RegularParams
  <2>7. QED
    BY <2>5, <2>6 DEF PyAccepts
<1>3. CASE \E j \in KeywordItems : j # i /\ p \in PlainNamed(j)
  <2>1. PICK j \in KeywordItems : j # i /\ p \in PlainNamed(j)
    BY <1>3
  <2>2. call.items[i].name = Params[p].name /\ call.items[j].name = Params[p].name
    BY <2>1 DEF PlainNamed, Called
  <2>3. i \in ToSet(Items("kw")) /\ j \in ToSet(Items("kw"))
    BY <1>1, KeywordsAre
  <2>4. call.items[i].name = call.items[j].name
    BY <2>2
  <2>5. QED
    BY <2>1, <2>3, <2>4 DEF PyAccepts
<1>4. QED
  BY <1>2, <1>3

-------------------------------------------------------------------------------
(* Every step keeps it *)

PlainList == [n \in DOMAIN Items("pos") |-> Item(Items("pos")[n])]

\* The plain arguments, in the order of their places.
LEMMA PlainListed ==
  ASSUME CallOk
  PROVE  /\ Lists(PlainList, {e \in ItemValues : e.elem = 0}, Taken)
         /\ Len(PlainList) = Len(Items("pos"))
<1> DEFINE s == Items("pos")
           u == PlainList
           S == {e \in ItemValues : e.elem = 0}
<1>1. /\ s \in Seq(Places) /\ Len(s) \in Nat /\ DOMAIN s = 1 .. Len(s)
      /\ \A n \in DOMAIN s : s[n] \in Places /\ call.items[s[n]].form = "pos"
      /\ \A m, n \in DOMAIN s : m < n => s[m] < s[n]
      /\ \A i \in Places : call.items[i].form = "pos" => \E n \in DOMAIN s : s[n] = i
  BY ItemsListed
<1>2. u = [n \in 1 .. Len(s) |-> Item(s[n])]
  BY <1>1 DEF PlainList
<1> HIDE DEF s, u
<1>3. ASSUME NEW n \in 1 .. Len(s)
      PROVE  /\ u[n] = Item(s[n]) /\ u[n] = Element(s[n], 0)
             /\ u[n] \in S /\ u[n] \in ItemExprs /\ u[n].item = s[n] /\ u[n].elem = 0
  <2>1. s[n] \in Places /\ call.items[s[n]].form = "pos"
    BY <1>1
  <2>2. u[n] = Item(s[n]) /\ Element(s[n], 0) = Item(s[n])
    BY <1>2, <2>1, ElementIn
  <2>3. u[n] \in ItemExprs /\ u[n].item = s[n] /\ u[n].elem = 0
    BY <2>1, <2>2, ElementIn
  <2>4. QED
    BY <2>1, <2>2, <2>3 DEF ItemValues
<1>4. u \in Seq(S) /\ Len(u) = Len(s) /\ DOMAIN u = 1 .. Len(s)
  BY <1>1, <1>2, <1>3
<1>5. ASSUME NEW e \in S PROVE \E n \in DOMAIN u : u[n] = e
  <2>1. e \in ItemExprs /\ call.items[e.item].form = "pos" /\ e.elem = 0
    BY DEF ItemValues
  <2>2. e.item \in Places /\ e = Element(e.item, 0)
    BY <2>1, ExprFields
  <2>3. PICK n \in DOMAIN s : s[n] = e.item
    BY <1>1, <2>1, <2>2
  <2>4. QED
    BY <1>1, <1>3, <1>4, <2>2, <2>3
<1>6. ASSUME NEW m \in DOMAIN u, NEW n \in DOMAIN u, m < n PROVE << u[m], u[n] >> \in Taken
  <2>1. s[m] < s[n]
    BY <1>1, <1>4, <1>6
  <2>2. /\ u[m] \in ItemExprs /\ u[m].item = s[m] /\ u[m].elem = 0
        /\ u[n] \in ItemExprs /\ u[n].item = s[n] /\ u[n].elem = 0
    BY <1>3, <1>4
  <2>3. QED
    BY <2>1, <2>2 DEF Taken, Before
<1>7. Lists(u, S, Taken)
  BY <1>4, <1>5, <1>6 DEF Lists
<1>8. QED
  BY <1>4, <1>7 DEF s, u

\* The numbers up to n are listed by themselves.
LEMMA AllOrdinary ==
  ASSUME CallOk, \A p \in DOMAIN Params : Ordinary(p)
  PROVE  Len(Positional) = Len(Params) /\ \A p \in DOMAIN Params : Positional[p] = p
<1> DEFINE S == DOMAIN Params
           R == {x \in Nat \X Nat : x[1] < x[2]}
           id == [n \in 1 .. Len(Params) |-> n]
<1>1. Len(Params) \in Nat /\ S = 1 .. Len(Params)
  BY ParamsListed
<1>2. {p \in DOMAIN Params : Params[p].kind \notin Aggregates \cup {"kwonly"}} = S
  BY DEF Ordinary, Aggregates
<1>3. Positional = InOrder(S)
  BY <1>2 DEF Positional
<1>4. Asymmetric(S, R)
  BY DEF Asymmetric
<1>5. Lists(InOrder(S), S, R)
  <2> DEFINE s == InOrder(S)
  <2>1. /\ s \in Seq(S) /\ s \in Seq(Nat) /\ DOMAIN s = 1 .. Len(s)
        /\ \A i, j \in DOMAIN s : i < j => s[i] < s[j]
        /\ \A e \in S : \E i \in DOMAIN s : s[i] = e
    BY <1>1, InOrderAll
  <2> HIDE DEF s
  <2>2. \A n \in DOMAIN s : s[n] \in Nat
    BY <2>1
  <2>3. QED
    BY <2>1, <2>2 DEF Lists, s
<1>6. Lists(id, S, R)
  <2>1. id \in Seq(S) /\ DOMAIN id = 1 .. Len(Params) /\ \A n \in 1 .. Len(Params) : id[n] = n
    BY <1>1
  <2> HIDE DEF id
  <2>2. QED
    BY <1>1, <2>1 DEF Lists
<1>7. Positional = id
  BY <1>3, <1>4, <1>5, <1>6, ListsOnce
<1>8. QED
  BY <1>1, <1>7

\* A call that has no starred items.
LEMMA NoStars ==
  ASSUME CallOk, ~Starred
  PROVE  Lists(PlainList, ItemValues, Taken) /\ Expandable({})
<1>1. \A i \in Places : call.items[i].form # "star"
  BY ItemsListed DEF Starred
<1>2. \A e \in ItemValues : e.elem = 0
  BY <1>1, ExprFields DEF ItemValues
<1>3. {e \in ItemValues : e.elem = 0} = ItemValues
  BY <1>2
<1>4. Lists(PlainList, ItemValues, Taken)
  BY <1>3, PlainListed
<1>5. QED
  BY <1>1, <1>4 DEF Expandable

LEMMA NoKeywords ==
  ASSUME CallOk, ~Named
  PROVE  KeywordItems = {}
BY ItemsListed DEF Named, KeywordItems

\* A call of something that takes no keywords and no starred arguments.
LEMMA PlainMismatch ==
  ASSUME Declared, ~OtherConstructor, call.callee \in Plain, ~OnlyPositional
  PROVE  ~PyAccepts \/ Unsupported
<1>1. CallOk /\ call.callee # "derived"
  BY DEF Declared, OtherConstructor
<1>2. CASE Starred \/ Named
  BY <1>1, <1>2 DEF Unsupported
<1>3. CASE ~Starred /\ ~Named
  <2> DEFINE vals == PlainList
  <2>1. Lists(vals, ItemValues, Taken) /\ Len(vals) = Len(Items("pos")) /\ Len(vals) \in Nat
    BY <1>1, <1>3, NoStars, PlainListed, SameLength
  <2>2. \A p \in DOMAIN Params : Params[p].kind = "posonly" /\ Params[p].default = "none"
    BY DEF Declared
  <2>3. Len(Positional) = Len(Params) /\ \A p \in DOMAIN Params : Positional[p] = p
    BY <1>1, <2>2, AllOrdinary DEF Ordinary
  <2>4. Len(Params) \in Nat /\ DOMAIN Params = 1 .. Len(Params)
    BY <1>1, ParamsListed
  <2>5. Len(vals) # Len(Params)
    BY <1>3, <2>1 DEF OnlyPositional
  <2> HIDE DEF vals
  <2>6. CASE Len(vals) > Len(Params)
    <3>1. Of("var") = {}
      BY <2>2 DEF Of
    <3>2. ~Enough(vals)
      BY <2>1, <2>3, <2>4, <2>6, <3>1 DEF Enough
    <3>3. QED
      BY <1>1, <2>1, <3>2, TooManyValues
  <2>7. CASE Len(vals) < Len(Params)
    <3> DEFINE p == Len(Params)
    <3>1. p \in DOMAIN Params
      BY <2>1, <2>4, <2>7
    <3>2. \A n \in DOMAIN Positional : Positional[n] = p => n = p
      BY <1>1, <2>3, <2>4, PositionalListed
    <3>3. ~Ranked(vals, p)
      BY <2>1, <2>4, <2>7, <3>2 DEF Ranked
    <3>4. Params[p].kind = "posonly" /\ Params[p].default = "none"
      BY <2>2, <3>1
    <3> HIDE DEF p
    <3>5. ~PyAccepts
      BY <1>1, <2>1, <3>1, <3>3, <3>4, NotGiven DEF Aggregates
    <3>6. QED
      BY <3>5
  <2>8. QED
    BY <2>1, <2>4, <2>5, <2>6, <2>7
<1>4. QED
  BY <1>2, <1>3

\* A call that is refused binds nothing.
LEMMA ResultRefused ==
  ASSUME ResultInv, Reject, ~OtherConstructor => ~PyAccepts \/ Unsupported
  PROVE  ResultInv'
<1>1. call' = call /\ phase' = "rejected"
  BY DEF Reject
<1>2. Declared' /\ RefusedOk'
  BY <1>1, CallSame DEF ResultInv, RefusedOk
<1>3. QED
  BY <1>1, <1>2 DEF ResultInv, DispatchOk, StarsOk, PositionalsOk, KeywordsOk, DefaultsOk,
                    ResolvedOk, FitsOk, Settled

\* The call of something that takes positional arguments only.
LEMMA PlainResolved ==
  ASSUME Declared, call.callee \in Plain, OnlyPositional, NEW b,
         b = [p \in DOMAIN Params |-> Item(Items("pos")[p])]
  PROVE  Expandable({}) /\ \E vals : Resolved(b, vals, AllDefault)
<1> DEFINE vals == PlainList
<1>1. CallOk /\ ~Starred /\ ~Named /\ Len(Items("pos")) = Len(Params)
  BY DEF Declared, OnlyPositional
<1>2. Lists(vals, ItemValues, Taken) /\ Expandable({}) /\ KeywordItems = {}
      /\ Len(vals) = Len(Params)
  BY <1>1, NoStars, NoKeywords, PlainListed
<1>3. \A p \in DOMAIN Params : Params[p].kind = "posonly"
  BY DEF Declared
<1>4. Len(Positional) = Len(Params) /\ \A p \in DOMAIN Params : Positional[p] = p
  BY <1>1, <1>3, AllOrdinary DEF Ordinary
<1>5. Len(Params) \in Nat /\ DOMAIN Params = 1 .. Len(Params)
      /\ DOMAIN Positional = 1 .. Len(Positional)
  BY <1>1, ParamsListed, PositionalListed
<1>6. \A p \in DOMAIN Params : Params[p].kind \notin Aggregates
  BY <1>3 DEF Aggregates
<1>7. \A p \in DOMAIN Params : b[p] = vals[p]
  <2>1. DOMAIN Items("pos") = 1 .. Len(Params)
    BY <1>1, <1>5, ItemsListed
  <2>2. \A p \in DOMAIN Params : vals[p] = Item(Items("pos")[p])
    BY <1>5, <2>1 DEF PlainList
  <2>3. QED
    BY <2>2
<1> HIDE DEF vals
<1>8. \A p \in DOMAIN Params : Ranked(vals, p)
  BY <1>2, <1>4, <1>5 DEF Ranked
<1>9. Enough(vals)
  BY <1>2, <1>4, <1>5 DEF Enough
<1>10. KeywordsBound(b, vals, KeywordItems)
  BY <1>2 DEF KeywordsBound
<1>11. RanksBound(b, vals)
  BY <1>4, <1>5, <1>7 DEF RanksBound
<1>12. OthersUnset(b, vals, KeywordItems, AllDefault)
  BY <1>8 DEF OthersUnset
<1>13. DisplaysBound(b, vals)
  BY <1>6 DEF DisplaysBound, Aggregates
<1>14. QED
  BY <1>2, <1>9, <1>10, <1>11, <1>12, <1>13 DEF Resolved

\* What is resolved stays so while the call site does.
LEMMA ResolvedLater ==
  ASSUME call' = call, NEW vals
  PROVE  /\ Resolved(args', vals, AllDefault) => Resolved(args, vals, AllDefault)'
         /\ Resolved(args', vals, AllUnset) => Resolved(args, vals, AllUnset)'
BY CallSame DEF Resolved, KeywordsBound, RanksBound, OthersUnset, DisplaysBound, Item, Default

LEMMA ResultDispatch ==
  ASSUME BindInv, ResultInv, Dispatch PROVE ResultInv'
<1> DEFINE pos == Items("pos")
<1>1. /\ CallOk /\ Declared /\ phase = "dispatch"
      /\ extra \in [pos : Seq(ItemExprs), kw : Seq(ItemExprs)]
  BY DEF BindInv, ExtraOk, ResultInv, Dispatch
<1>2. CASE /\ Reject
           /\ \/ Items("map") # << >>
              \/ ~call.defined
              \/ (call.callee \in Plain /\ ~OnlyPositional)
  <2>1. ~OtherConstructor => ~PyAccepts \/ Unsupported
    BY <1>1, <1>2, PlainMismatch DEF Unsupported
  <2>2. QED
    BY <1>2, <2>1, ResultRefused
<1>3. CASE /\ Items("map") = << >> /\ call.defined /\ call.callee \in Plain /\ OnlyPositional
           /\ phase' = "types"
           /\ args' = [p \in DOMAIN Params |-> Item(pos[p])]
           /\ UNCHANGED << call, queue, extra, code, trace, frame >>
  <2>1. call' = call
    BY <1>3
  <2>2. Declared' /\ DispatchOk'
    BY <1>1, <1>3, <2>1, CallSame DEF DispatchOk
  <2>3. Expandable({}) /\ \E vals : Resolved(args', vals, AllDefault)
    BY <1>1, <1>3, PlainResolved
  <2>4. Expandable({})' /\ \E vals : Resolved(args, vals, AllDefault)'
    BY <2>1, <2>3, ResolvedLater, CallSame
  <2>5. QED
    BY <1>3, <2>2, <2>4 DEF ResultInv, StarsOk, PositionalsOk, KeywordsOk, DefaultsOk,
                            ResolvedOk, FitsOk, RefusedOk
<1>4. CASE /\ Items("map") = << >> /\ call.defined /\ call.callee \notin Plain
           /\ phase' = "stars"
           /\ queue' = Items("star")
           /\ args' = [p \in DOMAIN Params |-> Unset]
           /\ extra' = [extra EXCEPT !.pos = [n \in DOMAIN pos |-> Item(pos[n])]]
           /\ UNCHANGED << call, code, trace, frame >>
  <2>1. call' = call
    BY <1>4
  <2>2. Declared' /\ DispatchOk'
    BY <1>1, <1>4, <2>1, CallSame DEF DispatchOk, Plain
  <2>3. extra'.pos = PlainList /\ extra'.kw = extra.kw
    BY <1>1, <1>4 DEF PlainList
  <2> DEFINE s == Items("star")
  <2>4. /\ s \in Seq(Places)
        /\ \A n \in DOMAIN s : s[n] \in Places /\ call.items[s[n]].form = "star"
        /\ \A m, n \in DOMAIN s : m < n => s[m] < s[n]
        /\ \A i \in Places : call.items[i].form = "star" => \E n \in DOMAIN s : s[n] = i
    BY <1>1, ItemsListed
  <2> DEFINE W == Members(s)
  <2>5. Waiting' = W /\ queue' = s
    BY <1>4 DEF Waiting, Members
  <2>6. \A i \in Places : i \in W <=> call.items[i].form = "star"
    BY <2>4 DEF Members
  <2>7. WaitsFor(queue, "star")' /\ Expandable(Waiting)'
    <3>1. \A i \in Places \ W : call.items[i].form # "star"
      BY <2>6
    <3> HIDE DEF s
    <3>2. WaitsFor(s, "star")
      BY <2>4, <3>1 DEF WaitsFor
    <3>3. WaitsFor(queue, "star")'
      BY <2>1, <2>5, <3>2, CallSame DEF WaitsFor, Members
    <3>4. QED
      BY <2>1, <2>5, <3>1, <3>3, CallSame DEF Expandable
  <2> HIDE DEF s, W
  <2>8. {e \in ItemValues : e.item \notin W} = {e \in ItemValues : e.elem = 0}
    <3>1. ASSUME NEW e \in ItemValues PROVE e.item \notin W <=> e.elem = 0
      <4>1. e \in ItemExprs
        BY DEF ItemValues
      <4>2. e.item \in Places
        BY <1>1, <4>1, ExprFields
      <4>3. QED
        BY <2>6, <4>2 DEF ItemValues
    <3>2. QED
      BY <3>1
  <2>9. Lists(extra'.pos, {e \in ItemValues' : e.item \notin Waiting'}, Taken')
    BY <1>1, <2>1, <2>3, <2>5, <2>8, PlainListed, CallSame
  <2>10. extra'.kw = << >>
    BY <1>1, <2>3 DEF ResultInv, DispatchOk
  <2>11. \A p \in DOMAIN Params' : args'[p] = Unset'
    BY <1>4, <2>1, CallSame DEF Unset
  <2>12. StarsOk'
    BY <1>4, <2>7, <2>9, <2>10, <2>11 DEF StarsOk
  <2>13. QED
    BY <1>4, <2>2, <2>12 DEF ResultInv, PositionalsOk, KeywordsOk, DefaultsOk,
                             ResolvedOk, FitsOk, RefusedOk, Settled
<1>5. QED
  BY <1>2, <1>3, <1>4 DEF Dispatch

\* The first of the items a loop waits for is taken.
LEMMA WaitsForLess ==
  ASSUME CallOk, NEW q, NEW form, WaitsFor(q, form), q # << >>
  PROVE  /\ Head(q) \in Places /\ call.items[Head(q)].form = form
         /\ Head(q) \in Members(q) /\ Members(Tail(q)) = Members(q) \ {Head(q)}
         /\ WaitsFor(Tail(q), form)
         /\ \A i \in Places \ Members(q) : call.items[i].form = form => i < Head(q)
<1> DEFINE s == Tail(q)
           i == Head(q)
<1>1. /\ q \in Seq(Places)
      /\ \A n \in DOMAIN q : call.items[q[n]].form = form
      /\ \A m, n \in DOMAIN q : m < n => q[m] < q[n]
      /\ \A j \in Places \ Members(q) : call.items[j].form = form => \A n \in DOMAIN q : j < q[n]
  BY DEF WaitsFor
<1>2. Len(q) \in Nat \ {0} /\ DOMAIN q = 1 .. Len(q) /\ 1 \in DOMAIN q /\ i = q[1]
  BY <1>1
<1>3. /\ s \in Seq(Places) /\ Len(s) = Len(q) - 1 /\ DOMAIN s = 1 .. Len(q) - 1
      /\ \A n \in DOMAIN s : s[n] = q[n + 1]
  BY <1>1, <1>2
<1> HIDE DEF s, i
<1>4. i \in Places /\ call.items[i].form = form /\ i \in Members(q) /\ Places \subseteq Nat
  BY <1>1, <1>2 DEF Members, CallOk, Places
<1>5. \A n \in DOMAIN s : n + 1 \in DOMAIN q /\ 1 < n + 1 /\ i < s[n]
  BY <1>1, <1>2, <1>3
<1>6. Members(s) = Members(q) \ {i}
  <2>1. ASSUME NEW n \in DOMAIN s PROVE s[n] \in Members(q) /\ s[n] # i
    <3>1. s[n] \in Places /\ i < s[n] /\ s[n] = q[n + 1] /\ n + 1 \in DOMAIN q
      BY <1>3, <1>5
    <3>2. s[n] # i
      BY <1>4, <3>1
    <3>3. QED
      BY <3>1, <3>2 DEF Members
  <2>2. ASSUME NEW n \in DOMAIN q, q[n] # i PROVE q[n] \in Members(s)
    <3>1. n # 1 /\ n - 1 \in DOMAIN s /\ n - 1 + 1 = n
      BY <1>2, <1>3, <2>2
    <3>2. q[n] = s[n - 1]
      BY <1>3, <3>1
    <3>3. QED
      BY <3>1, <3>2 DEF Members
  <2>3. QED
    BY <2>1, <2>2 DEF Members
<1>7. WaitsFor(s, form)
  <2>1. \A n \in DOMAIN s : call.items[s[n]].form = form
    BY <1>1, <1>3, <1>5
  <2>2. \A m, n \in DOMAIN s : m < n => s[m] < s[n]
    <3>1. TAKE m, n \in DOMAIN s
    <3>2. m < n => m + 1 < n + 1
      BY <1>3
    <3>3. QED
      BY <1>1, <1>3, <1>5, <3>2
  <2>3. ASSUME NEW j \in Places \ Members(s), call.items[j].form = form, NEW n \in DOMAIN s
        PROVE  j < s[n]
    <3>1. CASE j = i
      BY <1>5, <3>1
    <3>2. CASE j # i
      <4>1. j \in Places \ Members(q)
        BY <1>6, <3>2
      <4>2. QED
        BY <1>1, <1>3, <1>5, <2>3, <4>1
    <3>3. QED
      BY <3>1, <3>2
  <2>4. QED
    BY <1>3, <2>1, <2>2, <2>3 DEF WaitsFor
<1>8. \A j \in Places \ Members(q) : call.items[j].form = form => j < i
  BY <1>1, <1>2
<1>9. QED
  BY <1>4, <1>6, <1>7, <1>8 DEF s, i

\* The elements of one starred item come after those of the items before it.
LEMMA ElementsListed ==
  ASSUME CallOk, NEW i \in Places, call.items[i].form = "star", call.items[i].len >= 0
  PROVE  Lists([k \in 1 .. call.items[i].len |-> Element(i, k)],
               {e \in ItemValues : e.item = i}, Taken)
<1> DEFINE n == call.items[i].len
           s == [k \in 1 .. n |-> Element(i, k)]
           S == {e \in ItemValues : e.item = i}
<1>1. n \in Nat
  <2>1. call.items[i] \in Arguments
    BY DEF CallOk, Places
  <2>2. QED
    BY <2>1 DEF Arguments
<1>2. \A k \in 1 .. n : s[k] = Element(i, k)
  OBVIOUS
<1>3. ASSUME NEW k \in 1 .. n
      PROVE  /\ s[k] \in S /\ s[k] \in ItemExprs /\ s[k].item = i /\ s[k].elem = k
  <2>1. k \in Nat
    BY <1>1
  <2>2. /\ Element(i, k) \in ItemExprs /\ Element(i, k).item = i /\ Element(i, k).elem = k
    BY <2>1, ElementIn
  <2>3. Element(i, k) \in ItemValues
    BY <2>2 DEF ItemValues
  <2>4. QED
    BY <1>2, <2>2, <2>3
<1>4. s = [k \in 1 .. n |-> s[k]]
  OBVIOUS
<1> HIDE DEF s, S, n
<1>5. s \in Seq(S) /\ DOMAIN s = 1 .. n
  <2>1. \A k \in 1 .. n : s[k] \in S
    BY <1>3
  <2>2. QED
    BY <1>1, <1>4, <2>1
<1> USE DEF S, n
<1>6. ASSUME NEW e \in S PROVE \E k \in DOMAIN s : s[k] = e
  <2>1. e \in ItemExprs /\ e.item = i /\ e.elem \in 1 .. n
    BY DEF ItemValues
  <2>2. e = Element(i, e.elem)
    BY <2>1, ExprFields
  <2>3. QED
    BY <1>2, <1>5, <2>1, <2>2
<1>7. ASSUME NEW j \in DOMAIN s, NEW k \in DOMAIN s, j < k PROVE << s[j], s[k] >> \in Taken
  <2>1. /\ s[j] \in ItemExprs /\ s[j].item = i /\ s[j].elem = j /\ j \in 1 .. n
        /\ s[k] \in ItemExprs /\ s[k].item = i /\ s[k].elem = k /\ k \in 1 .. n
    BY <1>3, <1>5
  <2>2. j # 0 /\ k # 0
    BY <2>1
  <2>3. QED
    BY <1>7, <2>1, <2>2 DEF Taken, Before
<1>8. QED
  BY <1>5, <1>6, <1>7 DEF Lists, s

LEMMA ResultExpandStar ==
  ASSUME BindInv, ResultInv, ExpandStar PROVE ResultInv'
<1> DEFINE i == Head(queue)
           elems == [k \in 1 .. call.items[i].len |-> Element(i, k)]
           S == {e \in ItemValues : e.item \notin Waiting}
           T == {e \in ItemValues : e.item = i}
<1>1. CallOk /\ Declared /\ phase = "stars" /\ queue # << >>
  BY DEF BindInv, ResultInv, ExpandStar
<1>2. /\ WaitsFor(queue, "star") /\ Expandable(Waiting) /\ Lists(extra.pos, S, Taken)
      /\ extra.kw = << >> /\ \A p \in DOMAIN Params : args[p] = Unset
  BY <1>1 DEF ResultInv, StarsOk
<1>3. /\ i \in Places /\ call.items[i].form = "star" /\ i \in Waiting
      /\ Members(Tail(queue)) = Waiting \ {i} /\ WaitsFor(Tail(queue), "star")
      /\ \A j \in Places \ Waiting : call.items[j].form = "star" => j < i
  BY <1>1, <1>2, WaitsForLess DEF Waiting
<1>4. call.items[i].len \in Int
  <2>1. call.items[i] \in Arguments
    BY <1>1, <1>3 DEF CallOk, Places
  <2>2. QED
    BY <2>1 DEF Arguments
<1> HIDE DEF i
<1>5. CASE Reject /\ call.items[i].len < 0
  <2>1. \E n \in DOMAIN Items("star") : Items("star")[n] = i
    BY <1>1, <1>3, ItemsListed
  <2>2. i \in ToSet(Items("star"))
    BY <2>1 DEF ToSet
  <2>3. Unsupported
    BY <1>5, <2>2 DEF Unsupported
  <2>4. QED
    BY <1>5, <2>3, ResultRefused
<1>6. CASE /\ ~(call.items[i].len < 0)
           /\ extra' = [extra EXCEPT !.pos = @ \o elems]
           /\ queue' = Tail(queue)
           /\ UNCHANGED << phase, args, call, code, trace, frame >>
  <2>1. call' = call /\ phase' = "stars" /\ args' = args
    BY <1>1, <1>6
  <2>2. call.items[i].len >= 0
    BY <1>4, <1>6
  <2>3. Lists(elems, T, Taken)
    BY <1>1, <1>3, <2>2, ElementsListed
  <2>4. ASSUME NEW e \in S, NEW f \in T PROVE << e, f >> \in Taken
    <3>1. /\ e \in ItemValues /\ e \in ItemExprs /\ e.item \notin Waiting
          /\ f \in ItemValues /\ f \in ItemExprs /\ f.item = i
      BY DEF ItemValues
    <3>2. f.elem > 0
      BY <1>3, <3>1 DEF ItemValues
    <3>3. CASE e.elem = 0
      BY <3>1, <3>2, <3>3 DEF Taken
    <3>4. CASE e.elem # 0
      <4>1. call.items[e.item].form = "star" /\ e.item \in Places
        BY <1>1, <3>1, <3>4, ExprFields DEF ItemValues
      <4>2. e.item < i
        BY <1>3, <3>1, <4>1
      <4>3. QED
        BY <3>1, <3>2, <3>4, <4>2 DEF Taken, Before
    <3>5. QED
      BY <3>3, <3>4
  <2> HIDE DEF elems
  <2>5. Lists(extra.pos \o elems, S \cup T, Taken)
    BY <1>2, <2>3, <2>4, ListsJoin
  <2>6. S \cup T = {e \in ItemValues : e.item \notin Members(Tail(queue))}
    BY <1>3
  <2>7. extra'.pos = extra.pos \o elems /\ extra'.kw = extra.kw
    <3>1. extra \in [pos : Seq(ItemExprs), kw : Seq(ItemExprs)]
      BY DEF BindInv, ExtraOk
    <3>2. QED
      BY <1>6, <3>1
  <2>8. Waiting' = Members(Tail(queue))
    BY <1>6 DEF Waiting, Members
  <2>9. Lists(extra.pos, {e \in ItemValues : e.item \notin Waiting}, Taken)'
    <3>1. Lists(extra'.pos, {e \in ItemValues' : e.item \notin Waiting'}, Taken')
      BY <2>1, <2>5, <2>6, <2>7, <2>8, CallSame
    <3>2. QED
      BY <3>1 DEF Lists
  <2>10. WaitsFor(queue, "star")'
    BY <1>3, <1>6, <2>1, CallSame DEF WaitsFor, Members
  <2>11. Expandable(Waiting)'
    <3>1. Expandable(Members(Tail(queue)))
      BY <1>2, <1>3, <2>2 DEF Expandable
    <3>2. QED
      BY <2>1, <2>8, <3>1, CallSame DEF Expandable
  <2>12. extra'.kw = << >> /\ \A p \in DOMAIN Params' : args'[p] = Unset'
    BY <1>2, <2>1, <2>7, CallSame DEF Unset
  <2>13. StarsOk'
    BY <2>9, <2>10, <2>11, <2>12 DEF StarsOk
  <2>14. Declared' /\ DispatchOk'
    BY <1>1, <2>1, CallSame DEF ResultInv, DispatchOk
  <2>15. QED
    BY <2>1, <2>13, <2>14 DEF ResultInv, PositionalsOk, KeywordsOk, DefaultsOk,
                              ResolvedOk, FitsOk, RefusedOk, Settled
<1>7. QED
  BY <1>5, <1>6 DEF ExpandStar, Unread, i

\* What is bound to positional parameters stays so.
LEMMA PositionedLater ==
  ASSUME call' = call, NEW vals, NEW m, Positioned(args', extra'.pos, vals, m)
  PROVE  Positioned(args, extra.pos, vals, m)'
BY CallSame DEF Positioned, Unset

LEMMA ResultStarsDone ==
  ASSUME BindInv, ResultInv, StarsDone PROVE ResultInv'
<1>0. PICK vals : vals = extra.pos
  OBVIOUS
<1>1. /\ CallOk /\ Declared /\ phase = "stars" /\ queue = << >> /\ phase' = "positionals"
      /\ queue' = vals /\ args' = args /\ call' = call
      /\ extra' = [extra EXCEPT !.pos = << >>]
  BY <1>0 DEF BindInv, ResultInv, StarsDone, Unread
<1>2. /\ Expandable(Waiting) /\ Lists(vals, {e \in ItemValues : e.item \notin Waiting}, Taken)
      /\ extra.kw = << >> /\ \A p \in DOMAIN Params : args[p] = Unset
  BY <1>0, <1>1 DEF ResultInv, StarsOk
<1>3. Waiting = {}
  BY <1>1 DEF Waiting, Members
<1>4. {e \in ItemValues : e.item \notin {}} = ItemValues
  OBVIOUS
<1>5. Lists(vals, ItemValues, Taken) /\ Expandable({})
  BY <1>2, <1>3, <1>4
<1>6. extra'.pos = << >> /\ extra'.kw = << >>
  <2>1. extra \in [pos : Seq(ItemExprs), kw : Seq(ItemExprs)]
    BY DEF BindInv, ExtraOk
  <2>2. QED
    BY <1>1, <1>2, <2>1
<1>7. Len(vals) \in Nat
  BY <1>1, <1>5, SameLength
<1>8. Pending(vals, vals, 0)
  BY <1>7 DEF Pending
<1>9. Positioned(args', extra'.pos, vals, 0)
  <2>1. Len(Positional) \in Nat /\ DOMAIN Positional = 1 .. Len(Positional)
        /\ \A n \in DOMAIN Positional : Positional[n] \in DOMAIN Params
    BY <1>1, PositionalListed
  <2>2. Rest(vals, 0, << >>)
    BY <2>1 DEF Rest
  <2>3. QED
    BY <1>1, <1>2, <1>6, <2>1, <2>2 DEF Positioned
<1>10. PositionalsOk'
  <2>1. Pending(queue, vals, 0)'
    BY <1>1, <1>8 DEF Pending
  <2>2. Lists(vals, ItemValues', Taken') /\ Expandable({})'
    BY <1>1, <1>5, CallSame
  <2>3. Positioned(args, extra.pos, vals, 0)'
    BY <1>1, <1>9, PositionedLater
  <2>4. QED
    BY <1>6, <2>1, <2>2, <2>3 DEF PositionalsOk, Lists
<1>11. Declared' /\ DispatchOk'
  BY <1>1, CallSame DEF ResultInv, DispatchOk
<1>12. QED
  BY <1>1, <1>10, <1>11 DEF ResultInv, StarsOk, KeywordsOk, DefaultsOk,
                            ResolvedOk, FitsOk, RefusedOk, Settled

\* An item is something: it is not the value of a parameter that is not bound.
LEMMA ItemsAreSet ==
  ASSUME NEW e \in ItemExprs PROVE e # Unset
BY DEF ItemExprs, Exprs, Unset

LEMMA ResultBindPositional ==
  ASSUME BindInv, ResultInv, BindPositional PROVE ResultInv'
<1> DEFINE taken == {n \in DOMAIN Positional : args[Positional[n]] # Unset}
           free == DOMAIN Positional \ taken
           L == Len(Positional)
           v == Head(queue)
<1>1. /\ CallOk /\ Declared /\ phase = "positionals" /\ queue \in Seq(ItemExprs) /\ queue # << >>
      /\ extra \in [pos : Seq(ItemExprs), kw : Seq(ItemExprs)]
      /\ args \in [DOMAIN Params -> ItemExprs \cup {Unset}]
  BY DEF BindInv, QueueOk, ExtraOk, ArgsOk, ResultInv, BindPositional
<1>2. Expandable({}) /\ extra.kw = << >>
  BY <1>1 DEF ResultInv, PositionalsOk
<1>3. PICK vals, m : Lists(vals, ItemValues, Taken) /\ Pending(queue, vals, m)
                     /\ Positioned(args, extra.pos, vals, m)
  BY <1>1 DEF ResultInv, PositionalsOk
<1>4. /\ Len(vals) \in Nat /\ DOMAIN vals = 1 .. Len(vals)
      /\ \A n \in DOMAIN vals : vals[n] \in ItemExprs
  BY <1>1, <1>3, SameLength DEF ItemValues
<1>5. /\ L \in Nat /\ DOMAIN Positional = 1 .. L
      /\ \A n \in 1 .. L : Positional[n] \in DOMAIN Params /\ Ordinary(Positional[n])
      /\ \A i, n \in 1 .. L : Positional[i] = Positional[n] => i = n
  BY <1>1, PositionalListed
<1>6. /\ m \in Nat /\ m < Len(vals) /\ v = vals[m + 1] /\ v \in ItemExprs
      /\ Len(Tail(queue)) = Len(vals) - (m + 1) /\ m + 1 \in 0 .. Len(vals)
      /\ \A n \in 1 .. Len(Tail(queue)) : Tail(queue)[n] = vals[m + 1 + n]
  <2>1. /\ m \in 0 .. Len(vals) /\ Len(queue) = Len(vals) - m
        /\ \A n \in 1 .. Len(queue) : queue[n] = vals[m + n]
    BY <1>3 DEF Pending
  <2>2. Len(queue) \in Nat \ {0} /\ 1 \in 1 .. Len(queue) /\ v = queue[1]
    BY <1>1
  <2>3. m \in Nat /\ m < Len(vals) /\ v = vals[m + 1] /\ m + 1 \in 0 .. Len(vals)
    <3>1. m \in Nat /\ m < Len(vals) /\ m + 1 \in 0 .. Len(vals)
      <4> DEFINE len == Len(vals)
                 c == Len(queue)
      <4>1. len \in Nat /\ m \in 0 .. len /\ c = len - m /\ c \in Nat \ {0}
        BY <1>4, <2>1, <2>2
      <4> HIDE DEF len, c
      <4>2. m \in Nat /\ m < len /\ m + 1 \in 0 .. len
        BY <4>1
      <4>3. QED
        BY <4>2 DEF len
    <3>2. v = vals[m + 1]
      BY <2>1, <2>2
    <3>3. QED
      BY <3>1, <3>2
  <2>4. v \in ItemExprs
    BY <1>1
  <2>5. /\ Len(Tail(queue)) = Len(queue) - 1
        /\ \A n \in 1 .. Len(queue) - 1 : Tail(queue)[n] = queue[n + 1] /\ n + 1 \in 1 .. Len(queue)
    BY <1>1, <2>2
  <2>6. \A n \in 1 .. Len(queue) - 1 : m + (n + 1) = m + 1 + n
    BY <2>2, <2>3
  <2>7. \A n \in 1 .. Len(queue) - 1 : Tail(queue)[n] = vals[m + 1 + n]
    BY <2>1, <2>5, <2>6
  <2>8. Len(Tail(queue)) = Len(vals) - (m + 1)
    <3> DEFINE len == Len(vals)
    <3>1. len \in Nat /\ m \in Nat /\ Len(Tail(queue)) = len - m - 1
      BY <1>4, <2>1, <2>3, <2>5
    <3> HIDE DEF len
    <3>2. len - m - 1 = len - (m + 1)
      BY <3>1
    <3>3. QED
      BY <3>1, <3>2 DEF len
  <2>9. QED
    BY <2>3, <2>4, <2>5, <2>7, <2>8
<1> HIDE DEF v
<1>6a. PICK c \in Nat : c = Len(vals) /\ m \in Nat /\ m < c
  BY <1>4, <1>6
<1>7. Pending(Tail(queue), vals, m + 1)
  BY <1>6 DEF Pending
<1>8. /\ \A n \in 1 .. L : args[Positional[n]] = IF n <= m THEN vals[n] ELSE Unset
      /\ \A p \in DOMAIN Params : ~Ordinary(p) => args[p] = Unset
      /\ Rest(vals, m, extra.pos)
  BY <1>3, <1>5 DEF Positioned
<1>9. taken = {n \in 1 .. L : n <= m}
  <2>1. \A n \in 1 .. L : n <= m => vals[n] \in ItemExprs /\ vals[n] # Unset
    <3>1. TAKE n \in 1 .. L
    <3>2. n \in Nat \ {0}
      BY <1>5
    <3>3. n <= m => n \in 1 .. c
      BY <1>6a, <3>2
    <3>4. QED
      BY <1>4, <1>6a, <3>3, ItemsAreSet
  <2>2. \A n \in 1 .. L : args[Positional[n]] # Unset <=> n <= m
    BY <1>8, <2>1
  <2>3. QED
    BY <1>5, <2>2
<1>10. CASE m < L
  <2>1. taken = 1 .. m /\ free # {}
    <3>1. taken = 1 .. m
      BY <1>5, <1>6, <1>9, <1>10
    <3>2. m + 1 \in 1 .. L /\ m + 1 \notin 1 .. m
      BY <1>5, <1>6, <1>10
    <3>3. QED
      BY <1>5, <3>1, <3>2
  <2>2. Cardinality(taken) = m
    <3>1. 1 \in Int /\ m \in Int
      BY <1>6
    <3>2. Cardinality(1 .. m) = IF 1 > m THEN 0 ELSE m - 1 + 1
      BY <3>1, FS_Interval
    <3>3. Cardinality(1 .. m) = m
      BY <1>6, <3>2
    <3> HIDE DEF taken
    <3>4. QED
      BY <2>1, <3>3
  <2> DEFINE q == Positional[m + 1]
  <2>3. /\ args' = [args EXCEPT ![q] = v] /\ queue' = Tail(queue)
        /\ phase' = "positionals" /\ extra' = extra /\ call' = call
    BY <1>1, <2>1, <2>2 DEF BindPositional, Unread, v
  <2>4. m + 1 \in 1 .. L /\ q \in DOMAIN Params /\ Ordinary(q)
    BY <1>5, <1>6, <1>10
  <2>5. \A n \in 1 .. L : Positional[n] = q => n = m + 1
    BY <1>5, <2>4
  <2> HIDE DEF q
  <2>6. args'[q] = v /\ \A p \in DOMAIN Params : p # q => args'[p] = args[p]
    BY <1>1, <2>3, <2>4
  <2>7. ASSUME NEW n \in 1 .. L
        PROVE  args'[Positional[n]] = IF n <= m + 1 THEN vals[n] ELSE Unset
    <3>1. CASE n = m + 1
      <4>1. Positional[n] = q /\ n <= m + 1
        BY <1>6, <3>1 DEF q
      <4>2. QED
        BY <1>6, <2>6, <3>1, <4>1
    <3>2. CASE n # m + 1
      <4>1. args'[Positional[n]] = args[Positional[n]]
        BY <1>5, <2>5, <2>6, <3>2
      <4>2. n <= m + 1 <=> n <= m
        BY <1>6, <3>2
      <4>3. QED
        BY <1>8, <4>1, <4>2
    <3>3. QED
      BY <3>1, <3>2
  <2>8. \A p \in DOMAIN Params : ~Ordinary(p) => args'[p] = Unset
    BY <1>8, <2>4, <2>6
  <2>9. Rest(vals, m + 1, extra.pos)
    BY <1>5, <1>6, <1>8, <1>10 DEF Rest
  <2>10. Positioned(args', extra'.pos, vals, m + 1)
    BY <1>5, <1>6, <1>10, <2>3, <2>7, <2>8, <2>9 DEF Positioned
  <2>11. Positioned(args, extra.pos, vals, m + 1)'
    BY <2>3, <2>10, PositionedLater
  <2>12. PositionalsOk'
    <3>1. Lists(vals, ItemValues', Taken') /\ Expandable({})'
      BY <1>2, <1>3, <2>3, CallSame
    <3>2. Pending(queue, vals, m + 1)'
      BY <1>7, <2>3 DEF Pending
    <3>3. QED
      BY <1>2, <2>3, <2>11, <3>1, <3>2 DEF PositionalsOk, Lists
  <2>13. Declared' /\ DispatchOk'
    BY <1>1, <2>3, CallSame DEF ResultInv, DispatchOk
  <2>14. QED
    BY <2>3, <2>12, <2>13 DEF ResultInv, StarsOk, KeywordsOk, DefaultsOk,
                              ResolvedOk, FitsOk, RefusedOk, Settled
<1>11. CASE ~ (m < L)
  <2>1. free = {}
    BY <1>5, <1>6, <1>9, <1>11
  <2>2. CASE Of("var") = {}
    <3>1. ~ (Len(vals) <= L)
      <4>1. L \in Nat
        BY <1>5
      <4> HIDE DEF L
      <4>2. ~ (c <= L)
        BY <1>6a, <1>11, <4>1
      <4>3. QED
        BY <1>6a, <4>2
    <3>1a. ~Enough(vals)
      BY <2>2, <3>1 DEF Enough
    <3>2. ~OtherConstructor => ~PyAccepts
      BY <1>1, <1>3, <3>1a, TooManyValues
    <3>3. Reject
      BY <2>1, <2>2 DEF BindPositional
    <3>4. QED
      BY <3>2, <3>3, ResultRefused
  <2>3. CASE Of("var") # {}
    <3>1. /\ extra' = [extra EXCEPT !.pos = Append(@, v)] /\ queue' = Tail(queue)
          /\ phase' = "positionals" /\ args' = args /\ call' = call
      BY <1>1, <2>1, <2>3 DEF BindPositional, Unread, v
    <3>2. extra'.pos = Append(extra.pos, v) /\ extra'.kw = extra.kw
      BY <1>1, <3>1
    <3>3. Rest(vals, m + 1, Append(extra.pos, v))
      <4> DEFINE s == extra.pos
                 u == Append(s, v)
      <4>0. L \in Nat /\ m \in Nat /\ ~ (m < L) /\ Rest(vals, m, s)
        BY <1>5, <1>6, <1>8, <1>11
      <4> HIDE DEF s
      <4>1. s \in Seq(ItemExprs) /\ Len(s) = m - L /\ \A n \in 1 .. Len(s) : s[n] = vals[L + n]
        BY <4>0 DEF Rest
      <4> HIDE DEF s
      <4>2. /\ u \in Seq(ItemExprs) /\ Len(u) = m - L + 1
            /\ \A n \in 1 .. m - L : u[n] = s[n]
            /\ u[m - L + 1] = v
        BY <1>6, <4>1
      <4> HIDE DEF u
      <4>3. \A n \in 1 .. m - L + 1 : u[n] = vals[L + n]
        <5>1. TAKE n \in 1 .. m - L + 1
        <5>2. CASE n = m - L + 1
          <6>1. L + n = m + 1
            BY <1>5, <1>6, <5>2
          <6>2. QED
            BY <1>6, <4>2, <5>2, <6>1
        <5>3. CASE n # m - L + 1
          <6>1. n \in 1 .. m - L
            BY <1>5, <1>6, <5>1, <5>3
          <6>2. QED
            BY <4>1, <4>2, <6>1
        <5>4. QED
          BY <5>2, <5>3
      <4>4. m + 1 > L /\ m + 1 - L = m - L + 1
        BY <1>5, <1>6, <1>11
      <4>5. QED
        <5>0. Len(u) = IF m + 1 > Len(Positional) THEN m + 1 - Len(Positional) ELSE 0
          BY <4>2, <4>4
        <5>1. \A n \in 1 .. Len(u) : u[n] = vals[Len(Positional) + n]
          BY <4>2, <4>3
        <5>1a. u \in Seq(ItemExprs)
          BY <4>2
        <5>1b. Rest(vals, m + 1, u)
          BY <1>6a, <5>0, <5>1, <5>1a DEF Rest
        <5>2. QED
          BY <5>1b DEF u, s
    <3>4. Positioned(args', extra'.pos, vals, m + 1)
      <4>1. \A n \in 1 .. L : n <= m + 1 /\ n <= m
        BY <1>5, <1>6, <1>11
      <4>2. QED
        BY <1>5, <1>8, <2>3, <3>1, <3>2, <3>3, <4>1 DEF Positioned
    <3>5. Positioned(args, extra.pos, vals, m + 1)'
      BY <3>1, <3>4, PositionedLater
    <3>6. PositionalsOk'
      <4>1. Lists(vals, ItemValues', Taken') /\ Expandable({})'
        BY <1>2, <1>3, <3>1, CallSame
      <4>2. Pending(queue, vals, m + 1)'
        BY <1>7, <3>1 DEF Pending
      <4>3. QED
        BY <1>2, <3>2, <3>5, <4>1, <4>2 DEF PositionalsOk, Lists
    <3>7. Declared' /\ DispatchOk'
      BY <1>1, <3>1, CallSame DEF ResultInv, DispatchOk
    <3>8. QED
      BY <3>1, <3>6, <3>7 DEF ResultInv, StarsOk, KeywordsOk, DefaultsOk,
                              ResolvedOk, FitsOk, RefusedOk, Settled
  <2>4. QED
    BY <2>2, <2>3
<1>12. QED
  BY <1>5, <1>6, <1>10, <1>11

\* What is bound to the parameters of keywords stays so.
LEMMA KeywordsLater ==
  ASSUME call' = call, NEW vals, NEW done, KeywordsTaken(args', extra'.pos, vals, done)
  PROVE  KeywordsTaken(args, extra.pos, vals, done)'
BY CallSame DEF KeywordsTaken, KeywordsBound, RanksBound, OthersUnset, Item, Default

LEMMA ResultPositionalsDone ==
  ASSUME BindInv, ResultInv, PositionalsDone PROVE ResultInv'
<1>1. /\ CallOk /\ Declared /\ phase = "positionals" /\ queue = << >> /\ phase' = "keywords"
      /\ queue' = Items("kw") /\ args' = args /\ extra' = extra /\ call' = call
  BY DEF BindInv, ResultInv, PositionalsDone, Unread
<1>2. Expandable({}) /\ extra.kw = << >>
  BY <1>1 DEF ResultInv, PositionalsOk
<1>3. PICK vals, m : Lists(vals, ItemValues, Taken) /\ Pending(queue, vals, m)
                     /\ Positioned(args, extra.pos, vals, m)
  BY <1>1 DEF ResultInv, PositionalsOk
<1>4. Len(vals) \in Nat /\ m = Len(vals)
  <2>1. Len(vals) \in Nat
    BY <1>1, <1>3, SameLength
  <2>2. m \in 0 .. Len(vals) /\ 0 = Len(vals) - m
    BY <1>1, <1>3 DEF Pending
  <2>3. QED
    BY <2>1, <2>2
<1>5. /\ \A n \in DOMAIN Positional : args[Positional[n]] = IF n <= m THEN vals[n] ELSE Unset
      /\ \A p \in DOMAIN Params : ~Ordinary(p) => args[p] = Unset
      /\ m <= Len(Positional) \/ Of("var") # {}
      /\ Rest(vals, m, extra.pos)
  BY <1>3 DEF Positioned
<1>6. KeywordsTaken(args', extra'.pos, vals, {})
  <2>1. Enough(vals) /\ Rest(vals, Len(vals), extra.pos)
    BY <1>4, <1>5 DEF Enough
  <2>2. KeywordsBound(args, vals, {})
    BY DEF KeywordsBound
  <2>3. RanksBound(args, vals)
    BY <1>4, <1>5 DEF RanksBound
  <2>4. OthersUnset(args, vals, {}, AllUnset)
    <3> SUFFICES ASSUME NEW p \in DOMAIN Params, ~Ranked(vals, p)
                 PROVE  args[p] = AllUnset[p] /\ AllUnset[p] # Default(p)
      BY DEF OthersUnset
    <3>1. AllUnset[p] = Unset
      BY DEF AllUnset
    <3>2. Unset # Default(p)
      BY DEF Unset, Default
    <3>3. args[p] = Unset
      <4>1. CASE ~Ordinary(p)
        BY <1>5, <4>1
      <4>2. CASE Ordinary(p)
        <5>1. PICK n \in DOMAIN Positional : Positional[n] = p
          BY <1>1, <4>2, PositionalListed
        <5>2. ~ (n <= m)
          BY <1>4, <5>1 DEF Ranked
        <5>3. QED
          BY <1>5, <5>1, <5>2
      <4>3. QED
        BY <4>1, <4>2
    <3>4. QED
      BY <3>1, <3>2, <3>3
  <2>5. QED
    BY <1>1, <1>3, <2>1, <2>2, <2>3, <2>4 DEF KeywordsTaken
<1> DEFINE s == Items("kw")
<1>7. /\ s \in Seq(Places)
      /\ \A n \in DOMAIN s : s[n] \in Places /\ call.items[s[n]].form = "kw"
      /\ \A i, n \in DOMAIN s : i < n => s[i] < s[n]
      /\ \A i \in Places : call.items[i].form = "kw" => \E n \in DOMAIN s : s[n] = i
  BY <1>1, ItemsListed
<1>8. Waiting' = Members(s) /\ queue' = s
  BY <1>1 DEF Waiting, Members
<1> HIDE DEF s
<1>9. Members(s) = KeywordItems
  BY <1>7 DEF Members, KeywordItems
<1>10. WaitsFor(s, "kw")
  <2>1. \A i \in Places \ Members(s) : call.items[i].form # "kw"
    BY <1>9 DEF KeywordItems
  <2>2. QED
    BY <1>7, <2>1 DEF WaitsFor
<1>11. WaitsFor(queue, "kw")'
  BY <1>1, <1>8, <1>10, CallSame DEF WaitsFor, Members
<1>12. Lists(extra.kw, {e \in OtherItems : e.item \notin Waiting}, Written)'
  <2>1. {e \in OtherItems : e.item \notin KeywordItems} = {}
    BY DEF OtherItems
  <2>2. Lists(<< >>, {}, Written)
    BY DEF Lists
  <2>3. Lists(extra'.kw, {e \in OtherItems' : e.item \notin Waiting'}, Written')
    BY <1>1, <1>2, <1>8, <1>9, <2>1, <2>2, CallSame
  <2>4. QED
    BY <2>3 DEF Lists
<1>13. KeywordsTaken(args, extra.pos, vals, {})'
  BY <1>1, <1>6, KeywordsLater
<1>14. KeywordItems' \ Waiting' = {}
  BY <1>1, <1>8, <1>9, CallSame
<1>15. KeywordsOk'
  BY <1>1, <1>2, <1>11, <1>12, <1>13, <1>14, CallSame DEF KeywordsOk
<1>16. Declared' /\ DispatchOk'
  BY <1>1, CallSame DEF ResultInv, DispatchOk
<1>17. QED
  BY <1>1, <1>15, <1>16 DEF ResultInv, StarsOk, PositionalsOk, DefaultsOk,
                            ResolvedOk, FitsOk, RefusedOk, Settled

\* A keyword that cannot be bound to a parameter, or to another than it was.
LEMMA KeywordRefused ==
  ASSUME Declared, ~OtherConstructor, NEW i \in KeywordItems, NEW p \in PlainNamed(i),
         Params[p].kind = "posonly"
  PROVE  ~PyAccepts \/ Unsupported
<1>1. CallOk /\ p \in Called(call.items[i].name) /\ i \in ToSet(Items("kw"))
  BY KeywordsAre DEF Declared, PlainNamed
<1>2. CASE Of("kw") = {}
  <2>1. \A q \in PlainNamed(i) : Params[q].kind = "posonly"
    BY NamedOnce
  <2>2. QED
    BY <1>1, <1>2, <2>1, NoPlace
<1>3. CASE Of("kw") # {}
  <2>1. PyHas("kw")
    BY <1>1, <1>3, HasIs
  <2>2. QED
    BY <1>1, <2>1 DEF Unsupported
<1>4. QED
  BY <1>2, <1>3

\* A keyword that goes to **kwargs, and one that is bound to its parameter.
LEMMA KeywordCollected ==
  ASSUME NEW b, NEW rest, NEW vals, NEW done, NEW i, KeywordsTaken(b, rest, vals, done),
         PlainNamed(i) = {}, Of("kw") # {}
  PROVE  KeywordsTaken(b, rest, vals, done \cup {i})
<1>1. KeywordsBound(b, vals, done \cup {i})
  BY DEF KeywordsTaken, KeywordsBound
<1>2. OthersUnset(b, vals, done \cup {i}, AllUnset)
  BY DEF KeywordsTaken, OthersUnset
<1>3. QED
  BY <1>1, <1>2 DEF KeywordsTaken

LEMMA KeywordPlaced ==
  ASSUME CallOk, NEW b \in [DOMAIN Params -> ItemExprs \cup {Unset}], NEW rest, NEW vals,
         NEW done \in SUBSET Places, NEW i \in Places, NEW p \in PlainNamed(i),
         KeywordsTaken(b, rest, vals, done),
         Params[p].kind # "posonly", b[p] = Unset
  PROVE  KeywordsTaken([b EXCEPT ![p] = Item(i)], rest, vals, done \cup {i})
<1> DEFINE c == [b EXCEPT ![p] = Item(i)]
<1>1. /\ Lists(vals, ItemValues, Taken) /\ Enough(vals) /\ Rest(vals, Len(vals), rest)
      /\ KeywordsBound(b, vals, done) /\ RanksBound(b, vals)
      /\ OthersUnset(b, vals, done, AllUnset)
  BY DEF KeywordsTaken
<1>2. p \in DOMAIN Params
  BY DEF PlainNamed, Called
<1>3. c[p] = Item(i) /\ \A q \in DOMAIN Params : q # p => c[q] = b[q]
  BY <1>2
<1> HIDE DEF c
<1>4. ~Ranked(vals, p)
  <2> SUFFICES ASSUME NEW n \in DOMAIN Positional, Positional[n] = p, n <= Len(vals)
               PROVE  FALSE
    BY DEF Ranked
  <2>1. b[p] = vals[n]
    BY <1>1 DEF RanksBound
  <2>2. n \in DOMAIN vals
    BY <1>1, SameLength, PositionalListed
  <2>3. vals[n] \in ItemExprs
    BY <1>1, <2>2, SameLength DEF ItemValues
  <2>4. QED
    BY <2>1, <2>3, ItemsAreSet
<1>5. RanksBound(c, vals)
  <2> SUFFICES ASSUME NEW n \in DOMAIN Positional, n <= Len(vals)
               PROVE  c[Positional[n]] = vals[n]
    BY DEF RanksBound
  <2>1. Positional[n] # p /\ Positional[n] \in DOMAIN Params
    BY <1>4, PositionalListed DEF Ranked
  <2>2. b[Positional[n]] = vals[n]
    BY <1>1 DEF RanksBound
  <2>3. QED
    BY <1>3, <2>1, <2>2
<1>6. ASSUME NEW j \in done
      PROVE  IF PlainNamed(j) = {} THEN Of("kw") # {}
             ELSE \E q \in PlainNamed(j) :
                    Params[q].kind # "posonly" /\ ~Ranked(vals, q) /\ c[q] = Item(j)
  <2>1. CASE PlainNamed(j) = {}
    BY <1>1, <2>1 DEF KeywordsBound
  <2>2. CASE PlainNamed(j) # {}
    <3>1. PICK q \in PlainNamed(j) :
            Params[q].kind # "posonly" /\ ~Ranked(vals, q) /\ b[q] = Item(j)
      BY <1>1, <2>2 DEF KeywordsBound
    <3>2. q \in DOMAIN Params
      BY DEF PlainNamed, Called
    <3>3. Item(j) # Unset
      BY DEF Item, Unset
    <3>4. c[q] = Item(j)
      BY <1>3, <3>1, <3>2, <3>3
    <3>5. QED
      BY <2>2, <3>1, <3>4
  <2>3. QED
    BY <2>1, <2>2
<1>7. KeywordsBound(c, vals, done \cup {i})
  BY <1>3, <1>4, <1>6 DEF KeywordsBound
<1>8. OthersUnset(c, vals, done \cup {i}, AllUnset)
  <2> SUFFICES ASSUME NEW q \in DOMAIN Params, Params[q].kind \notin Aggregates,
                      ~Ranked(vals, q), \A j \in done \cup {i} : q \notin PlainNamed(j)
               PROVE  c[q] = AllUnset[q] /\ (AllUnset[q] = Default(q) => Params[q].default # "none")
    BY DEF OthersUnset
  <2>1. q # p
    OBVIOUS
  <2>2. b[q] = AllUnset[q] /\ (AllUnset[q] = Default(q) => Params[q].default # "none")
    BY <1>1 DEF OthersUnset
  <2>3. QED
    BY <1>3, <2>1, <2>2
<1>9. KeywordsTaken(c, rest, vals, done \cup {i})
  BY <1>1, <1>5, <1>7, <1>8 DEF KeywordsTaken
<1>10. QED
  BY <1>9 DEF c

LEMMA ResultBindKeyword ==
  ASSUME BindInv, ResultInv, BindKeyword PROVE ResultInv'
<1>0. PICK i, D : i = Head(queue) /\ D = KeywordItems \ Waiting
  OBVIOUS
<1> DEFINE q == CHOOSE q \in PlainNamed(i) : TRUE
<1>1. /\ CallOk /\ Declared /\ phase = "keywords" /\ queue # << >>
      /\ extra \in [pos : Seq(ItemExprs), kw : Seq(ItemExprs)]
      /\ args \in [DOMAIN Params -> ItemExprs \cup {Unset}]
  BY DEF BindInv, ExtraOk, ArgsOk, ResultInv, BindKeyword
<1>2. /\ Expandable({}) /\ WaitsFor(queue, "kw")
      /\ Lists(extra.kw, {e \in OtherItems : e.item \notin Waiting}, Written)
  BY <1>1 DEF ResultInv, KeywordsOk
<1>3. PICK vals : KeywordsTaken(args, extra.pos, vals, D)
  BY <1>0, <1>1 DEF ResultInv, KeywordsOk
<1>4. /\ i \in Places /\ i \in KeywordItems /\ i \in Waiting
      /\ Members(Tail(queue)) = Waiting \ {i} /\ WaitsFor(Tail(queue), "kw")
      /\ \A j \in Places \ Waiting : call.items[j].form = "kw" => j < i
  BY <1>0, <1>1, <1>2, WaitsForLess DEF Waiting, KeywordItems
<1>5. \/ /\ PlainNamed(i) = {} /\ Of("kw") = {} /\ Reject
      \/ /\ PlainNamed(i) = {} /\ Of("kw") # {}
         /\ extra' = [extra EXCEPT !.kw = Append(@, Item(i))]
         /\ queue' = Tail(queue) /\ phase' = phase /\ args' = args /\ call' = call
      \/ /\ PlainNamed(i) # {} /\ (Params[q].kind = "posonly" \/ args[q] # Unset)
         /\ Reject
      \/ /\ PlainNamed(i) # {} /\ Params[q].kind # "posonly" /\ args[q] = Unset
         /\ args' = [args EXCEPT ![q] = Item(i)]
         /\ queue' = Tail(queue) /\ phase' = phase /\ extra' = extra /\ call' = call
  BY <1>0 DEF BindKeyword, Unread, PlainNamed
<1>6. PlainNamed(i) # {} => q \in PlainNamed(i) /\ q \in DOMAIN Params
  BY DEF PlainNamed, Called
<1> HIDE DEF q
<1>7. Lists(vals, ItemValues, Taken)
  BY <1>3 DEF KeywordsTaken
<1>8. KeywordItems \ Members(Tail(queue)) = D \cup {i}
  BY <1>0, <1>4
<1>9. CASE PlainNamed(i) = {} /\ Of("kw") = {} /\ Reject
  <2>1. ~OtherConstructor => ~PyAccepts
    BY <1>1, <1>4, <1>9, NoPlace
  <2>2. QED
    BY <1>9, <2>1, ResultRefused
<1>10. CASE PlainNamed(i) # {} /\ (Params[q].kind = "posonly" \/ args[q] # Unset) /\ Reject
  <2>1. CASE Params[q].kind = "posonly"
    BY <1>1, <1>4, <1>6, <1>10, <2>1, KeywordRefused, ResultRefused
  <2>2. CASE Params[q].kind # "posonly"
    <3>1. Params[q].kind \notin Aggregates
      BY <1>6, <1>10 DEF PlainNamed
    <3>2. args[q] # AllUnset[q]
      BY <1>6, <1>10, <2>2 DEF AllUnset
    <3>3. Ranked(vals, q) \/ \E j \in D : q \in PlainNamed(j)
      BY <1>3, <1>6, <1>10, <3>1, <3>2 DEF KeywordsTaken, OthersUnset
    <3>4. Ranked(vals, q) \/ \E j \in KeywordItems : j # i /\ q \in PlainNamed(j)
      BY <1>0, <1>4, <3>3
    <3>5. ~OtherConstructor => ~PyAccepts
      BY <1>1, <1>4, <1>6, <1>7, <1>10, <2>2, <3>4, GivenTwice
    <3>6. QED
      BY <1>10, <3>5, ResultRefused
  <2>3. QED
    BY <2>1, <2>2
<1>11. CASE /\ PlainNamed(i) = {} /\ Of("kw") # {}
            /\ extra' = [extra EXCEPT !.kw = Append(@, Item(i))]
            /\ queue' = Tail(queue) /\ phase' = phase /\ args' = args /\ call' = call
  <2>1. KeywordsTaken(args', extra.pos, vals, D \cup {i})
    BY <1>3, <1>11, KeywordCollected
  <2>2. extra'.pos = extra.pos /\ extra'.kw = Append(extra.kw, Item(i))
    BY <1>1, <1>11
  <2> DEFINE S == {e \in OtherItems : e.item \notin Waiting}
             T == {Item(i)}
  <2>3. /\ Item(i) \in ItemExprs /\ Item(i).item = i /\ Item(i).elem = 0
        /\ Item(i) = Element(i, 0)
    BY <1>1, <1>4, ElementIn
  <2>4. Lists(<< Item(i) >>, T, Written)
    <3> DEFINE v == Item(i)
    <3>1. v \in {v}
      OBVIOUS
    <3> HIDE DEF v
    <3>2. Lists(<< v >>, {v}, Written)
      BY <3>1 DEF Lists
    <3>3. QED
      BY <3>2 DEF v
  <2>5. \A e \in S, f \in T : << e, f >> \in Written
    <3> SUFFICES ASSUME NEW e \in S PROVE << e, Item(i) >> \in Written
      OBVIOUS
    <3>1. e \in ItemExprs /\ e.item \in KeywordItems /\ e.item \notin Waiting
      BY DEF OtherItems
    <3>2. e.item < i
      BY <1>4, <3>1 DEF KeywordItems
    <3>3. Before(e, Item(i))
      BY <2>3, <3>2 DEF Before
    <3>4. << e, Item(i) >>[1] = e /\ << e, Item(i) >>[2] = Item(i)
      OBVIOUS
    <3>5. QED
      BY <2>3, <3>1, <3>3, <3>4 DEF Written
  <2>6. Lists(extra.kw \o << Item(i) >>, S \cup T, Written)
    BY <1>2, <2>4, <2>5, ListsJoin
  <2>7. extra'.kw = extra.kw \o << Item(i) >>
    <3> DEFINE s == extra.kw
               v == Item(i)
    <3>1. s \in Seq(ItemExprs) /\ v \in ItemExprs
      BY <1>1, <2>3
    <3> HIDE DEF s, v
    <3>2. Append(s, v) = s \o << v >>
      BY <3>1
    <3>3. QED
      BY <2>2, <3>2 DEF s, v
  <2>8. S \cup T = {e \in OtherItems : e.item \notin Members(Tail(queue))}
    <3>1. Item(i) \in OtherItems
      BY <1>4, <1>11, <2>3 DEF OtherItems
    <3>2. \A e \in OtherItems : e.item = i => e = Item(i)
      <4>1. TAKE e \in OtherItems
      <4>2. e \in ItemExprs /\ e.elem = 0
        BY <4>1 DEF OtherItems
      <4>3. e = Element(e.item, 0)
        BY <1>1, <4>2, ExprFields
      <4>4. QED
        BY <2>3, <4>3
    <3>3. QED
      BY <1>4, <2>3, <3>1, <3>2
  <2>9. Waiting' = Members(Tail(queue))
    BY <1>11 DEF Waiting, Members
  <2>10. Lists(extra.kw, {e \in OtherItems : e.item \notin Waiting}, Written)'
    <3>1. Lists(extra'.kw, {e \in OtherItems' : e.item \notin Waiting'}, Written')
      BY <1>11, <2>6, <2>7, <2>8, <2>9, CallSame
    <3>2. QED
      BY <3>1 DEF Lists
  <2>11. WaitsFor(queue, "kw")'
    BY <1>4, <1>11, CallSame DEF WaitsFor, Members
  <2>12. KeywordsTaken(args, extra.pos, vals, D \cup {i})'
    BY <1>11, <2>1, <2>2, KeywordsLater
  <2>13. KeywordItems' \ Waiting' = D \cup {i}
    BY <1>8, <1>11, <2>9, CallSame
  <2>14. KeywordsOk'
    BY <1>2, <1>11, <2>10, <2>11, <2>12, <2>13, CallSame DEF KeywordsOk
  <2>15. Declared' /\ DispatchOk'
    BY <1>1, <1>11, CallSame DEF ResultInv, DispatchOk
  <2>16. QED
    BY <1>1, <1>11, <2>14, <2>15 DEF ResultInv, StarsOk, PositionalsOk, DefaultsOk,
                                     ResolvedOk, FitsOk, RefusedOk, Settled
<1>12. CASE /\ PlainNamed(i) # {} /\ Params[q].kind # "posonly" /\ args[q] = Unset
            /\ args' = [args EXCEPT ![q] = Item(i)]
            /\ queue' = Tail(queue) /\ phase' = phase /\ extra' = extra /\ call' = call
  <2>1. KeywordsTaken(args', extra'.pos, vals, D \cup {i})
    <3>1. D \in SUBSET Places
      BY <1>0 DEF KeywordItems
    <3>2. q \in PlainNamed(i)
      BY <1>6, <1>12
    <3>3. KeywordsTaken([args EXCEPT ![q] = Item(i)], extra.pos, vals, D \cup {i})
      BY <1>1, <1>3, <1>4, <1>12, <3>1, <3>2, KeywordPlaced
    <3>4. QED
      BY <1>12, <3>3
  <2>2. {e \in OtherItems : e.item \notin Members(Tail(queue))}
          = {e \in OtherItems : e.item \notin Waiting}
    <3>1. \A e \in OtherItems : e.item # i
      BY <1>12 DEF OtherItems
    <3>2. QED
      BY <1>4, <3>1
  <2>3. Waiting' = Members(Tail(queue))
    BY <1>12 DEF Waiting, Members
  <2>4. Lists(extra.kw, {e \in OtherItems : e.item \notin Waiting}, Written)'
    <3>1. Lists(extra'.kw, {e \in OtherItems' : e.item \notin Waiting'}, Written')
      BY <1>2, <1>12, <2>2, <2>3, CallSame
    <3>2. QED
      BY <3>1 DEF Lists
  <2>5. WaitsFor(queue, "kw")'
    BY <1>4, <1>12, CallSame DEF WaitsFor, Members
  <2>6. KeywordsTaken(args, extra.pos, vals, D \cup {i})'
    BY <1>12, <2>1, KeywordsLater
  <2>7. KeywordItems' \ Waiting' = D \cup {i}
    BY <1>8, <1>12, <2>3, CallSame
  <2>8. KeywordsOk'
    BY <1>2, <1>12, <2>4, <2>5, <2>6, <2>7, CallSame DEF KeywordsOk
  <2>9. Declared' /\ DispatchOk'
    BY <1>1, <1>12, CallSame DEF ResultInv, DispatchOk
  <2>10. QED
    BY <1>1, <1>12, <2>8, <2>9 DEF ResultInv, StarsOk, PositionalsOk, DefaultsOk,
                                   ResolvedOk, FitsOk, RefusedOk, Settled
<1>13. QED
  BY <1>5, <1>9, <1>10, <1>11, <1>12

\* What displays are bound to the parameters that collect values and keywords.
LEMMA ResultMaterialize ==
  ASSUME BindInv, ResultInv, Materialize PROVE ResultInv'
<1>1. /\ CallOk /\ Declared /\ phase = "keywords" /\ queue = << >> /\ phase' = "defaults"
      /\ call' = call /\ args \in [DOMAIN Params -> ItemExprs \cup {Unset}]
      /\ args' = [p \in DOMAIN args |->
                    CASE Params[p].kind = "var" -> ListOf(extra.pos)
                      [] Params[p].kind = "kw" -> DictOf(extra.kw)
                      [] OTHER -> args[p]]
  BY DEF BindInv, ArgsOk, ResultInv, Materialize, Unread
<1>2. Waiting = {}
  BY <1>1 DEF Waiting, Members
<1>3. {e \in OtherItems : e.item \notin {}} = OtherItems /\ KeywordItems \ {} = KeywordItems
  OBVIOUS
<1>4. Expandable({}) /\ Lists(extra.kw, OtherItems, Written)
  BY <1>1, <1>2, <1>3 DEF ResultInv, KeywordsOk
<1>5. PICK vals : KeywordsTaken(args, extra.pos, vals, KeywordItems)
  BY <1>1, <1>2, <1>3 DEF ResultInv, KeywordsOk
<1>6. /\ Lists(vals, ItemValues, Taken) /\ Enough(vals) /\ Rest(vals, Len(vals), extra.pos)
      /\ KeywordsBound(args, vals, KeywordItems) /\ RanksBound(args, vals)
      /\ OthersUnset(args, vals, KeywordItems, AllUnset)
  BY <1>5 DEF KeywordsTaken
<1>7. ASSUME NEW p \in DOMAIN Params
      PROVE  /\ Params[p].kind \notin Aggregates => args'[p] = args[p]
             /\ Params[p].kind = "var" => args'[p] = ListOf(extra.pos)
             /\ Params[p].kind = "kw" => args'[p] = DictOf(extra.kw)
  <2>1. p \in DOMAIN args
    BY <1>1
  <2>2. CASE Params[p].kind = "var"
    BY <1>1, <2>1, <2>2 DEF Aggregates
  <2>3. CASE Params[p].kind = "kw"
    BY <1>1, <2>1, <2>3 DEF Aggregates
  <2>4. CASE Params[p].kind \notin Aggregates
    <3>1. Params[p].kind # "var" /\ Params[p].kind # "kw"
      BY <2>4 DEF Aggregates
    <3>2. QED
      BY <1>1, <2>1, <3>1
  <2>5. QED
    BY <2>2, <2>3, <2>4 DEF Aggregates
<1>8. \A n \in DOMAIN Positional : /\ Positional[n] \in DOMAIN Params
                                   /\ Params[Positional[n]].kind \notin Aggregates
  BY <1>1, PositionalListed DEF Ordinary, Aggregates
<1>9. KeywordsBound(args', vals, KeywordItems)
  <2>1. \A i \in KeywordItems : \A p \in PlainNamed(i) : args'[p] = args[p]
    BY <1>7 DEF PlainNamed, Called
  <2>2. QED
    BY <1>6, <2>1 DEF KeywordsBound
<1>10. RanksBound(args', vals)
  BY <1>6, <1>7, <1>8 DEF RanksBound
<1>11. OthersUnset(args', vals, KeywordItems, AllUnset)
  BY <1>6, <1>7 DEF OthersUnset
<1>12. DisplaysBound(args', vals)
  <2>1. ListOf(extra.pos).sort = "list" /\ ListOf(extra.pos).parts = extra.pos
        /\ DictOf(extra.kw).sort = "dict" /\ DictOf(extra.kw).parts = extra.kw
    BY DEF ListOf, DictOf
  <2>2. QED
    BY <1>4, <1>6, <1>7, <2>1 DEF DisplaysBound
<1>13. Resolved(args', vals, AllUnset)
  BY <1>6, <1>9, <1>10, <1>11, <1>12 DEF Resolved
<1>14. DefaultsOk'
  <2>1. Resolved(args, vals, AllUnset)'
    BY <1>1, <1>13, ResolvedLater
  <2>2. Expandable({})'
    BY <1>1, <1>4, CallSame
  <2>3. QED
    BY <2>1, <2>2 DEF DefaultsOk
<1>15. Declared' /\ DispatchOk'
  BY <1>1, CallSame DEF ResultInv, DispatchOk
<1>16. QED
  BY <1>1, <1>14, <1>15 DEF ResultInv, StarsOk, PositionalsOk, KeywordsOk,
                            ResolvedOk, FitsOk, RefusedOk, Settled

\* What is not bound is neither ranked nor named.
LEMMA UnsetIsFree ==
  ASSUME Declared, NEW b, NEW vals, Resolved(b, vals, AllUnset), NEW p \in DOMAIN Params,
         b[p] = Unset
  PROVE  /\ Params[p].kind \notin Aggregates /\ ~Ranked(vals, p)
         /\ \A i \in KeywordItems : p \notin PlainNamed(i)
<1>1. CallOk /\ DisplaysBound(b, vals) /\ RanksBound(b, vals)
      /\ KeywordsBound(b, vals, KeywordItems) /\ Lists(vals, ItemValues, Taken)
  BY DEF Declared, Resolved
<1>2. Params[p].kind \notin Aggregates
  <2>1. Unset.sort # "list" /\ Unset.sort # "dict"
    BY DEF Unset
  <2>2. QED
    BY <1>1, <2>1 DEF DisplaysBound, Aggregates
<1>3. ~Ranked(vals, p)
  <2> SUFFICES ASSUME NEW n \in DOMAIN Positional, Positional[n] = p, n <= Len(vals)
               PROVE  FALSE
    BY DEF Ranked
  <2>1. b[p] = vals[n] /\ n \in DOMAIN vals
    BY <1>1, SameLength, PositionalListed DEF RanksBound
  <2>2. vals[n] \in ItemExprs
    BY <1>1, <2>1, SameLength DEF ItemValues
  <2>3. QED
    BY <2>1, <2>2, ItemsAreSet
<1>4. ASSUME NEW i \in KeywordItems, p \in PlainNamed(i) PROVE FALSE
  <2>1. PICK q \in PlainNamed(i) : b[q] = Item(i)
    BY <1>1, <1>4 DEF KeywordsBound
  <2>2. p = q
    BY <1>4, NamedOnce
  <2>3. Item(i) # Unset
    BY DEF Item, Unset
  <2>4. QED
    BY <2>1, <2>2, <2>3
<1>5. QED
  BY <1>2, <1>3, <1>4

LEMMA ResultFillDefaults ==
  ASSUME BindInv, ResultInv, FillDefaults PROVE ResultInv'
<1>1. /\ CallOk /\ Declared /\ phase = "defaults"
      /\ args = [p \in DOMAIN Params |-> args[p]]
  BY DEF BindInv, ArgsOk, ResultInv, FillDefaults
<1>2. Expandable({})
  BY <1>1 DEF ResultInv, DefaultsOk
<1>3. PICK vals : Resolved(args, vals, AllUnset)
  BY <1>1 DEF ResultInv, DefaultsOk
<1>4. /\ Lists(vals, ItemValues, Taken) /\ Enough(vals)
      /\ KeywordsBound(args, vals, KeywordItems) /\ RanksBound(args, vals)
      /\ OthersUnset(args, vals, KeywordItems, AllUnset) /\ DisplaysBound(args, vals)
  BY <1>3 DEF Resolved
<1>5. DOMAIN args = DOMAIN Params
  BY <1>1
<1>6. CASE /\ \E p \in DOMAIN args : args[p] = Unset /\ Params[p].default = "none"
           /\ Reject
  <2>1. PICK p \in DOMAIN Params : args[p] = Unset /\ Params[p].default = "none"
    BY <1>5, <1>6
  <2>2. /\ Params[p].kind \notin Aggregates /\ ~Ranked(vals, p)
        /\ \A i \in KeywordItems : p \notin PlainNamed(i)
    BY <1>1, <1>3, <2>1, UnsetIsFree
  <2>3. ~OtherConstructor => ~PyAccepts
    BY <1>1, <1>4, <2>1, <2>2, NotGiven
  <2>4. QED
    BY <1>6, <2>3, ResultRefused
<1>7. CASE /\ ~ \E p \in DOMAIN args : args[p] = Unset /\ Params[p].default = "none"
           /\ args' = [p \in DOMAIN args |-> IF args[p] = Unset THEN Default(p) ELSE args[p]]
           /\ phase' = "types" /\ call' = call
  <2>1. \A p \in DOMAIN Params :
          args'[p] = IF args[p] = Unset THEN Default(p) ELSE args[p]
    BY <1>5, <1>7
  <2>2. ASSUME NEW p \in DOMAIN Params, \/ Params[p].kind \in Aggregates
                                        \/ Ranked(vals, p)
                                        \/ \E i \in KeywordItems : p \in PlainNamed(i)
        PROVE  args'[p] = args[p]
    BY <1>1, <1>3, <2>1, <2>2, UnsetIsFree
  <2>3. KeywordsBound(args', vals, KeywordItems)
    <3>1. \A i \in KeywordItems : \A p \in PlainNamed(i) : args'[p] = args[p]
      BY <2>2 DEF PlainNamed, Called
    <3>2. QED
      BY <1>4, <3>1 DEF KeywordsBound
  <2>4. RanksBound(args', vals)
    <3>1. \A n \in DOMAIN Positional : n <= Len(vals) =>
            args'[Positional[n]] = args[Positional[n]]
      <4> SUFFICES ASSUME NEW n \in DOMAIN Positional, n <= Len(vals)
                   PROVE  args'[Positional[n]] = args[Positional[n]]
        OBVIOUS
      <4>1. Positional[n] \in DOMAIN Params
        BY <1>1, PositionalListed
      <4>2. Ranked(vals, Positional[n])
        BY DEF Ranked
      <4>3. QED
        BY <2>2, <4>1, <4>2
    <3>2. QED
      BY <1>4, <3>1 DEF RanksBound
  <2>5. OthersUnset(args', vals, KeywordItems, AllDefault)
    <3> SUFFICES ASSUME NEW p \in DOMAIN Params, Params[p].kind \notin Aggregates,
                        ~Ranked(vals, p), \A i \in KeywordItems : p \notin PlainNamed(i)
                 PROVE  args'[p] = AllDefault[p] /\ Params[p].default # "none"
      BY DEF OthersUnset
    <3>1. args[p] = Unset
      BY <1>4 DEF OthersUnset, AllUnset
    <3>2. QED
      BY <1>5, <1>7, <2>1, <3>1 DEF AllDefault
  <2>6. DisplaysBound(args', vals)
    BY <1>4, <2>2 DEF DisplaysBound, Aggregates
  <2>7. Resolved(args', vals, AllDefault)
    BY <1>4, <2>3, <2>4, <2>5, <2>6 DEF Resolved
  <2>8. ResolvedOk'
    <3>1. Resolved(args, vals, AllDefault)' /\ Expandable({})'
      BY <1>2, <1>7, <2>7, ResolvedLater, CallSame
    <3>2. QED
      BY <3>1 DEF ResolvedOk
  <2>9. Declared' /\ DispatchOk'
    BY <1>1, <1>7, CallSame DEF ResultInv, DispatchOk
  <2>10. QED
    BY <1>7, <2>8, <2>9 DEF ResultInv, StarsOk, PositionalsOk, KeywordsOk, DefaultsOk,
                            FitsOk, RefusedOk
<1>8. QED
  BY <1>6, <1>7 DEF FillDefaults, Unread

\* A well typed call whose form is supported fits.
LEMMA WellTypedFits ==
  ASSUME Declared, ~OtherConstructor, WellTyped, ~Unsupported,
         NEW p \in DOMAIN Params, NEW e \in Bindable(p),
         e = Default(p) => Params[p].default # "none"
  PROVE  Fits(e, p)
<1>1. CallOk
  BY DEF Declared
<1>2. ASSUME NEW x \in ItemExprs
      PROVE  AssignableTo(TypeOf(x), Params[p].typ) /\ x.sort \notin {"list", "dict"}
  <2>1. x.item \in DOMAIN call.items /\ x.sort = "item"
    BY DEF ItemExprs, Exprs, Places
  <2>2. QED
    BY <2>1 DEF WellTyped, TypeOf
<1>3. CASE e \in ItemExprs
  BY <1>2, <1>3 DEF Fits
<1>4. CASE e = Default(p)
  <2>1. e.sort = "default" /\ e.param = p
    BY <1>4 DEF Default
  <2>2. AssignableTo(Params[p].default, Params[p].typ)
    BY <1>4 DEF Declared
  <2>3. QED
    BY <2>1, <2>2 DEF Fits, TypeOf
<1>5. CASE e \in Displays /\ Params[p].kind \in Aggregates
  <2>1. e.sort \in {"list", "dict"} /\ e.parts \in Seq(ItemExprs)
    BY <1>5 DEF Displays
  <2>2. call.callee \notin {"method", "init"}
    <3>1. p \in Of("var") \/ p \in Of("kw")
      BY <1>5 DEF Of, Aggregates
    <3>2. PyHas("var") \/ PyHas("kw")
      BY <1>1, <3>1, HasIs
    <3>3. QED
      BY <3>2 DEF Unsupported
  <2>3. \A n \in DOMAIN e.parts : AssignableTo(TypeOf(e.parts[n]), Params[p].typ)
    <3>1. TAKE n \in DOMAIN e.parts
    <3>2. e.parts[n] \in ItemExprs
      BY <2>1
    <3>3. QED
      BY <1>2, <3>2
  <2>4. QED
    BY <2>1, <2>2, <2>3 DEF Fits
<1>6. QED
  BY <1>3, <1>4, <1>5 DEF Bindable

\* A default is bound to a parameter that has one.
LEMMA DefaultsAreDeclared ==
  ASSUME Declared, NEW b, NEW vals, Resolved(b, vals, AllDefault), NEW p \in DOMAIN Params,
         b[p] = Default(p)
  PROVE  /\ Params[p].default # "none" /\ Params[p].kind \notin Aggregates /\ ~Ranked(vals, p)
         /\ \A i \in KeywordItems : p \notin PlainNamed(i)
<1>1. CallOk /\ DisplaysBound(b, vals) /\ RanksBound(b, vals)
      /\ KeywordsBound(b, vals, KeywordItems) /\ Lists(vals, ItemValues, Taken)
      /\ OthersUnset(b, vals, KeywordItems, AllDefault)
  BY DEF Declared, Resolved
<1>2. Default(p).sort = "default"
  BY DEF Default
<1>3. Params[p].kind \notin Aggregates
  BY <1>1, <1>2 DEF DisplaysBound, Aggregates
<1>4. ~Ranked(vals, p)
  <2> SUFFICES ASSUME NEW n \in DOMAIN Positional, Positional[n] = p, n <= Len(vals)
               PROVE  FALSE
    BY DEF Ranked
  <2>1. b[p] = vals[n] /\ n \in DOMAIN vals
    BY <1>1, SameLength, PositionalListed DEF RanksBound
  <2>2. vals[n] \in ItemExprs
    BY <1>1, <2>1, SameLength DEF ItemValues
  <2>3. vals[n].sort = "item"
    BY <2>2 DEF ItemExprs, Exprs
  <2>4. QED
    BY <1>2, <2>1, <2>3
<1>5. ASSUME NEW i \in KeywordItems, p \in PlainNamed(i) PROVE FALSE
  <2>1. PICK q \in PlainNamed(i) : b[q] = Item(i)
    BY <1>1, <1>5 DEF KeywordsBound
  <2>2. p = q
    BY <1>5, NamedOnce
  <2>3. Item(i).sort = "item"
    BY DEF Item
  <2>4. QED
    BY <1>2, <2>1, <2>2, <2>3
<1>6. Params[p].default # "none"
  BY <1>1, <1>3, <1>4, <1>5 DEF OthersUnset, AllDefault
<1>7. QED
  BY <1>3, <1>4, <1>5, <1>6

LEMMA ResultCheckTypes ==
  ASSUME BindInv, ResultInv, CheckTypes PROVE ResultInv'
<1>1. /\ CallOk /\ Declared /\ phase = "types" /\ call' = call /\ args' = args
      /\ args = [p \in DOMAIN Params |-> args[p]]
      /\ \A p \in DOMAIN Params : args[p] \in Bindable(p)
  BY DEF BindInv, ArgsOk, ResultInv, CheckTypes
<1>2. Expandable({})
  BY <1>1 DEF ResultInv, ResolvedOk, Settled
<1>3. PICK vals : Resolved(args, vals, AllDefault)
  BY <1>1 DEF ResultInv, ResolvedOk, Settled
<1>4. Declared' /\ DispatchOk'
  BY <1>1, CallSame DEF ResultInv, DispatchOk, CheckTypes
<1>5. CASE phase' = "mistyped" /\ \E p \in DOMAIN args : ~Fits(args[p], p)
  <2>1. PICK p \in DOMAIN Params : ~Fits(args[p], p)
    BY <1>1, <1>5
  <2>2. args[p] = Default(p) => Params[p].default # "none"
    BY <1>1, <1>3, DefaultsAreDeclared
  <2>3. ~OtherConstructor => ~WellTyped \/ Unsupported
    BY <1>1, <2>1, <2>2, WellTypedFits
  <2>4. RefusedOk'
    BY <1>1, <1>5, <2>3, CallSame DEF RefusedOk
  <2>5. QED
    BY <1>4, <1>5, <2>4 DEF ResultInv, StarsOk, PositionalsOk, KeywordsOk, DefaultsOk,
                            ResolvedOk, FitsOk, Settled
<1>6. CASE phase' = "evaluate" /\ \A p \in DOMAIN args : Fits(args[p], p)
  <2>1. FitsOk'
    <3>1. args' = [p \in DOMAIN Params' |-> args'[p]]
      BY <1>1, CallSame
    <3>2. \A p \in DOMAIN Params' : args'[p] \in Bindable(p)' /\ Fits(args[p], p)'
      <4>1. \A p \in DOMAIN Params : args[p] \in Bindable(p) /\ Fits(args[p], p)
        BY <1>1, <1>6
      <4>2. \A p : Fits(args[p], p)' <=> Fits(args[p], p)
        <5> TAKE p
        <5>1. Params' = Params /\ args' = args /\ call' = call
          BY <1>1, CallSame
        <5>2. QED
          BY <5>1 DEF Fits, TypeOf
      <4>3. \A p : Bindable(p)' = Bindable(p)
        BY <1>1, CallSame
      <4>4. QED
        BY <1>1, <4>1, <4>2, <4>3, CallSame
    <3>3. QED
      BY <3>1, <3>2 DEF FitsOk
  <2>2. Resolved(args, vals, AllDefault)' /\ Expandable({})'
    BY <1>1, <1>2, <1>3, ResolvedLater, CallSame
  <2>3. ResolvedOk'
    BY <2>2 DEF ResolvedOk
  <2>4. QED
    BY <1>4, <1>6, <2>1, <2>3 DEF ResultInv, StarsOk, PositionalsOk, KeywordsOk, DefaultsOk,
                                  RefusedOk
<1>7. QED
  BY <1>5, <1>6 DEF CheckTypes

\* What the bindings of a resolved call say stays while the call is evaluated.
LEMMA ResultLast ==
  ASSUME ResultInv, phase = "evaluate", phase' \in {"evaluate", "entered"}, call' = call,
         args' = args
  PROVE  ResultInv'
<1>1. Declared' /\ DispatchOk'
  BY CallSame DEF ResultInv, DispatchOk
<1>2. FitsOk'
  <2>1. /\ args = [p \in DOMAIN Params |-> args[p]]
        /\ \A p \in DOMAIN Params : args[p] \in Bindable(p) /\ Fits(args[p], p)
    BY DEF ResultInv, FitsOk
  <2>2. \A p : Fits(args[p], p)' <=> Fits(args[p], p)
    BY CallSame DEF Fits, TypeOf
  <2>3. args' = [p \in DOMAIN Params' |-> args'[p]]
    BY <2>1, CallSame
  <2>4. \A p \in DOMAIN Params' : args'[p] \in Bindable(p)' /\ Fits(args[p], p)'
    BY <2>1, <2>2, CallSame
  <2>5. QED
    BY <2>3, <2>4 DEF FitsOk
<1>3. ResolvedOk'
  <2>1. Expandable({})
    BY DEF ResultInv, ResolvedOk, Settled
  <2>2. PICK vals : Resolved(args, vals, AllDefault)
    BY DEF ResultInv, ResolvedOk, Settled
  <2>3. Resolved(args, vals, AllDefault)' /\ Expandable({})'
    BY <2>1, <2>2, ResolvedLater, CallSame
  <2>4. QED
    BY <2>3 DEF ResolvedOk
<1>4. QED
  BY <1>1, <1>2, <1>3 DEF ResultInv, StarsOk, PositionalsOk, KeywordsOk, DefaultsOk, RefusedOk

LEMMA ResultStutters ==
  ASSUME ResultInv, UNCHANGED vars PROVE ResultInv'
<1>1. /\ call' = call /\ phase' = phase /\ queue' = queue /\ args' = args /\ extra' = extra
      /\ code' = code /\ trace' = trace /\ frame' = frame
  BY DEF vars
<1>2. Declared' /\ DispatchOk' /\ RefusedOk'
  BY <1>1, CallSame DEF ResultInv, DispatchOk, RefusedOk
<1>3. Waiting' = Waiting
  BY <1>1 DEF Waiting, Members
<1>4. StarsOk'
  BY <1>1, <1>3, CallSame DEF ResultInv, StarsOk, WaitsFor, Members, Lists, Unset
<1>5. PositionalsOk'
  BY <1>1, CallSame, SMTT(30) DEF ResultInv, PositionalsOk, Lists, Pending, Positioned, Unset
<1>6. KeywordsOk'
  <2>1. CASE phase # "keywords"
    BY <1>1, <2>1 DEF KeywordsOk
  <2>2. CASE phase = "keywords"
    <3>1. PICK vals, D : D = KeywordItems \ Waiting /\ KeywordsTaken(args, extra.pos, vals, D)
      BY <2>2 DEF ResultInv, KeywordsOk
    <3>2. KeywordsTaken(args, extra.pos, vals, D)'
      BY <1>1, <3>1, KeywordsLater
    <3>3. (KeywordItems \ Waiting)' = D
      BY <1>1, <1>3, <3>1, CallSame
    <3>4. WaitsFor(queue, "kw")' /\ Expandable({})'
      BY <1>1, <2>2, CallSame DEF ResultInv, KeywordsOk, WaitsFor, Members
    <3>5. Lists(extra.kw, {e \in OtherItems : e.item \notin Waiting}, Written)'
      BY <1>1, <1>3, <2>2, CallSame DEF ResultInv, KeywordsOk, Lists
    <3>6. QED
      BY <3>2, <3>3, <3>4, <3>5 DEF KeywordsOk
  <2>3. QED
    BY <2>1, <2>2
<1>7. DefaultsOk'
  BY <1>1, ResolvedLater, CallSame DEF ResultInv, DefaultsOk
<1>8. ResolvedOk'
  BY <1>1, ResolvedLater, CallSame DEF ResultInv, ResolvedOk
<1>9. FitsOk'
  <2>1. \A p : Fits(args[p], p)' <=> Fits(args[p], p)
    BY <1>1, CallSame DEF Fits, TypeOf
  <2>2. CASE phase \notin {"evaluate", "entered"}
    BY <1>1, <2>2 DEF FitsOk
  <2>3. CASE phase \in {"evaluate", "entered"}
    <3>1. /\ args = [p \in DOMAIN Params |-> args[p]]
          /\ \A p \in DOMAIN Params : args[p] \in Bindable(p) /\ Fits(args[p], p)
      BY <2>3 DEF ResultInv, FitsOk
    <3>2. args' = [p \in DOMAIN Params' |-> args'[p]]
      BY <1>1, <3>1, CallSame
    <3>3. \A p \in DOMAIN Params' : args'[p] \in Bindable(p)' /\ Fits(args[p], p)'
      BY <1>1, <2>1, <3>1, CallSame
    <3>4. QED
      BY <3>2, <3>3 DEF FitsOk
  <2>4. QED
    BY <2>2, <2>3
<1>10. QED
  BY <1>2, <1>4, <1>5, <1>6, <1>7, <1>8, <1>9 DEF ResultInv

LEMMA ResultInit ==
  ASSUME Init PROVE ResultInv
<1>1. phase = "dispatch" /\ extra.kw = << >> /\ Declared
  BY DeclaredFirst DEF Init
<1>2. QED
  BY <1>1 DEF ResultInv, DispatchOk, StarsOk, PositionalsOk, KeywordsOk, DefaultsOk,
              ResolvedOk, FitsOk, RefusedOk, Settled

\* The invariant the theorems below follow from.
LEMMA ResultInvHolds == Spec => []ResultInv
<1>1. Init => ResultInv
  BY ResultInit
<1>2. BindInv /\ ResultInv /\ [Next]_vars => ResultInv'
  <2> SUFFICES ASSUME BindInv, ResultInv, [Next]_vars PROVE ResultInv'
    OBVIOUS
  <2>1. CASE Evaluate
    BY <2>1, ResultLast DEF Evaluate
  <2>2. CASE Enter
    BY <2>2, ResultLast DEF Enter
  <2>3. QED
    BY <2>1, <2>2, ResultDispatch, ResultExpandStar, ResultStarsDone, ResultBindPositional,
       ResultPositionalsDone, ResultBindKeyword, ResultMaterialize, ResultFillDefaults,
       ResultCheckTypes, ResultStutters DEF Next
<1>3. QED
  BY <1>1, <1>2, BindInvHolds, PTL DEF Spec

-------------------------------------------------------------------------------
(* The calls that are accepted *)

\* What Python requires of a call holds when its arguments are bound.
LEMMA ResolvedAccepted ==
  ASSUME Declared, ~OtherConstructor, ~KeywordTwice, NEW vals, Resolved(args, vals, AllDefault)
  PROVE  PyAccepts
<1>1. /\ CallOk /\ Lists(vals, ItemValues, Taken) /\ Enough(vals)
      /\ KeywordsBound(args, vals, KeywordItems)
      /\ OthersUnset(args, vals, KeywordItems, AllDefault)
  BY DEF Declared, Resolved
<1>2. /\ PyParams = Params /\ PyPositional = Positional /\ Len(PyValues) = Len(vals)
      /\ (PyHas("var") <=> Of("var") # {}) /\ (PyHas("kw") <=> Of("kw") # {})
      /\ ToSet(Items("kw")) = KeywordItems
  BY <1>1, RegularParams, SameLength, HasIs, KeywordsAre
<1>3. ASSUME NEW i \in KeywordItems, NEW p \in PlainNamed(i)
      PROVE  Params[p].kind # "posonly" /\ ~Ranked(vals, p) /\ args[p] = Item(i)
  <2>1. PICK q \in PlainNamed(i) :
          Params[q].kind # "posonly" /\ ~Ranked(vals, q) /\ args[q] = Item(i)
    BY <1>1, <1>3 DEF KeywordsBound
  <2>2. p = q
    BY <1>3, NamedOnce
  <2>3. QED
    BY <2>1, <2>2
<1>4. \A i, j : Item(i) = Item(j) => i = j
  BY DEF Item
<1>5. Len(PyValues) <= Len(PyPositional) \/ PyHas("var")
  BY <1>1, <1>2 DEF Enough
<1>6. Others = << >> \/ PyHas("kw")
  <2> SUFFICES ASSUME Others # << >> PROVE PyHas("kw")
    OBVIOUS
  <2>1. Others \in Seq(Nat) /\ 1 \in DOMAIN Others
    <3> DEFINE s == Others
    <3>1. s \in Seq(Nat) /\ s # << >>
      BY <1>1, OthersListed
    <3> HIDE DEF s
    <3>2. 1 \in DOMAIN s
      BY <3>1
    <3>3. QED
      BY <3>1, <3>2 DEF s
  <2>2. /\ Others[1] \in KeywordItems
        /\ \A p \in PlainNamed(Others[1]) : Params[p].kind = "posonly"
    BY <1>1, <2>1, OthersListed
  <2>3. PlainNamed(Others[1]) = {}
    BY <1>3, <2>2
  <2>4. QED
    BY <1>1, <1>2, <2>2, <2>3 DEF KeywordsBound
<1>7. ASSUME NEW i \in KeywordItems, NEW j \in KeywordItems,
             call.items[i].name = call.items[j].name
      PROVE  i = j
  <2>1. PlainNamed(i) = PlainNamed(j)
    BY <1>7 DEF PlainNamed
  <2>2. CASE PlainNamed(i) # {}
    BY <1>3, <1>4, <2>1, <2>2
  <2>3. CASE PlainNamed(i) = {}
    <3>1. PICK m \in DOMAIN Others : Others[m] = i
      BY <1>1, <2>3, OthersListed
    <3>2. PICK n \in DOMAIN Others : Others[n] = j
      BY <1>1, <2>1, <2>3, OthersListed
    <3>3. i \in ToSet(Others) /\ j \in ToSet(Others)
      BY <3>1, <3>2 DEF ToSet
    <3>4. QED
      BY <1>7, <3>3 DEF KeywordTwice
  <2>4. QED
    BY <2>2, <2>3
<1>8. ASSUME NEW p \in DOMAIN Params, Params[p].kind \notin Aggregates
      PROVE  /\ Cardinality(Rank(p)) + Cardinality(Naming(p)) <= 1
             /\ Rank(p) \cup Naming(p) # {} \/ Params[p].default # "none"
  <2>1. /\ Rank(p) # {} <=> Ranked(vals, p)
        /\ Cardinality(Rank(p)) = IF Ranked(vals, p) THEN 1 ELSE 0
    BY <1>1, RankIs
  <2>2. \A i : i \in Naming(p) <=> /\ i \in KeywordItems /\ p \in PlainNamed(i)
                                   /\ Params[p].kind # "posonly"
    BY <1>1, NamingIs
  <2>3. \A i : i \in Naming(p) <=> i \in KeywordItems /\ p \in PlainNamed(i)
    BY <1>3, <2>2
  <2>4. CASE Naming(p) # {}
    <3>1. PICK i : i \in Naming(p)
      BY <2>4
    <3>2. \A j \in Naming(p) : j = i
      BY <1>3, <1>4, <2>3, <3>1
    <3>3. Naming(p) = {i}
      BY <3>1, <3>2
    <3>4. Cardinality(Naming(p)) = 1
      BY <3>3, FS_Singleton
    <3>5. Cardinality(Rank(p)) = 0
      BY <1>3, <2>1, <2>3, <3>1
    <3>6. QED
      BY <2>4, <3>4, <3>5
  <2>5. CASE Naming(p) = {}
    <3>1. Cardinality(Naming(p)) = 0
      BY <2>5, FS_EmptySet
    <3>2. Ranked(vals, p) \/ Params[p].default # "none"
      BY <1>1, <1>8, <2>3, <2>5 DEF OthersUnset, AllDefault
    <3>3. QED
      BY <2>1, <3>1, <3>2
  <2>6. QED
    BY <2>4, <2>5
<1>9. QED
  BY <1>2, <1>5, <1>6, <1>7, <1>8 DEF PyAccepts

\* A call that is bound and fits has none of the unsupported forms.
LEMMA ResolvedSupported ==
  ASSUME Declared, ~OtherConstructor, NEW vals, Resolved(args, vals, AllDefault),
         Items("map") = << >>, call.defined, call.callee \in Plain => OnlyPositional,
         Expandable({}), \A p \in DOMAIN Params : Fits(args[p], p)
  PROVE  ~Unsupported
<1>1. /\ CallOk /\ KeywordsBound(args, vals, KeywordItems) /\ DisplaysBound(args, vals)
  BY DEF Declared, Resolved
<1>2. \A i \in ToSet(Items("star")) : ~(call.items[i].len < 0)
  <2>1. TAKE i \in ToSet(Items("star"))
  <2>2. i \in Places /\ call.items[i].form = "star"
    BY <1>1, ItemsListed DEF ToSet
  <2>3. call.items[i].len >= 0 /\ call.items[i].len \in Int
    <3>1. call.items[i] \in Arguments
      BY <1>1, <2>2 DEF CallOk, Places
    <3>2. QED
      BY <2>2, <3>1 DEF Expandable, Arguments
  <2>4. QED
    BY <2>3
<1>3. ~(call.callee \in Plain /\ (Starred \/ Named))
  BY DEF OnlyPositional
<1>4. ASSUME NEW i \in ToSet(Items("kw")), NEW p \in Called(call.items[i].name),
             Params[p].kind = "posonly"
      PROVE  FALSE
  <2>1. i \in KeywordItems /\ p \in PlainNamed(i)
    BY <1>1, <1>4, KeywordsAre DEF PlainNamed, Aggregates
  <2>2. PICK q \in PlainNamed(i) : Params[q].kind # "posonly"
    BY <1>1, <2>1 DEF KeywordsBound
  <2>3. p = q
    BY <2>1, <2>2, NamedOnce
  <2>4. QED
    BY <1>4, <2>2, <2>3
<1>5. ASSUME call.callee \in {"method", "init"}, PyHas("var") \/ PyHas("kw") PROVE FALSE
  <2>1. PICK p \in DOMAIN Params : Params[p].kind \in {"var", "kw"}
    BY <1>1, <1>5, HasIs DEF Of
  <2>2. args[p].sort \in {"list", "dict"}
    BY <1>1, <2>1 DEF DisplaysBound
  <2>3. QED
    BY <1>5, <2>1, <2>2 DEF Fits
<1>6. QED
  BY <1>2, <1>3, <1>4, <1>5 DEF Unsupported

\* A well typed call is entered exactly when Python accepts it and its form is
\* supported, whatever the call (AcceptsAsPython): what resolveFunctionArgs binds
\* is all that is written, and it refuses nothing that could be bound.
THEOREM AcceptedAsPython == Spec => []AcceptsAsPython
<1>1. ResultInv => AcceptsAsPython
  <2> SUFFICES ASSUME ResultInv, Done, WellTyped, ~OtherConstructor, ~KeywordTwice
               PROVE  phase = "entered" <=> PyAccepts /\ ~Unsupported
    BY DEF AcceptsAsPython
  <2>1. ASSUME phase # "entered" PROVE ~(PyAccepts /\ ~Unsupported)
    BY <2>1 DEF ResultInv, RefusedOk, Done
  <2>2. ASSUME phase = "entered" PROVE PyAccepts /\ ~Unsupported
    <3>1. /\ Declared /\ Expandable({}) /\ Items("map") = << >> /\ call.defined
          /\ call.callee \in Plain => OnlyPositional
          /\ \A p \in DOMAIN Params : Fits(args[p], p)
      BY <2>2 DEF ResultInv, DispatchOk, ResolvedOk, FitsOk, Settled
    <3>2. PICK vals : Resolved(args, vals, AllDefault)
      BY <2>2 DEF ResultInv, ResolvedOk, Settled
    <3>3. QED
      BY <3>1, <3>2, ResolvedAccepted, ResolvedSupported
  <2>3. QED
    BY <2>1, <2>2
<1>2. QED
  BY <1>1, ResultInvHolds, PTL

-------------------------------------------------------------------------------
(* What parameters receive *)

\* The sequences of ss lie in low, each from where at says and all of one parameter.
Blocks(low, ss, at) ==
  /\ low \in Seq(OpRecords) /\ ss \in Seq(Seq(OpRecords))
  /\ \A p \in 1 .. Len(ss) :
       /\ at[p] \in Nat /\ at[p] + Len(ss[p]) <= Len(low)
       /\ \A n \in 1 .. Len(ss[p]) : low[at[p] + n] = ss[p][n] /\ ss[p][n].param = p
       /\ \A k \in 1 .. Len(low) : low[k].param = p => at[p] < k /\ k <= at[p] + Len(ss[p])

NoParameters(s) == s \in Seq(OpRecords) /\ \A n \in 1 .. Len(s) : s[n].param = 0

LEMMA BlocksFlatten ==
  ASSUME NEW ss \in Seq(Seq(OpRecords)),
         \A p \in 1 .. Len(ss) : \A n \in 1 .. Len(ss[p]) : ss[p][n].param = p
  PROVE  \E at : Blocks(FlattenSeq(ss), ss, at)
<1> DEFINE low == FlattenSeq(ss)
<1>1. PICK at \in [1 .. Len(ss) -> Nat] :
        /\ \A i \in 1 .. Len(ss) : \A m \in 1 .. Len(ss[i]) :
             at[i] + m \in 1 .. Len(low) /\ low[at[i] + m] = ss[i][m]
        /\ \A x \in 1 .. Len(low) :
             \E i \in 1 .. Len(ss) : \E m \in 1 .. Len(ss[i]) : x = at[i] + m
        /\ \A i, j \in 1 .. Len(ss) : i < j => at[i] + Len(ss[i]) <= at[j]
  BY FlattenBlocks
<1>2. low \in Seq(OpRecords)
  BY FlattenedOver
<1> HIDE DEF low
<1>3. ASSUME NEW p \in 1 .. Len(ss), Len(ss[p]) # 0 PROVE at[p] + Len(ss[p]) <= Len(low)
  <2>1. Len(ss[p]) \in 1 .. Len(ss[p]) /\ at[p] \in Nat /\ Len(ss[p]) \in Nat
    BY <1>3
  <2>2. at[p] + Len(ss[p]) \in 1 .. Len(low)
    BY <1>1, <2>1
  <2>3. QED
    BY <1>2, <2>2
<1>4. ASSUME NEW p \in 1 .. Len(ss), NEW k \in 1 .. Len(low), low[k].param = p
      PROVE  at[p] < k /\ k <= at[p] + Len(ss[p])
  <2>1. PICK i \in 1 .. Len(ss) : \E m \in 1 .. Len(ss[i]) : k = at[i] + m
    BY <1>1
  <2>2. PICK m \in 1 .. Len(ss[i]) : k = at[i] + m
    BY <2>1
  <2>3. i = p
    <3>1. low[at[i] + m] = ss[i][m]
      BY <1>1
    <3>2. ss[i][m].param = i
      OBVIOUS
    <3>3. QED
      BY <1>4, <2>2, <3>1, <3>2
  <2>4. at[p] \in Nat /\ Len(ss[p]) \in Nat /\ m \in 1 .. Len(ss[p]) /\ k = at[p] + m
    BY <2>2, <2>3
  <2>5. QED
    BY <2>4
<1> DEFINE from == [p \in 1 .. Len(ss) |-> IF Len(ss[p]) = 0 THEN 0 ELSE at[p]]
<1>5. ASSUME NEW p \in 1 .. Len(ss)
      PROVE  /\ from[p] \in Nat /\ from[p] + Len(ss[p]) <= Len(low)
             /\ \A n \in 1 .. Len(ss[p]) : low[from[p] + n] = ss[p][n] /\ ss[p][n].param = p
             /\ \A k \in 1 .. Len(low) :
                  low[k].param = p => from[p] < k /\ k <= from[p] + Len(ss[p])
  <2>1. CASE Len(ss[p]) = 0
    <3>1. from[p] = 0 /\ 1 .. Len(ss[p]) = {} /\ Len(low) \in Nat
      BY <1>2, <2>1
    <3>2. \A k \in 1 .. Len(low) : low[k].param # p
      <4> SUFFICES ASSUME NEW k \in 1 .. Len(low), low[k].param = p PROVE FALSE
        OBVIOUS
      <4>1. at[p] < k /\ k <= at[p] + 0 /\ at[p] \in Nat
        BY <1>4, <2>1
      <4>2. QED
        BY <4>1
    <3>3. QED
      BY <2>1, <3>1, <3>2, SMTT(30)
  <2>2. CASE Len(ss[p]) # 0
    <3>1. from[p] = at[p]
      BY <2>2
    <3>2. QED
      BY <1>1, <1>3, <1>4, <2>2, <3>1
  <2>3. QED
    BY <2>1, <2>2
<1> HIDE DEF from
<1>6. Blocks(low, ss, from)
  BY <1>2, <1>5 DEF Blocks
<1>7. QED
  BY <1>6 DEF low

\* Operations that are no parameter's come before the others, or after them.
LEMMA BlocksAfter ==
  ASSUME NEW low, NEW ss, NEW at, Blocks(low, ss, at), NEW first, NoParameters(first)
  PROVE  \E from : Blocks(first \o low, ss, from)
<1> DEFINE c == Len(first)
           u == first \o low
           from == [p \in 1 .. Len(ss) |-> c + at[p]]
<1>1. /\ first \in Seq(OpRecords) /\ c \in Nat /\ low \in Seq(OpRecords) /\ Len(low) \in Nat
      /\ ss \in Seq(Seq(OpRecords)) /\ \A n \in 1 .. c : first[n].param = 0
  BY DEF Blocks, NoParameters
<1>2. /\ u \in Seq(OpRecords) /\ Len(u) = c + Len(low)
      /\ \A n \in 1 .. c : u[n] = first[n]
      /\ \A n \in 1 .. Len(low) : u[c + n] = low[n]
  BY <1>1
<1> HIDE DEF c, u
<1>3. ASSUME NEW p \in 1 .. Len(ss)
      PROVE  /\ from[p] \in Nat /\ from[p] + Len(ss[p]) <= Len(u)
             /\ \A n \in 1 .. Len(ss[p]) : u[from[p] + n] = ss[p][n] /\ ss[p][n].param = p
             /\ \A k \in 1 .. Len(u) :
                  u[k].param = p => from[p] < k /\ k <= from[p] + Len(ss[p])
  <2>1. /\ at[p] \in Nat /\ at[p] + Len(ss[p]) <= Len(low) /\ from[p] = c + at[p]
        /\ Len(ss[p]) \in Nat /\ p \in Nat /\ p # 0
    BY <1>1 DEF Blocks
  <2>2. ASSUME NEW n \in 1 .. Len(ss[p])
        PROVE  u[from[p] + n] = ss[p][n] /\ ss[p][n].param = p
    <3>1. at[p] + n \in 1 .. Len(low) /\ from[p] + n = c + (at[p] + n)
      BY <1>1, <2>1, SMTT(30)
    <3>2. u[c + (at[p] + n)] = low[at[p] + n]
      BY <1>2, <3>1
    <3>3. QED
      BY <3>1, <3>2 DEF Blocks
  <2>3. ASSUME NEW k \in 1 .. Len(u), u[k].param = p
        PROVE  from[p] < k /\ k <= from[p] + Len(ss[p])
    <3>1. ~ (k <= c)
      BY <1>1, <1>2, <2>1, <2>3
    <3>2. k - c \in 1 .. Len(low) /\ k = c + (k - c)
      BY <1>1, <1>2, <3>1
    <3>3. low[k - c].param = p
      BY <1>2, <2>3, <3>2
    <3>4. at[p] < k - c /\ k - c <= at[p] + Len(ss[p])
      BY <3>2, <3>3 DEF Blocks
    <3>5. QED
      BY <1>1, <2>1, <3>2, <3>4, SMTT(30)
  <2>4. QED
    BY <1>1, <1>2, <2>1, <2>2, <2>3
<1> HIDE DEF from
<1>4. Blocks(u, ss, from)
  BY <1>1, <1>2, <1>3 DEF Blocks
<1>5. QED
  BY <1>4 DEF u

LEMMA BlocksFirst ==
  ASSUME NEW low, NEW ss, NEW at, Blocks(low, ss, at), NEW last, NoParameters(last)
  PROVE  Blocks(low \o last, ss, at)
<1> DEFINE c == Len(low)
           u == low \o last
<1>1. /\ last \in Seq(OpRecords) /\ c \in Nat /\ low \in Seq(OpRecords) /\ Len(last) \in Nat
      /\ ss \in Seq(Seq(OpRecords)) /\ \A n \in 1 .. Len(last) : last[n].param = 0
  BY DEF Blocks, NoParameters
<1>2. /\ u \in Seq(OpRecords) /\ Len(u) = c + Len(last)
      /\ \A n \in 1 .. c : u[n] = low[n]
      /\ \A n \in 1 .. Len(last) : u[c + n] = last[n]
  BY <1>1
<1>3. ASSUME NEW p \in 1 .. Len(ss)
      PROVE  /\ at[p] \in Nat /\ at[p] + Len(ss[p]) <= c /\ Len(ss[p]) \in Nat /\ p # 0
             /\ \A n \in 1 .. Len(ss[p]) : low[at[p] + n] = ss[p][n] /\ ss[p][n].param = p
             /\ \A k \in 1 .. c :
                  low[k].param = p => at[p] < k /\ k <= at[p] + Len(ss[p])
  BY <1>1, SMTT(30) DEF Blocks
<1> HIDE DEF c, u
<1>4. ASSUME NEW p \in 1 .. Len(ss)
      PROVE  /\ at[p] \in Nat /\ at[p] + Len(ss[p]) <= Len(u)
             /\ \A n \in 1 .. Len(ss[p]) : u[at[p] + n] = ss[p][n] /\ ss[p][n].param = p
             /\ \A k \in 1 .. Len(u) :
                  u[k].param = p => at[p] < k /\ k <= at[p] + Len(ss[p])
  <2>1. at[p] \in Nat /\ at[p] + Len(ss[p]) <= c /\ Len(ss[p]) \in Nat /\ p # 0
    BY <1>3
  <2>2. at[p] + Len(ss[p]) <= Len(u)
    BY <1>1, <1>2, <2>1
  <2>3. \A n \in 1 .. Len(ss[p]) : at[p] + n \in 1 .. c
    BY <1>1, <2>1
  <2>4. ASSUME NEW k \in 1 .. Len(u), u[k].param = p
        PROVE  at[p] < k /\ k <= at[p] + Len(ss[p])
    <3>1. k <= c
      <4> SUFFICES ASSUME ~ (k <= c) PROVE FALSE
        OBVIOUS
      <4>1. k - c \in 1 .. Len(last) /\ k = c + (k - c)
        BY <1>1, <1>2
      <4>2. u[k].param = 0
        BY <1>1, <1>2, <4>1
      <4>3. QED
        BY <2>1, <2>4, <4>2
    <3>2. k \in 1 .. c
      BY <1>1, <1>2, <3>1
    <3>3. QED
      BY <1>2, <1>3, <2>4, <3>2
  <2>5. QED
    BY <1>2, <1>3, <2>1, <2>2, <2>3, <2>4
<1>5. Blocks(u, ss, at)
  BY <1>1, <1>2, <1>4 DEF Blocks
<1>6. QED
  BY <1>5 DEF u

-------------------------------------------------------------------------------
(* What a call lowers to *)

ArgOps == [p \in DOMAIN args |-> Ops(args[p], p)]

\* The operations of a parameter are in order, of what is bound to it.
LEMMA OpsAre ==
  ASSUME CallOk, NEW p \in DOMAIN Params, NEW e \in Bindable(p), Fits(e, p)
  PROVE  /\ Ops(e, p) \in Seq(OpRecords)
         /\ \A n \in 1 .. Len(Ops(e, p)) : Ops(e, p)[n].param = p
         /\ e \in Displays => /\ Len(Ops(e, p)) = Len(e.parts)
                              /\ \A n \in 1 .. Len(e.parts) :
                                   Ops(e, p)[n].from = << e.parts[n].item, e.parts[n].elem >>
         /\ e \in ItemExprs => /\ Len(Ops(e, p)) = 1
                               /\ Ops(e, p)[1].from = << e.item, e.elem >>
         /\ e = Default(p) => /\ Len(Ops(e, p)) = 1
                              /\ Ops(e, p)[1].from =
                                   IF call.shadowed THEN << -1, p >> ELSE << 0, p >>
<1>1. Ops(e, p) \in Seq(OpRecords)
  <2>1. Ops(e, p) \in Seq(GoodOps) /\ GoodOps \subseteq OpRecords
    BY OpsConvert DEF GoodOps
  <2>2. QED
    BY <2>1, SeqWidens
<1>2. \A x, whole : Op(x, p, whole).param = p
  BY DEF Op
<1>3. \A x \in ItemExprs : \A whole : Op(x, p, whole).from = << x.item, x.elem >>
  BY DEF Op, ItemExprs, Exprs
<1>4. CASE e \in Displays
  <2>1. /\ e.sort \in {"list", "dict"} /\ e.parts \in Seq(ItemExprs)
        /\ e \notin ItemExprs /\ e # Default(p)
    BY <1>4 DEF Displays, ItemExprs, Exprs, Default
  <2> DEFINE parts == e.parts
             op(n) == Op(parts[n], p, FALSE)
  <2>2. Ops(e, p) = [n \in DOMAIN parts |-> op(n)]
    BY <2>1 DEF Ops
  <2>3. DOMAIN parts = 1 .. Len(parts) /\ Len(parts) \in Nat
        /\ \A n \in 1 .. Len(parts) : parts[n] \in ItemExprs
    BY <2>1
  <2>4. \A n \in 1 .. Len(parts) :
          op(n).param = p /\ op(n).from = << parts[n].item, parts[n].elem >>
    BY <1>2, <1>3, <2>3
  <2> HIDE DEF parts, op
  <2>5. Len(Ops(e, p)) = Len(parts) /\ \A n \in 1 .. Len(parts) : Ops(e, p)[n] = op(n)
    BY <2>2, <2>3
  <2>6. QED
    BY <1>1, <2>1, <2>4, <2>5 DEF parts
<1>5. CASE e \notin Displays
  <2>1. e \in ItemExprs \cup {Default(p)}
    BY <1>5 DEF Bindable
  <2>2. e.sort \notin {"list", "dict"}
    BY <2>1 DEF ItemExprs, Exprs, Default
  <2> DEFINE o == Op(e, p, TRUE)
  <2>3. Ops(e, p) = << o >>
    BY <2>2 DEF Ops
  <2>4. o.param = p /\ (e \in ItemExprs => o.from = << e.item, e.elem >>)
    BY <1>2, <1>3
  <2>5. e = Default(p) => o.from = IF call.shadowed THEN << -1, p >> ELSE << 0, p >>
    BY DEF Op, Default
  <2> HIDE DEF o
  <2>6. Len(<< o >>) = 1 /\ << o >>[1] = o /\ \A n \in 1 .. 1 : n = 1
    OBVIOUS
  <2>7. QED
    BY <1>1, <1>5, <2>3, <2>4, <2>5, <2>6
<1>6. QED
  BY <1>4, <1>5

\* What is evaluated besides the arguments is no parameter's.
LEMMA OthersAreNone ==
  ASSUME CallOk
  PROVE  NoParameters(Callee) /\ NoParameters(FieldDefaults) /\ NoParameters(<< >>)
<1>1. NoParameters(<< >>)
  BY DEF NoParameters
<1>2. NoParameters(Callee)
  <2> DEFINE o == [from |-> << 0, 0 >>, param |-> 0, rep |-> "none"]
  <2>1. o \in OpRecords /\ o.param = 0
    BY TypesAssumption DEF OpRecords
  <2>2. Callee = << o >>
    BY DEF Callee
  <2> HIDE DEF o
  <2>3. QED
    BY <2>1, <2>2 DEF NoParameters
<1>3. NoParameters(FieldDefaults)
  <2> DEFINE having == InOrder({p \in DOMAIN Params : Params[p].default # "none"})
             op(n) == [Op(Default(having[n]), having[n], TRUE) EXCEPT !.param = 0]
  <2>1. FieldDefaults \in Seq(OpRecords)
    <3>1. FieldDefaults \in Seq(GoodOps) /\ GoodOps \subseteq OpRecords
      BY FieldDefaultsConvert DEF GoodOps
    <3>2. QED
      BY <3>1, SeqWidens
  <2>2. FieldDefaults = [n \in DOMAIN having |-> op(n)]
    BY DEF FieldDefaults
  <2>3. \A n : op(n).param = 0
    BY DEF Op
  <2> HIDE DEF having, op
  <2>4. \A n \in DOMAIN FieldDefaults : FieldDefaults[n].param = 0
    BY <2>2, <2>3
  <2>5. QED
    BY <2>1, <2>4 DEF NoParameters
<1>4. QED
  BY <1>1, <1>2, <1>3

LEMMA LoweredBlocks ==
  ASSUME CallOk, args = [p \in DOMAIN Params |-> args[p]],
         \A p \in DOMAIN Params : args[p] \in Bindable(p) /\ Fits(args[p], p)
  PROVE  \E at : Blocks(Lowered, ArgOps, at)
<1> DEFINE first == IF call.callee \in CalleeFirst THEN Callee ELSE << >>
           stores == IF call.callee = "dataclass" THEN FieldDefaults ELSE << >>
           last == IF call.callee \in CalleeLast THEN Callee ELSE << >>
           ops == ArgOps
<1>1. Len(Params) \in Nat /\ DOMAIN Params = 1 .. Len(Params) /\ DOMAIN args = DOMAIN Params
  BY ParamsListed
<1>2. \A p \in 1 .. Len(Params) :
        ops[p] \in Seq(OpRecords) /\ \A n \in 1 .. Len(ops[p]) : ops[p][n].param = p
  BY <1>1, OpsAre DEF ArgOps
<1>3. ops \in Seq(Seq(OpRecords)) /\ Len(ops) = Len(Params)
  <2>1. ops = [p \in 1 .. Len(Params) |-> ops[p]]
    BY <1>1 DEF ArgOps
  <2> HIDE DEF ops
  <2>2. QED
    BY <1>1, <1>2, <2>1
<1>4. NoParameters(first) /\ NoParameters(stores) /\ NoParameters(last)
  BY OthersAreNone
<1>5. Lowered = first \o stores \o FlattenSeq(ops) \o last
  BY DEF Lowered, ArgOps
<1> HIDE DEF first, stores, last, ops
<1>6. PICK a : Blocks(FlattenSeq(ops), ops, a)
  BY <1>2, <1>3, BlocksFlatten
<1>7. PICK b : Blocks(stores \o FlattenSeq(ops), ops, b)
  BY <1>4, <1>6, BlocksAfter
<1>8. PICK c : Blocks(first \o (stores \o FlattenSeq(ops)), ops, c)
  BY <1>4, <1>7, BlocksAfter
<1>9. Blocks((first \o (stores \o FlattenSeq(ops))) \o last, ops, c)
  BY <1>4, <1>8, BlocksFirst
<1>10. Lowered = (first \o (stores \o FlattenSeq(ops))) \o last
  <2> DEFINE u == FlattenSeq(ops)
  <2>1. u \in Seq(OpRecords) /\ first \in Seq(OpRecords) /\ stores \in Seq(OpRecords)
    BY <1>4, <1>6 DEF Blocks, NoParameters
  <2> HIDE DEF u
  <2>2. (first \o stores) \o u = first \o (stores \o u)
    BY <2>1, SMTT(30)
  <2>3. QED
    BY <1>5, <2>2 DEF u
<1>11. QED
  BY <1>9, <1>10 DEF ops

-------------------------------------------------------------------------------
(* The parameters' values while the code runs *)

\* How many of the len operations that follow the first at are among the first m.
Reached(at, len, m) == IF m <= at THEN 0 ELSE IF m - at <= len THEN m - at ELSE len

\* The values are of the first k operations.
Holds(f, ops, k) == Len(f) = k /\ \A n \in 1 .. k : f[n].from = ops[n].from

LEMMA HoldsMore ==
  ASSUME NEW low, NEW ss, NEW at, Blocks(low, ss, at), NEW m \in Nat, m < Len(low),
         NEW p \in 1 .. Len(ss), NEW S, NEW f \in Seq(S), NEW v \in S,
         Holds(f, ss[p], Reached(at[p], Len(ss[p]), m)), v.from = low[m + 1].from
  PROVE  Holds(IF low[m + 1].param = p THEN Append(f, v) ELSE f,
               ss[p], Reached(at[p], Len(ss[p]), m + 1))
<1> DEFINE a == at[p]
           s == ss[p]
           c == Len(s)
           op == low[m + 1]
           g == IF op.param = p THEN Append(f, v) ELSE f
<1>1. /\ low \in Seq(OpRecords) /\ Len(low) \in Nat /\ s \in Seq(OpRecords) /\ c \in Nat
      /\ a \in Nat /\ a + c <= Len(low)
      /\ \A n \in 1 .. c : low[a + n] = s[n] /\ s[n].param = p
      /\ \A k \in 1 .. Len(low) : low[k].param = p => a < k /\ k <= a + c
  BY DEF Blocks
<1>2. m + 1 \in 1 .. Len(low)
  BY <1>1
<1>3. Holds(f, s, Reached(a, c, m)) /\ v.from = op.from
  OBVIOUS
<1>4. op.param = p => a < m + 1 /\ m + 1 <= a + c
  BY <1>1, <1>2
<1>5. a < m + 1 /\ m + 1 <= a + c => op = s[m + 1 - a] /\ op.param = p
  <2> SUFFICES ASSUME a < m + 1, m + 1 <= a + c PROVE op = s[m + 1 - a] /\ op.param = p
    OBVIOUS
  <2>1. m + 1 - a \in 1 .. c /\ a + (m + 1 - a) = m + 1
    BY <1>1
  <2>2. QED
    BY <1>1, <2>1
<1> HIDE DEF a, s, c, op
<1>6. CASE op.param = p
  <2>1. Reached(a, c, m) = m - a /\ Reached(a, c, m + 1) = m - a + 1 /\ m - a \in Nat
        /\ m + 1 - a = m - a + 1
    BY <1>1, <1>4, <1>6 DEF Reached
  <2>2. Len(f) = m - a /\ \A n \in 1 .. m - a : f[n].from = s[n].from
    BY <1>3, <2>1 DEF Holds
  <2>3. /\ Len(Append(f, v)) = m - a + 1 /\ Append(f, v)[m - a + 1] = v
        /\ \A n \in 1 .. m - a : Append(f, v)[n] = f[n]
    <3>1. /\ Len(Append(f, v)) = Len(f) + 1 /\ Append(f, v)[Len(f) + 1] = v
          /\ \A n \in 1 .. Len(f) : Append(f, v)[n] = f[n]
      OBVIOUS
    <3>2. QED
      BY <2>2, <3>1
  <2>4. v.from = s[m - a + 1].from
    BY <1>3, <1>4, <1>5, <1>6, <2>1
  <2>5. \A n \in 1 .. m - a + 1 : n \in 1 .. m - a \/ n = m - a + 1
    BY <2>1
  <2>6. Holds(Append(f, v), s, m - a + 1)
    BY <2>2, <2>3, <2>4, <2>5 DEF Holds
  <2>7. QED
    BY <1>6, <2>1, <2>6 DEF a, s, c, op
<1>7. CASE op.param # p
  <2>1. ~ (a < m + 1 /\ m + 1 <= a + c)
    BY <1>5, <1>7
  <2>2. Reached(a, c, m + 1) = Reached(a, c, m)
    BY <1>1, <2>1 DEF Reached
  <2>3. QED
    BY <1>3, <1>7, <2>2 DEF a, s, c, op
<1>8. QED
  BY <1>6, <1>7

EvaluatingOk ==
  phase = "evaluate" =>
    \E at, low, m : /\ Blocks(low, ArgOps, at) /\ Pending(code, low, m)
                    /\ \A p \in DOMAIN Params :
                         Holds(frame[p], ArgOps[p], Reached(at[p], Len(ArgOps[p]), m))

EnteredOk ==
  phase = "entered" => \A p \in DOMAIN Params : Holds(frame[p], ArgOps[p], Len(ArgOps[p]))

FrameInv == EvaluatingOk /\ EnteredOk

\* The parameters have their operations once the call is checked.
LEMMA ArgOpsListed ==
  ASSUME CallOk, args = [p \in DOMAIN Params |-> args[p]],
         \A p \in DOMAIN Params : args[p] \in Bindable(p) /\ Fits(args[p], p)
  PROVE  /\ DOMAIN Params = 1 .. Len(ArgOps) /\ DOMAIN ArgOps = DOMAIN Params
         /\ \A p \in DOMAIN Params : /\ ArgOps[p] = Ops(args[p], p)
                                     /\ ArgOps[p] \in Seq(OpRecords) /\ Len(ArgOps[p]) \in Nat
<1>1. Len(Params) \in Nat /\ DOMAIN Params = 1 .. Len(Params) /\ DOMAIN args = DOMAIN Params
  BY ParamsListed
<1>2. DOMAIN ArgOps = DOMAIN Params /\ \A p \in DOMAIN Params : ArgOps[p] = Ops(args[p], p)
  BY <1>1 DEF ArgOps
<1>3. \A p \in DOMAIN Params : Ops(args[p], p) \in Seq(OpRecords)
  BY OpsAre
<1>4. ArgOps = [p \in 1 .. Len(Params) |-> ArgOps[p]]
  BY <1>1 DEF ArgOps
<1>5. ArgOps \in Seq(Seq(OpRecords)) /\ Len(ArgOps) = Len(Params)
  BY <1>1, <1>2, <1>3, <1>4
<1>6. QED
  BY <1>1, <1>2, <1>3, <1>5

LEMMA ArgOpsChecked ==
  ASSUME BindInv, ResultInv, phase \in {"evaluate", "entered"}
  PROVE  /\ CallOk /\ args = [p \in DOMAIN Params |-> args[p]]
         /\ \A p \in DOMAIN Params : args[p] \in Bindable(p) /\ Fits(args[p], p)
BY DEF BindInv, ResultInv, FitsOk

LEMMA OpsKept ==
  ASSUME call' = call, args' = args
  PROVE  ArgOps' = ArgOps /\ Params' = Params
<1>1. Params' = Params
  BY CallKept
<1>2. \A e, p : Ops(e, p)' = Ops(e, p)
  BY <1>1 DEF Ops, Op, TypeOf
<1>3. QED
  BY <1>1, <1>2 DEF ArgOps

LEMMA FrameCheckTypes ==
  ASSUME BindInv, CheckTypes PROVE FrameInv'
<1>1. call' = call /\ args' = args
  BY DEF CheckTypes
<1>2. CASE phase' = "mistyped"
  BY <1>2 DEF FrameInv, EvaluatingOk, EnteredOk
<1>3. CASE phase' = "evaluate" /\ code' = Lowered /\ frame' = [p \in DOMAIN Params |-> << >>]
           /\ \A p \in DOMAIN args : Fits(args[p], p)
  <2>1. /\ CallOk /\ args = [p \in DOMAIN Params |-> args[p]]
        /\ \A p \in DOMAIN Params : args[p] \in Bindable(p)
    BY DEF BindInv, ArgsOk, CheckTypes
  <2>2. \A p \in DOMAIN Params : Fits(args[p], p)
    BY <1>3, <2>1
  <2>3. PICK low, at : low = Lowered /\ Blocks(low, ArgOps, at)
    BY <2>1, <2>2, LoweredBlocks
  <2>4. low \in Seq(OpRecords) /\ Len(low) \in Nat /\ \A p \in 1 .. Len(ArgOps) : at[p] \in Nat
    <3>1. low \in Seq(OpRecords)
      BY <2>3, Zenon DEF Blocks
    <3>2. \A p \in 1 .. Len(ArgOps) : at[p] \in Nat
      BY <2>3, Zenon DEF Blocks
    <3>3. QED
      BY <3>1, <3>2
  <2>5. Pending(low, low, 0)
    BY <2>4 DEF Pending
  <2>6. Pending(code, low, 0)'
    BY <1>3, <2>3, <2>5 DEF Pending
  <2>7. Blocks(low, ArgOps, at)'
    BY <1>1, <2>3, OpsKept DEF Blocks
  <2>8. \A p \in DOMAIN Params : at[p] \in Nat
    BY <2>1, <2>2, <2>4, ArgOpsListed
  <2>9. \A p \in DOMAIN Params : frame'[p] = << >> /\ Reached(at[p], Len(ArgOps[p]), 0) = 0
    BY <1>3, <2>8 DEF Reached
  <2>10. \A p \in DOMAIN Params : Holds(frame'[p], ArgOps[p], 0)
    BY <2>9 DEF Holds
  <2>11. \A p \in DOMAIN Params' :
           Holds(frame'[p], ArgOps'[p], Reached(at[p], Len(ArgOps'[p]), 0))
    BY <1>1, <2>9, <2>10, OpsKept
  <2>12. (\A p \in DOMAIN Params :
            Holds(frame[p], ArgOps[p], Reached(at[p], Len(ArgOps[p]), 0)))'
    BY <2>11 DEF Holds, Reached
  <2>13. QED
    BY <1>3, <2>6, <2>7, <2>12 DEF FrameInv, EvaluatingOk, EnteredOk
<1>4. QED
  BY <1>2, <1>3 DEF CheckTypes

LEMMA FrameEvaluate ==
  ASSUME BindInv, ResultInv, FrameInv, Evaluate PROVE FrameInv'
<1> DEFINE S == [from : Int \X Int, rep : Types]
<1>1. /\ CallOk /\ phase = "evaluate" /\ phase' = phase /\ call' = call /\ args' = args
      /\ code # << >> /\ code' = Tail(code)
      /\ args = [p \in DOMAIN Params |-> args[p]]
      /\ \A p \in DOMAIN Params : args[p] \in Bindable(p) /\ Fits(args[p], p)
  BY ArgOpsChecked DEF Evaluate
<1>2. PICK at, low, m :
        /\ Blocks(low, ArgOps, at) /\ Pending(code, low, m)
        /\ \A p \in DOMAIN Params : Holds(frame[p], ArgOps[p], Reached(at[p], Len(ArgOps[p]), m))
  BY <1>1 DEF FrameInv, EvaluatingOk
<1>3. /\ code \in Seq(GoodOps) /\ GoodOps \subseteq OpRecords
      /\ low \in Seq(OpRecords) /\ Len(low) \in Nat
  BY <1>1, <1>2 DEF BindInv, CodeOk, GoodOps, Blocks
<1>4. /\ m \in Nat /\ m < Len(low) /\ m + 1 \in 0 .. Len(low) /\ m + 1 \in 1 .. Len(low)
      /\ Head(code) = low[m + 1] /\ Pending(code', low, m + 1)
  <2> DEFINE c == Len(code)
             len == Len(low)
  <2>1. c \in Nat \ {0} /\ c = len - m /\ m \in 0 .. len /\ len \in Nat
    BY <1>1, <1>2, <1>3 DEF Pending
  <2>2. /\ Head(code) = code[1] /\ Len(Tail(code)) = c - 1
        /\ \A n \in 1 .. c - 1 : Tail(code)[n] = code[n + 1]
    BY <1>1, <1>3
  <2>3. \A n \in 1 .. c : code[n] = low[m + n]
    BY <1>2 DEF Pending
  <2> HIDE DEF c, len
  <2>4. /\ m \in Nat /\ m < len /\ m + 1 \in 0 .. len /\ m + 1 \in 1 .. len
        /\ c - 1 = len - (m + 1) /\ 1 \in 1 .. c
        /\ \A n \in 1 .. c - 1 : n + 1 \in 1 .. c /\ m + (n + 1) = m + 1 + n
    BY <2>1
  <2>5. Head(code) = low[m + 1]
    BY <2>2, <2>3, <2>4
  <2>6. \A n \in 1 .. c - 1 : Tail(code)[n] = low[m + 1 + n]
    BY <2>2, <2>3, <2>4
  <2>7. QED
    BY <1>1, <2>2, <2>4, <2>5, <2>6 DEF Pending, len
<1> DEFINE op == low[m + 1]
           v == [from |-> op.from, rep |-> op.rep]
<1>5. op \in OpRecords /\ v \in S /\ v.from = op.from
  <2>1. op \in OpRecords
    BY <1>3, <1>4
  <2>2. QED
    BY <2>1 DEF OpRecords
<1>6. /\ frame = [p \in DOMAIN Params |-> frame[p]]
      /\ \A p \in DOMAIN Params : frame[p] \in Seq(S)
  <2>1. /\ frame = [p \in DOMAIN Params |-> frame[p]]
        /\ \A p \in DOMAIN Params : frame[p] \in Seq(GoodValues(p))
    BY <1>1 DEF BindInv, FrameOk
  <2>2. \A p \in DOMAIN Params : GoodValues(p) \subseteq S
    BY DEF GoodValues
  <2> HIDE DEF S
  <2>3. QED
    BY <2>1, <2>2, SeqWidens
<1>7. frame' = IF op.param = 0 THEN frame ELSE [frame EXCEPT ![op.param] = Append(@, v)]
  BY <1>4 DEF Evaluate
<1>8. Len(Params) \in Nat /\ DOMAIN Params = 1 .. Len(Params)
      /\ DOMAIN Params = 1 .. Len(ArgOps)
  BY <1>1, ParamsListed, ArgOpsListed
<1> HIDE DEF S, v, op
<1>9. ASSUME NEW p \in DOMAIN Params
      PROVE  frame'[p] = IF op.param = p THEN Append(frame[p], v) ELSE frame[p]
  <2>1. p # 0
    BY <1>8
  <2>2. CASE op.param = 0
    BY <1>7, <2>1, <2>2
  <2>3. CASE op.param # 0
    BY <1>6, <1>7, <2>3
  <2>4. QED
    BY <2>2, <2>3
<1>10. ASSUME NEW p \in DOMAIN Params
       PROVE  Holds(frame'[p], ArgOps[p], Reached(at[p], Len(ArgOps[p]), m + 1))
  <2>1. frame[p] \in Seq(S) /\ p \in 1 .. Len(ArgOps)
    BY <1>6, <1>8
  <2>2. Holds(frame[p], ArgOps[p], Reached(at[p], Len(ArgOps[p]), m))
    BY <1>2
  <2>3. v.from = low[m + 1].from
    BY <1>5 DEF op
  <2>4. Holds(IF low[m + 1].param = p THEN Append(frame[p], v) ELSE frame[p],
              ArgOps[p], Reached(at[p], Len(ArgOps[p]), m + 1))
    BY <1>2, <1>4, <1>5, <2>1, <2>2, <2>3, HoldsMore
  <2>5. QED
    BY <1>9, <2>4 DEF op
<1>11. PICK k : k = m + 1
  OBVIOUS
<1>12. Blocks(low, ArgOps, at)' /\ Pending(code, low, k)'
  BY <1>1, <1>2, <1>4, <1>11, OpsKept DEF Blocks, Pending
<1>13. \A p \in DOMAIN Params' :
         Holds(frame'[p], ArgOps'[p], Reached(at[p], Len(ArgOps'[p]), k))
  BY <1>1, <1>10, <1>11, OpsKept
<1>14. (\A p \in DOMAIN Params :
          Holds(frame[p], ArgOps[p], Reached(at[p], Len(ArgOps[p]), k)))'
  BY <1>13 DEF Holds, Reached
<1>15. QED
  BY <1>1, <1>12, <1>14 DEF FrameInv, EvaluatingOk, EnteredOk

LEMMA FrameEnter ==
  ASSUME BindInv, ResultInv, FrameInv, Enter PROVE FrameInv'
<1>1. /\ CallOk /\ phase = "evaluate" /\ phase' = "entered" /\ call' = call /\ args' = args
      /\ code = << >> /\ frame' = frame
      /\ args = [p \in DOMAIN Params |-> args[p]]
      /\ \A p \in DOMAIN Params : args[p] \in Bindable(p) /\ Fits(args[p], p)
  BY ArgOpsChecked DEF Enter
<1>2. PICK at, low, m :
        /\ Blocks(low, ArgOps, at) /\ Pending(code, low, m)
        /\ \A p \in DOMAIN Params : Holds(frame[p], ArgOps[p], Reached(at[p], Len(ArgOps[p]), m))
  BY <1>1 DEF FrameInv, EvaluatingOk
<1>3. Len(low) \in Nat /\ m = Len(low)
  <2>1. Len(low) \in Nat
    BY <1>2 DEF Blocks
  <2>2. m \in 0 .. Len(low) /\ 0 = Len(low) - m
    BY <1>1, <1>2 DEF Pending
  <2>3. QED
    BY <2>1, <2>2
<1>4. ASSUME NEW p \in DOMAIN Params PROVE Holds(frame[p], ArgOps[p], Len(ArgOps[p]))
  <2>1. /\ at[p] \in Nat /\ at[p] + Len(ArgOps[p]) <= m /\ Len(ArgOps[p]) \in Nat /\ m \in Nat
    BY <1>1, <1>2, <1>3, ArgOpsListed DEF Blocks
  <2>2. Reached(at[p], Len(ArgOps[p]), m) = Len(ArgOps[p])
    BY <2>1 DEF Reached
  <2>3. QED
    BY <1>2, <2>2
<1>5. \A p \in DOMAIN Params' : Holds(frame'[p], ArgOps'[p], Len(ArgOps'[p]))
  BY <1>1, <1>4, OpsKept
<1>6. (\A p \in DOMAIN Params : Holds(frame[p], ArgOps[p], Len(ArgOps[p])))'
  BY <1>5 DEF Holds
<1>7. QED
  BY <1>1, <1>6 DEF FrameInv, EvaluatingOk, EnteredOk

LEMMA FrameInvHolds == Spec => []FrameInv
<1>1. Init => FrameInv
  BY DEF Init, FrameInv, EvaluatingOk, EnteredOk
<1>2. BindInv /\ ResultInv /\ FrameInv /\ [Next]_vars => FrameInv'
  <2> SUFFICES ASSUME BindInv, ResultInv, FrameInv, [Next]_vars PROVE FrameInv'
    OBVIOUS
  <2>1. CASE phase' \notin {"evaluate", "entered"}
    BY <2>1 DEF FrameInv, EvaluatingOk, EnteredOk
  <2>2. CASE CheckTypes
    BY <2>2, FrameCheckTypes
  <2>3. CASE Evaluate
    BY <2>3, FrameEvaluate
  <2>4. CASE Enter
    BY <2>4, FrameEnter
  <2>5. CASE UNCHANGED vars
    <3>1. /\ call' = call /\ phase' = phase /\ args' = args /\ code' = code /\ frame' = frame
      BY <2>5 DEF vars
    <3>2. ArgOps' = ArgOps /\ Params' = Params
      BY <3>1, OpsKept
    <3>3. EvaluatingOk'
      <4>1. CASE phase # "evaluate"
        BY <3>1, <4>1 DEF EvaluatingOk
      <4>2. CASE phase = "evaluate"
        <5>1. PICK at, low, m :
                /\ Blocks(low, ArgOps, at) /\ Pending(code, low, m)
                /\ \A p \in DOMAIN Params :
                     Holds(frame[p], ArgOps[p], Reached(at[p], Len(ArgOps[p]), m))
          BY <4>2 DEF FrameInv, EvaluatingOk
        <5>2. Blocks(low, ArgOps, at)' /\ Pending(code, low, m)'
          BY <3>1, <3>2, <5>1 DEF Blocks, Pending
        <5>3. (\A p \in DOMAIN Params :
                 Holds(frame[p], ArgOps[p], Reached(at[p], Len(ArgOps[p]), m)))'
          BY <3>1, <3>2, <5>1 DEF Holds, Reached
        <5>4. QED
          BY <5>2, <5>3 DEF EvaluatingOk
      <4>3. QED
        BY <4>1, <4>2
    <3>4. EnteredOk'
      BY <3>1, <3>2 DEF FrameInv, EnteredOk, Holds
    <3>5. QED
      BY <3>3, <3>4 DEF FrameInv
  <2>6. ASSUME \/ Dispatch \/ ExpandStar \/ StarsDone \/ BindPositional \/ PositionalsDone
               \/ BindKeyword \/ Materialize \/ FillDefaults
        PROVE  phase' \notin {"evaluate", "entered"}
    BY <2>6 DEF Dispatch, ExpandStar, StarsDone, BindPositional, PositionalsDone, BindKeyword,
                Materialize, FillDefaults, Reject
  <2>7. QED
    BY <2>1, <2>2, <2>3, <2>4, <2>5, <2>6 DEF Next
<1>3. QED
  BY <1>1, <1>2, BindInvHolds, ResultInvHolds, PTL DEF Spec

-------------------------------------------------------------------------------
(* The order of the values *)

Value(e) == << e.item, e.elem >>

\* The compiler takes the values in the order they are written unless a plain
\* argument follows a starred one.
LEMMA TakenAsWritten ==
  ASSUME CallOk, NEW vals, Lists(vals, ItemValues, Taken)
  PROVE  vals = PyExprs <=> ~PositionalAfterStar
<1>1. Lists(PyExprs, ItemValues, Written)
  BY PyListed
<1>2. \A e \in ItemValues :
        /\ e \in ItemExprs /\ e.item \in Places /\ e.item \in Nat \ {0} /\ e.elem \in Nat
        /\ \/ call.items[e.item].form = "pos" /\ e.elem = 0
           \/ call.items[e.item].form = "star" /\ e.elem \in 1 .. call.items[e.item].len
  BY ExprFields DEF ItemValues
<1>3. ASSUME ~PositionalAfterStar PROVE vals = PyExprs
  <2>1. ASSUME NEW e \in ItemValues, NEW f \in ItemValues, << e, f >> \in Taken
        PROVE  << e, f >> \in Written
    <3>1. e \in ItemExprs /\ f \in ItemExprs
      BY <1>2
    <3>2. \/ e.elem = 0 /\ f.elem > 0
          \/ (e.elem = 0 <=> f.elem = 0) /\ Before(e, f)
      BY <2>1 DEF Taken
    <3>3. CASE e.elem = 0 /\ f.elem > 0
      <4>1. call.items[e.item].form = "pos"
        BY <1>2, <3>3
      <4>2. call.items[f.item].form = "star" /\ f.elem \in 1 .. call.items[f.item].len
        BY <1>2, <3>3
      <4>3. call.items[f.item].len > 0
        <5>1. call.items[f.item].len \in Int
          BY <1>2, <3>1, ExprFields DEF Arguments
        <5>2. QED
          BY <4>2, <5>1
      <4>4. ~ (f.item < e.item)
        BY <1>2, <1>3, <4>1, <4>2, <4>3 DEF PositionalAfterStar, Places
      <4>5. e.item # f.item
        BY <4>1, <4>2
      <4>6. e.item < f.item
        BY <1>2, <4>4, <4>5
      <4>7. QED
        BY <3>1, <4>6 DEF Written, Before
    <3>4. CASE Before(e, f)
      BY <3>1, <3>4 DEF Written
    <3>5. QED
      BY <3>2, <3>3, <3>4
  <2>2. vals \in Seq(ItemValues) /\ \A n \in DOMAIN vals : vals[n] \in ItemValues
    BY SameLength DEF Lists
  <2>3. Lists(vals, ItemValues, Written)
    BY <2>1, <2>2 DEF Lists
  <2>4. QED
    BY <1>1, <2>3, ValuesAsymmetric, ListsOnce
<1>4. ASSUME PositionalAfterStar, vals = PyExprs PROVE FALSE
  <2>1. PICK i, j \in DOMAIN call.items :
          /\ i < j /\ call.items[i].form = "star" /\ call.items[i].len > 0
          /\ call.items[j].form = "pos"
    BY <1>4 DEF PositionalAfterStar
  <2>2. i \in Places /\ j \in Places /\ call.items[i].len \in Int
    <3>1. call.items[i] \in Arguments
      BY <2>1 DEF CallOk
    <3>2. QED
      BY <2>1, <3>1 DEF Places, Arguments
  <2> DEFINE e == Element(i, 1)
             f == Element(j, 0)
  <2>3. /\ e \in ItemExprs /\ e.item = i /\ e.elem = 1 /\ i \in Nat
        /\ f \in ItemExprs /\ f.item = j /\ f.elem = 0 /\ j \in Nat
    BY <2>2, ElementIn
  <2> HIDE DEF e, f
  <2>4. e \in ItemValues /\ f \in ItemValues
    BY <2>1, <2>2, <2>3 DEF ItemValues
  <2>5. PICK a \in DOMAIN vals : vals[a] = e
    BY <2>4 DEF Lists
  <2>6. PICK b \in DOMAIN vals : vals[b] = f
    BY <2>4 DEF Lists
  <2>7. a # b /\ a \in Nat /\ b \in Nat
    BY <2>3, <2>5, <2>6, SameLength
  <2>8. CASE a < b
    <3>1. << e, f >> \in Taken
      BY <2>5, <2>6, <2>8 DEF Lists
    <3>2. QED
      BY <2>3, <3>1 DEF Taken
  <2>9. CASE b < a
    <3>1. << f, e >> \in Written
      BY <1>1, <1>4, <2>5, <2>6, <2>9 DEF Lists
    <3>2. QED
      BY <2>1, <2>3, <3>1 DEF Written, Before
  <2>10. QED
    BY <2>7, <2>8, <2>9
<1>5. QED
  BY <1>3, <1>4

LEMMA ValuesCompared ==
  ASSUME CallOk, NEW vals, Lists(vals, ItemValues, Taken)
  PROVE  /\ vals = PyExprs <=> \A n \in DOMAIN vals : Value(vals[n]) = PyValues[n]
         /\ Len(PyValues) = Len(vals) /\ PyValues \in Seq(Nat \X Nat)
         /\ \A n \in DOMAIN vals : /\ Value(vals[n]) \in Nat \X Nat
                                   /\ PyValues[n] \in Nat \X Nat /\ PyValues[n][1] # 0
<1>1. /\ Len(vals) = Len(PyValues) /\ Len(vals) \in Nat /\ DOMAIN vals = 1 .. Len(vals)
      /\ vals \in Seq(ItemExprs) /\ \A n \in DOMAIN vals : vals[n] \in ItemExprs
  BY SameLength
<1>2. /\ PyExprs \in Seq(ItemExprs) /\ PyValues \in Seq(Nat \X Nat)
      /\ Len(PyExprs) = Len(PyValues)
      /\ \A n \in DOMAIN PyValues : PyValues[n] = Value(PyExprs[n])
  <2>1. PyExprs \in Seq(ItemValues) /\ ItemValues \subseteq ItemExprs
    BY PyListed DEF Lists, ItemValues
  <2>2. PyExprs \in Seq(ItemExprs)
    BY <2>1, SeqWidens
  <2>3. QED
    BY <2>2, PyListed DEF Value
<1> DEFINE s == PyExprs
           t == PyValues
<1> HIDE DEF s, t
<1>3. DOMAIN t = DOMAIN vals /\ \A n \in DOMAIN vals : s[n] \in ItemExprs /\ t[n] = Value(s[n])
  BY <1>1, <1>2 DEF s, t
<1>4. \A e \in ItemExprs : Value(e) \in Nat \X Nat /\ Value(e)[1] # 0
  BY ExprFields DEF Value
<1>5. \A e, f \in ItemExprs : Value(e) = Value(f) => e = f
  <2>1. TAKE e, f \in ItemExprs
  <2>2. e = Element(e.item, e.elem) /\ f = Element(f.item, f.elem)
    BY ExprFields
  <2>3. QED
    BY <2>2 DEF Value
<1>6. ASSUME \A n \in DOMAIN vals : Value(vals[n]) = t[n] PROVE vals = s
  <2>1. \A n \in 1 .. Len(vals) : vals[n] = s[n]
    BY <1>1, <1>3, <1>5, <1>6
  <2>2. s \in Seq(ItemExprs) /\ Len(s) = Len(vals)
    BY <1>1, <1>2 DEF s
  <2>3. QED
    BY <1>1, <2>1, <2>2, SeqEqual
<1>7. QED
  BY <1>1, <1>2, <1>3, <1>4, <1>6 DEF s, t

-------------------------------------------------------------------------------
(* What each kind of parameter receives, here and in Python *)

LEMMA ReceivedIs ==
  ASSUME BindInv, ResultInv, FrameInv, phase = "entered", NEW p \in DOMAIN Params
  PROVE  /\ DOMAIN frame = DOMAIN Params /\ args[p] \in Bindable(p)
         /\ args[p] \in Displays =>
              Received[p] = [n \in 1 .. Len(args[p].parts) |-> Value(args[p].parts[n])]
         /\ args[p] \in ItemExprs => Received[p] = << Value(args[p]) >>
         /\ args[p] = Default(p) =>
              Received[p] = << IF call.shadowed THEN << -1, p >> ELSE << 0, p >> >>
<1> DEFINE o == ArgOps[p]
           f == frame[p]
           e == args[p]
<1>1. /\ CallOk /\ args = [q \in DOMAIN Params |-> args[q]]
      /\ \A q \in DOMAIN Params : args[q] \in Bindable(q) /\ Fits(args[q], q)
  BY ArgOpsChecked
<1>2. DOMAIN frame = DOMAIN Params /\ f \in Seq(GoodValues(p))
  BY DEF BindInv, FrameOk
<1>3. o = Ops(e, p) /\ o \in Seq(OpRecords) /\ Len(o) \in Nat
  BY <1>1, ArgOpsListed
<1>4. Len(f) = Len(o) /\ \A n \in 1 .. Len(o) : f[n].from = o[n].from
  BY DEF FrameInv, EnteredOk, Holds
<1>5. Received[p] = [n \in DOMAIN f |-> f[n].from] /\ DOMAIN f = 1 .. Len(f)
  BY <1>2 DEF Received
<1> HIDE DEF f
<1>6. Received[p] = [n \in 1 .. Len(o) |-> o[n].from]
  BY <1>4, <1>5
<1>7. /\ e \in Displays => /\ Len(o) = Len(e.parts)
                           /\ \A n \in 1 .. Len(e.parts) : o[n].from = Value(e.parts[n])
      /\ e \in ItemExprs => Len(o) = 1 /\ o[1].from = Value(e)
      /\ e = Default(p) => /\ Len(o) = 1
                           /\ o[1].from = IF call.shadowed THEN << -1, p >> ELSE << 0, p >>
  BY <1>1, <1>3, OpsAre DEF Value
<1> HIDE DEF o
<1>8. ASSUME NEW x, Len(o) = 1, o[1].from = x PROVE Received[p] = << x >>
  <2>1. Received[p] = [n \in 1 .. 1 |-> o[n].from] /\ \A n \in 1 .. 1 : n = 1
    BY <1>6, <1>8
  <2>2. [n \in 1 .. 1 |-> o[n].from] = [n \in 1 .. 1 |-> x]
    BY <1>8
  <2>3. << x >> = [n \in 1 .. 1 |-> x]
    OBVIOUS
  <2>4. QED
    BY <2>1, <2>2, <2>3
<1> HIDE DEF e
<1>9. e \in Displays => Received[p] = [n \in 1 .. Len(e.parts) |-> Value(e.parts[n])]
  BY <1>6, <1>7
<1>10. QED
  BY <1>1, <1>2, <1>7, <1>8, <1>9 DEF e

\* Python's values of a parameter, by what gives them.
LEMMA PyFrameIs ==
  ASSUME CallOk, ~OtherConstructor, NEW vals, Lists(vals, ItemValues, Taken),
         NEW p \in DOMAIN Params
  PROVE  /\ DOMAIN PyFrame = DOMAIN Params
         /\ Params[p].kind = "var" =>
              PyFrame[p] = SubSeq(PyValues, Len(Positional) + 1, Len(PyValues))
         /\ Params[p].kind = "kw" => PyFrame[p] = [n \in DOMAIN Others |-> << Others[n], 0 >>]
         /\ \A n \in DOMAIN Positional : Positional[n] = p /\ n <= Len(vals) =>
              PyFrame[p] = << PyValues[n] >>
         /\ ~Ranked(vals, p) /\ Params[p].kind \notin Aggregates =>
              /\ \A i : Naming(p) = {i} => PyFrame[p] = << << i, 0 >> >>
              /\ Naming(p) = {} => PyFrame[p] = << << 0, p >> >>
<1>1. PyParams = Params /\ PyPositional = Positional
  BY RegularParams
<1>2. /\ \A n : n \in Rank(p) <=> n \in DOMAIN Positional /\ Positional[n] = p /\ n <= Len(vals)
      /\ Rank(p) # {} <=> Ranked(vals, p)
  BY RankIs
<1>3. \A n \in DOMAIN Positional : Positional[n] = p => Params[p].kind \notin Aggregates
  BY PositionalListed DEF Ordinary, Aggregates
<1>4. Params[p].kind \in Aggregates => Rank(p) = {} /\ Naming(p) = {}
  <2> SUFFICES ASSUME Params[p].kind \in Aggregates PROVE Rank(p) = {} /\ Naming(p) = {}
    OBVIOUS
  <2>1. Rank(p) = {}
    BY <1>2, <1>3
  <2>2. p \notin PyNamed
    BY <1>1 DEF PyNamed, Aggregates
  <2>3. QED
    BY <2>1, <2>2 DEF Naming
<1>5. DOMAIN PyFrame = DOMAIN Params
  BY <1>1 DEF PyFrame
<1>6. PyFrame[p] =
        CASE Params[p].kind = "var" -> SubSeq(PyValues, Len(Positional) + 1, Len(PyValues))
          [] Params[p].kind = "kw" -> [n \in DOMAIN Others |-> << Others[n], 0 >>]
          [] Rank(p) # {} -> << PyValues[CHOOSE n \in Rank(p) : TRUE] >>
          [] Rank(p) = {} /\ Naming(p) # {} -> << << CHOOSE i \in Naming(p) : TRUE, 0 >> >>
          [] OTHER -> << << 0, p >> >>
  BY <1>1 DEF PyFrame
<1>7. Params[p].kind = "var" => PyFrame[p] = SubSeq(PyValues, Len(Positional) + 1, Len(PyValues))
  BY <1>4, <1>6 DEF Aggregates
<1>8. Params[p].kind = "kw" => PyFrame[p] = [n \in DOMAIN Others |-> << Others[n], 0 >>]
  BY <1>4, <1>6 DEF Aggregates
<1>9. ASSUME NEW n \in DOMAIN Positional, Positional[n] = p, n <= Len(vals)
      PROVE  PyFrame[p] = << PyValues[n] >>
  <2>1. n \in Rank(p) /\ Params[p].kind # "var" /\ Params[p].kind # "kw"
    BY <1>2, <1>3, <1>9 DEF Aggregates
  <2>2. \A m \in Rank(p) : m = n
    BY <1>2, <1>9, PositionalListed
  <2>3. (CHOOSE m \in Rank(p) : TRUE) = n
    BY <2>1, <2>2
  <2>4. PyFrame[p] = << PyValues[CHOOSE m \in Rank(p) : TRUE] >>
    BY <1>6, <2>1
  <2>5. QED
    BY <2>3, <2>4
<1>10. ASSUME ~Ranked(vals, p), Params[p].kind \notin Aggregates
       PROVE  /\ \A i : Naming(p) = {i} => PyFrame[p] = << << i, 0 >> >>
              /\ Naming(p) = {} => PyFrame[p] = << << 0, p >> >>
  <2>1. Rank(p) = {} /\ Params[p].kind # "var" /\ Params[p].kind # "kw"
    BY <1>2, <1>10 DEF Aggregates
  <2>2. ASSUME NEW i, Naming(p) = {i} PROVE PyFrame[p] = << << i, 0 >> >>
    <3>1. (CHOOSE j \in Naming(p) : TRUE) = i
      BY <2>2
    <3>2. PyFrame[p] = << << CHOOSE j \in Naming(p) : TRUE, 0 >> >>
      BY <1>6, <2>1, <2>2
    <3>3. QED
      BY <3>1, <3>2
  <2>3. Naming(p) = {} => PyFrame[p] = << << 0, p >> >>
    BY <1>6, <2>1
  <2>4. QED
    BY <2>2, <2>3
<1>11. QED
  BY <1>5, <1>7, <1>8, <1>9, <1>10

\* What **kwargs receives are the keywords that Python gives it, in their order.
LEMMA KeywordsReceived ==
  ASSUME BindInv, ResultInv, FrameInv, phase = "entered", ~OtherConstructor, NEW vals,
         Resolved(args, vals, AllDefault), NEW p \in DOMAIN Params, Params[p].kind = "kw"
  PROVE  Received[p] = PyFrame[p] /\ PyFrame[p] # << << 0, p >> >>
<1> DEFINE s == Others
           u == [n \in DOMAIN Others |-> Item(Others[n])]
           parts == args[p].parts
<1>1. /\ Declared /\ CallOk /\ Lists(vals, ItemValues, Taken)
      /\ KeywordsBound(args, vals, KeywordItems) /\ DisplaysBound(args, vals)
  BY DEF BindInv, ResultInv, Resolved
<1>2. args[p].sort = "dict" /\ Lists(parts, OtherItems, Written)
  BY <1>1 DEF DisplaysBound
<1>3. args[p] \in Displays
  <2>1. args[p] \in Bindable(p)
    BY ReceivedIs
  <2>2. args[p] \notin ItemExprs /\ args[p] # Default(p)
    BY <1>2 DEF ItemExprs, Exprs, Default
  <2>3. QED
    BY <2>1, <2>2 DEF Bindable
<1>4. \A i \in KeywordItems : (\A q \in PlainNamed(i) : Params[q].kind = "posonly")
                                <=> PlainNamed(i) = {}
  BY <1>1 DEF KeywordsBound
<1>5. /\ Len(s) \in Nat /\ DOMAIN s = 1 .. Len(s)
      /\ \A m, n \in DOMAIN s : m < n => s[m] < s[n]
      /\ \A n \in DOMAIN s : s[n] \in KeywordItems /\ PlainNamed(s[n]) = {}
      /\ \A i \in KeywordItems : PlainNamed(i) = {} => \E n \in DOMAIN s : s[n] = i
  BY <1>1, <1>4, OthersListed
<1>6. \A n \in DOMAIN s : s[n] \in Places /\ s[n] \in Nat \ {0}
  BY <1>1, <1>5, ElementIn DEF KeywordItems
<1>7. u = [n \in 1 .. Len(s) |-> Item(s[n])]
  BY <1>5
<1> HIDE DEF s, u, parts
<1>8. DOMAIN u = DOMAIN s /\ \A n \in DOMAIN s : u[n] = Item(s[n])
  BY <1>5, <1>7
<1>9. \A n \in DOMAIN s : /\ u[n] \in OtherItems /\ u[n] \in ItemExprs
                          /\ u[n].item = s[n] /\ u[n].elem = 0 /\ Value(u[n]) = << s[n], 0 >>
  <2>1. TAKE n \in DOMAIN s
  <2>2. /\ Item(s[n]) \in ItemExprs /\ Item(s[n]).item = s[n] /\ Item(s[n]).elem = 0
    BY <1>1, <1>6, ElementIn
  <2>3. QED
    BY <1>5, <1>8, <2>2 DEF OtherItems, Value
<1>10. Lists(u, OtherItems, Written)
  <2>1. u \in Seq(OtherItems)
    <3>1. u \in [1 .. Len(s) -> OtherItems]
      BY <1>5, <1>7, <1>9
    <3>2. QED
      BY <1>5, <3>1
  <2>2. \A e \in OtherItems : \E n \in DOMAIN u : u[n] = e
    <3>1. TAKE e \in OtherItems
    <3>2. e \in ItemExprs /\ e.item \in KeywordItems /\ e.elem = 0 /\ PlainNamed(e.item) = {}
      BY DEF OtherItems
    <3>3. PICK n \in DOMAIN s : s[n] = e.item
      BY <1>5, <3>2
    <3>4. e = Element(e.item, 0) /\ Item(e.item) = Element(e.item, 0)
      BY <1>1, <3>2, ExprFields DEF Item, Element
    <3>5. QED
      BY <1>8, <3>3, <3>4
  <2>3. \A m, n \in DOMAIN u : m < n => << u[m], u[n] >> \in Written
    <3>1. TAKE m, n \in DOMAIN u
    <3>2. m < n => Before(u[m], u[n])
      BY <1>5, <1>8, <1>9 DEF Before
    <3>3. QED
      BY <1>8, <1>9, <3>2 DEF Written
  <2>4. QED
    BY <2>1, <2>2, <2>3 DEF Lists
<1>11. parts = u
  <2>1. Asymmetric(OtherItems, Written)
    BY <1>1, OrdersAsymmetric DEF Asymmetric, OtherItems
  <2>2. QED
    BY <1>2, <1>10, <2>1, ListsOnce
<1>12. Received[p] = [n \in 1 .. Len(parts) |-> Value(parts[n])]
  BY <1>3, ReceivedIs DEF parts
<1>13. Len(u) = Len(s)
  BY <1>5, <1>7
<1>14. Received[p] = [n \in DOMAIN s |-> << s[n], 0 >>]
  BY <1>5, <1>9, <1>11, <1>12, <1>13
<1>15. PyFrame[p] = [n \in DOMAIN s |-> << s[n], 0 >>]
  BY <1>1, PyFrameIs DEF s
<1>16. PyFrame[p] # << << 0, p >> >>
  <2> SUFFICES ASSUME PyFrame[p] = << << 0, p >> >> PROVE FALSE
    OBVIOUS
  <2>1. DOMAIN << << 0, p >> >> = {1} /\ << << 0, p >> >>[1] = << 0, p >>
    OBVIOUS
  <2>2. 1 \in DOMAIN s
    BY <1>15, <2>1
  <2>3. << s[1], 0 >> = << 0, p >>
    BY <1>15, <2>1, <2>2
  <2>4. QED
    BY <1>6, <2>2, <2>3
<1>17. QED
  BY <1>14, <1>15, <1>16

\* What *args receives are the last values, in the order in which they are taken.
LEMMA ValuesReceived ==
  ASSUME BindInv, ResultInv, FrameInv, phase = "entered", ~OtherConstructor, NEW vals,
         Resolved(args, vals, AllDefault), NEW p \in DOMAIN Params, Params[p].kind = "var"
  PROVE  /\ Received[p] = PyFrame[p] <=>
              \A n \in DOMAIN vals : n > Len(Positional) => Value(vals[n]) = PyValues[n]
         /\ PyFrame[p] # << << 0, p >> >>
<1> DEFINE L == Len(Positional)
           c == Len(vals)
           t == PyValues
           parts == args[p].parts
           T == Nat \X Nat
<1>1. /\ CallOk /\ Lists(vals, ItemValues, Taken) /\ DisplaysBound(args, vals)
  BY DEF BindInv, Resolved
<1>2. args[p].sort = "list" /\ Rest(vals, c, parts)
  BY <1>1 DEF DisplaysBound
<1>3. args[p] \in Displays
  <2>1. args[p] \in Bindable(p)
    BY ReceivedIs
  <2>2. args[p] \notin ItemExprs /\ args[p] # Default(p)
    BY <1>2 DEF ItemExprs, Exprs, Default
  <2>3. QED
    BY <2>1, <2>2 DEF Bindable
<1>4. Received[p] = [n \in 1 .. Len(parts) |-> Value(parts[n])]
  BY <1>3, ReceivedIs
<1>5. /\ L \in Nat /\ c \in Nat /\ DOMAIN vals = 1 .. c /\ Len(t) = c /\ t \in Seq(T)
      /\ \A n \in 1 .. c : t[n][1] # 0
  BY <1>1, PositionalListed, SameLength, ValuesCompared
<1>6. Len(parts) = (IF c > L THEN c - L ELSE 0) /\ \A n \in 1 .. Len(parts) : parts[n] = vals[L + n]
  BY <1>2 DEF Rest
<1>7. PyFrame[p] = SubSeq(t, L + 1, c)
  BY <1>1, <1>5, PyFrameIs
<1> HIDE DEF L, c, t, parts, T
<1>8. CASE c <= L
  <2>1. Received[p] = << >>
    <3>1. Len(parts) = 0 /\ 1 .. 0 = {}
      BY <1>5, <1>6, <1>8
    <3>2. QED
      BY <1>4, <3>1
  <2>2. SubSeq(t, L + 1, c) = << >>
    BY <1>5, <1>8, SubSeqEmpty
  <2>3. \A n \in DOMAIN vals : ~ (n > L)
    BY <1>5, <1>8
  <2>4. << >> # << << 0, p >> >>
    OBVIOUS
  <2>5. QED
    BY <1>7, <2>1, <2>2, <2>3, <2>4 DEF L
<1>9. CASE c > L
  <2> DEFINE s == SubSeq(t, L + 1, c)
             d == c - L
  <2>1. d \in Nat /\ d # 0 /\ Len(parts) = d /\ c - (L + 1) + 1 = d
    BY <1>5, <1>6, <1>9
  <2>2. /\ s \in Seq(T) /\ Len(s) = d /\ \A n \in 1 .. d : s[n] = t[L + n]
    <3>1. L + 1 \in 1 .. Len(t) + 1 /\ c \in (L + 1) - 1 .. Len(t) /\ L + 1 <= c
      BY <1>5, <1>9
    <3>2. /\ s \in Seq(T) /\ Len(s) = c - (L + 1) + 1
          /\ \A n \in 1 .. c - (L + 1) + 1 : s[n] = t[L + 1 + n - 1]
      BY <1>5, <3>1, SubSeqProperties
    <3>3. \A n \in 1 .. d : L + 1 + n - 1 = L + n
      BY <1>5, <2>1
    <3>4. QED
      BY <2>1, <3>2, <3>3
  <2> HIDE DEF s
  <2>3. s = [n \in 1 .. d |-> s[n]] /\ DOMAIN s = 1 .. d
    BY <2>1, <2>2
  <2>4. Received[p] = [n \in 1 .. d |-> Value(vals[L + n])]
    BY <1>4, <1>6, <2>1
  <2>5. Received[p] = s <=> \A n \in 1 .. d : Value(vals[L + n]) = t[L + n]
    BY <2>2, <2>3, <2>4
  <2>6. \A n \in DOMAIN vals : n > L => n - L \in 1 .. d /\ L + (n - L) = n
    BY <1>5, <2>1
  <2>7. \A n \in 1 .. d : L + n \in DOMAIN vals /\ L + n > L
    BY <1>5, <2>1
  <2>8. (\A n \in 1 .. d : Value(vals[L + n]) = t[L + n])
          <=> \A n \in DOMAIN vals : n > L => Value(vals[n]) = t[n]
    <3>1. ASSUME \A n \in 1 .. d : Value(vals[L + n]) = t[L + n],
                 NEW n \in DOMAIN vals, n > L
          PROVE  Value(vals[n]) = t[n]
      <4>1. Value(vals[L + (n - L)]) = t[L + (n - L)]
        BY <2>6, <3>1
      <4>2. QED
        BY <2>6, <3>1, <4>1
    <3>2. QED
      BY <2>7, <3>1
  <2>9. s # << << 0, p >> >>
    <3> SUFFICES ASSUME s = << << 0, p >> >> PROVE FALSE
      OBVIOUS
    <3>1. s[1] = << 0, p >> /\ 1 \in 1 .. d /\ L + 1 \in 1 .. c
      BY <1>5, <1>9, <2>1
    <3>2. t[L + 1][1] = 0
      BY <2>2, <3>1
    <3>3. QED
      BY <1>5, <3>1, <3>2
  <2>10. QED
    BY <1>7, <2>5, <2>8, <2>9 DEF s, t, L
<1>10. QED
  BY <1>5, <1>8, <1>9

\* What any other parameter receives.
LEMMA OneReceived ==
  ASSUME BindInv, ResultInv, FrameInv, phase = "entered", ~OtherConstructor, NEW vals,
         Resolved(args, vals, AllDefault), NEW p \in DOMAIN Params,
         Params[p].kind \notin Aggregates
  PROVE  /\ \A n \in DOMAIN Positional : Positional[n] = p /\ n <= Len(vals) =>
              /\ Received[p] = PyFrame[p] <=> Value(vals[n]) = PyValues[n]
              /\ PyFrame[p] # << << 0, p >> >>
         /\ ~Ranked(vals, p) =>
              \/ Received[p] = PyFrame[p] /\ PyFrame[p] # << << 0, p >> >>
              \/ /\ PyFrame[p] = << << 0, p >> >>
                 /\ Received[p] = << IF call.shadowed THEN << -1, p >> ELSE << 0, p >> >>
<1>1. /\ Declared /\ CallOk /\ Lists(vals, ItemValues, Taken) /\ RanksBound(args, vals)
      /\ KeywordsBound(args, vals, KeywordItems)
      /\ OthersUnset(args, vals, KeywordItems, AllDefault)
  BY DEF BindInv, ResultInv, Resolved
<1>2. \A x, y : << x >> = << y >> <=> x = y
  OBVIOUS
<1>3. ASSUME NEW n \in DOMAIN Positional, Positional[n] = p, n <= Len(vals)
      PROVE  /\ Received[p] = PyFrame[p] <=> Value(vals[n]) = PyValues[n]
             /\ PyFrame[p] # << << 0, p >> >>
  <2>1. args[p] = vals[n] /\ n \in DOMAIN vals
    BY <1>1, <1>3, SameLength, PositionalListed DEF RanksBound
  <2>2. vals[n] \in ItemExprs
    BY <1>1, <2>1, SameLength DEF ItemValues
  <2>3. Received[p] = << Value(vals[n]) >>
    BY <2>1, <2>2, ReceivedIs
  <2>4. PyFrame[p] = << PyValues[n] >>
    BY <1>1, <1>3, PyFrameIs
  <2>5. PyValues[n] # << 0, p >>
    <3>1. PyValues[n][1] # 0 /\ << 0, p >>[1] = 0
      BY <1>1, <2>1, ValuesCompared
    <3>2. QED
      BY <3>1
  <2>6. QED
    BY <1>2, <2>3, <2>4, <2>5
<1>4. CASE ~Ranked(vals, p) /\ \E i \in KeywordItems : p \in PlainNamed(i)
  <2>1. PICK i \in KeywordItems : p \in PlainNamed(i)
    BY <1>4
  <2>2. \A j \in KeywordItems : p \in PlainNamed(j) =>
          Params[p].kind # "posonly" /\ args[p] = Item(j)
    BY <1>1, NamedOnce DEF KeywordsBound
  <2>3. \A j : Item(j) = Item(i) => j = i
    BY DEF Item
  <2>4. \A j : j \in Naming(p) <=> j = i
    BY <1>1, <2>1, <2>2, <2>3, NamingIs
  <2>5. Naming(p) = {i}
    BY <2>4
  <2>6. PyFrame[p] = << << i, 0 >> >>
    BY <1>1, <1>4, <2>5, PyFrameIs
  <2>7. i \in Places
    BY DEF KeywordItems
  <2>8. Item(i) \in ItemExprs /\ Value(Item(i)) = << i, 0 >> /\ i # 0
    BY <1>1, <2>7, ElementIn DEF Value
  <2>9. Received[p] = << << i, 0 >> >>
    BY <2>1, <2>2, <2>8, ReceivedIs
  <2>10. << i, 0 >> # << 0, p >>
    BY <2>8
  <2>11. QED
    BY <1>2, <1>3, <1>4, <2>6, <2>9, <2>10
<1>5. CASE ~Ranked(vals, p) /\ \A i \in KeywordItems : p \notin PlainNamed(i)
  <2>1. args[p] = Default(p)
    BY <1>1, <1>5 DEF OthersUnset, AllDefault
  <2>2. Naming(p) = {}
    BY <1>1, <1>5, NamingIs
  <2>3. PyFrame[p] = << << 0, p >> >>
    BY <1>1, <1>5, <2>2, PyFrameIs
  <2>4. Received[p] = << IF call.shadowed THEN << -1, p >> ELSE << 0, p >> >>
    BY <2>1, ReceivedIs
  <2>5. QED
    BY <1>3, <2>3, <2>4
<1>6. CASE Ranked(vals, p)
  BY <1>3, <1>6
<1>7. QED
  BY <1>4, <1>5, <1>6

\* Every parameter receives the values Python gives it, whatever the call
\* (BindsAsPython), exactly when no positional argument follows a starred one
\* and no default is used that names something else where the call is.
THEOREM BoundAsPython == Spec => []BindsAsPython
<1>1. BindInv /\ ResultInv /\ FrameInv => BindsAsPython
  <2> SUFFICES ASSUME BindInv, ResultInv, FrameInv, phase = "entered", ~OtherConstructor
               PROVE  Received = PyFrame <=> ~ (PositionalAfterStar \/ UsesShadowedDefault)
    BY DEF BindsAsPython
  <2>1. PICK vals : Resolved(args, vals, AllDefault)
    BY DEF ResultInv, ResolvedOk, Settled
  <2>2. CallOk /\ Lists(vals, ItemValues, Taken) /\ Enough(vals)
    BY <2>1 DEF BindInv, Resolved
  <2>3. /\ DOMAIN Received = DOMAIN Params /\ DOMAIN PyFrame = DOMAIN Params
        /\ DOMAIN frame = DOMAIN Params
    <3>1. \A p \in DOMAIN Params : DOMAIN frame = DOMAIN Params
      BY ReceivedIs
    <3>2. DOMAIN frame = DOMAIN Params
      BY DEF BindInv, FrameOk
    <3>3. DOMAIN PyFrame = DOMAIN Params
      BY <2>2, RegularParams DEF PyFrame
    <3>4. QED
      BY <3>2, <3>3 DEF Received
  <2>4. Received = PyFrame <=> \A p \in DOMAIN Params : Received[p] = PyFrame[p]
    <3>1. Received = [p \in DOMAIN Received |-> Received[p]]
      BY DEF Received
    <3>2. PyFrame = [p \in DOMAIN PyFrame |-> PyFrame[p]]
      BY DEF PyFrame
    <3>3. QED
      BY <2>3, <3>1, <3>2
  <2>5. PositionalAfterStar <=> \E n \in DOMAIN vals : Value(vals[n]) # PyValues[n]
    BY <2>2, TakenAsWritten, ValuesCompared
  <2>6. \A p \in DOMAIN Params : Params[p].kind \notin Aggregates
                                 \/ Params[p].kind = "var" \/ Params[p].kind = "kw"
    BY DEF Aggregates
  <2>7. ASSUME NEW n \in DOMAIN vals, Value(vals[n]) # PyValues[n]
        PROVE  \E p \in DOMAIN Params : Received[p] # PyFrame[p]
    <3>1. /\ n \in 1 .. Len(vals) /\ Len(vals) \in Nat /\ Len(Positional) \in Nat
          /\ DOMAIN Positional = 1 .. Len(Positional)
      BY <2>2, SameLength, PositionalListed
    <3>2. CASE n <= Len(Positional)
      <4>1. n \in DOMAIN Positional /\ n <= Len(vals)
        BY <3>1, <3>2
      <4>2. Positional[n] \in DOMAIN Params /\ Params[Positional[n]].kind \notin Aggregates
        BY <2>2, <4>1, PositionalListed DEF Ordinary, Aggregates
      <4>3. Received[Positional[n]] # PyFrame[Positional[n]]
        BY <2>1, <2>7, <4>1, <4>2, OneReceived
      <4>4. QED
        BY <4>2, <4>3
    <3>3. CASE n > Len(Positional)
      <4>1. Of("var") # {}
        BY <2>2, <3>1, <3>3 DEF Enough
      <4>2. PICK p \in DOMAIN Params : Params[p].kind = "var"
        BY <4>1 DEF Of
      <4>3. Received[p] # PyFrame[p]
        BY <2>1, <2>7, <3>3, <4>2, ValuesReceived
      <4>4. QED
        BY <4>3
    <3>4. QED
      BY <3>1, <3>2, <3>3
  <2>8. ASSUME NEW p \in DOMAIN Params, PyFrame[p] = << << 0, p >> >>
        PROVE  Received[p] = << IF call.shadowed THEN << -1, p >> ELSE << 0, p >> >>
    <3>1. Params[p].kind \notin Aggregates
      BY <2>1, <2>6, <2>8, ValuesReceived, KeywordsReceived
    <3>2. ~Ranked(vals, p)
      BY <2>1, <2>8, <3>1, OneReceived DEF Ranked
    <3>3. QED
      BY <2>1, <2>8, <3>1, <3>2, OneReceived
  <2>9. ASSUME NEW p \in DOMAIN Params, PyFrame[p] # << << 0, p >> >>,
               \A n \in DOMAIN vals : Value(vals[n]) = PyValues[n]
        PROVE  Received[p] = PyFrame[p]
    <3>1. CASE Params[p].kind = "var"
      BY <2>1, <2>9, <3>1, ValuesReceived
    <3>2. CASE Params[p].kind = "kw"
      BY <2>1, <3>2, KeywordsReceived
    <3>3. CASE Params[p].kind \notin Aggregates /\ ~Ranked(vals, p)
      BY <2>1, <2>9, <3>3, OneReceived
    <3>4. CASE Params[p].kind \notin Aggregates /\ Ranked(vals, p)
      <4>1. PICK n \in DOMAIN Positional : Positional[n] = p /\ n <= Len(vals)
        BY <3>4 DEF Ranked
      <4>2. n \in DOMAIN vals
        BY <2>2, <4>1, SameLength, PositionalListed
      <4>3. QED
        BY <2>1, <2>9, <3>4, <4>1, <4>2, OneReceived
    <3>5. QED
      BY <2>6, <3>1, <3>2, <3>3, <3>4
  <2>10. UsesShadowedDefault <=>
           call.shadowed /\ \E p \in DOMAIN Params : PyFrame[p] = << << 0, p >> >>
    BY <2>3 DEF UsesShadowedDefault
  <2>11. ASSUME PositionalAfterStar PROVE Received # PyFrame
    BY <2>4, <2>5, <2>7, <2>11
  <2>12. ASSUME UsesShadowedDefault PROVE Received # PyFrame
    <3>1. PICK p \in DOMAIN Params : call.shadowed /\ PyFrame[p] = << << 0, p >> >>
      BY <2>10, <2>12
    <3>2. Received[p] = << << -1, p >> >>
      BY <2>8, <3>1
    <3>3. << << -1, p >> >> # << << 0, p >> >>
      OBVIOUS
    <3>4. QED
      BY <2>4, <3>1, <3>2, <3>3
  <2>13. ASSUME ~PositionalAfterStar, ~UsesShadowedDefault PROVE Received = PyFrame
    <3>1. ASSUME NEW p \in DOMAIN Params PROVE Received[p] = PyFrame[p]
      <4>1. CASE PyFrame[p] # << << 0, p >> >>
        BY <2>5, <2>9, <2>13, <4>1
      <4>2. CASE PyFrame[p] = << << 0, p >> >>
        <5>1. ~call.shadowed
          BY <2>10, <2>13, <4>2
        <5>2. QED
          BY <2>8, <4>2, <5>1
      <4>3. QED
        BY <4>1, <4>2
    <3>2. QED
      BY <2>4, <3>1
  <2>14. QED
    BY <2>11, <2>12, <2>13
<1>2. QED
  BY <1>1, BindInvHolds, ResultInvHolds, FrameInvHolds, PTL

-------------------------------------------------------------------------------
(* The trace of a call *)

\* Where parameters of each kind stand.
ParamsOrdered ==
  \A p, q \in DOMAIN Params : p < q =>
    /\ Params[p].kind # "kw"
    /\ Params[p].kind = "var" => Params[q].kind \notin {"posonly", "normal", "var"}
    /\ Params[p].kind = "kwonly" => Params[q].kind \notin {"posonly", "normal", "var"}

\* What was evaluated is the part of the code that is done.
TraceInv ==
  /\ ParamsOrdered
  /\ phase \notin {"evaluate", "entered"} => trace = << >>
  /\ phase = "evaluate" =>
       \E low, m : /\ low = Lowered /\ low \in Seq(OpRecords) /\ Pending(code, low, m)
                   /\ trace \in Seq(Int \X Int) /\ Len(trace) = m
                   /\ \A n \in 1 .. m : trace[n] = low[n].from
  /\ phase = "entered" =>
       \E low : /\ low = Lowered /\ low \in Seq(OpRecords)
                /\ trace \in Seq(Int \X Int) /\ Len(trace) = Len(low)
                /\ \A n \in 1 .. Len(low) : trace[n] = low[n].from

LEMMA OrderedFirst ==
  ASSUME VarBeforeKeywordOnly, Init PROVE ParamsOrdered
<1>1. /\ \A p, q \in DOMAIN call.params : p < q =>
           /\ call.params[q].kind \in {"posonly", "normal"}
                => call.params[p].kind \in {"posonly", "normal"}
           /\ call.params[p].kind # "kw"
           /\ call.params[p].kind = "var" => call.params[q].kind # "var"
           /\ call.params[p].kind = "kwonly" => call.params[q].kind # "var"
  BY CallsAssumption DEF Init, VarBeforeKeywordOnly
<1>2. CASE call.callee = "exception"
  <2> DEFINE message == [name |-> "message", kind |-> "normal", typ |-> call.typ,
                         default |-> call.typ]
  <2>1. Params = << message >>
    BY <1>2 DEF Params
  <2> HIDE DEF message
  <2>2. DOMAIN Params = {1}
    BY <2>1
  <2>3. QED
    BY <2>2 DEF ParamsOrdered
<1>3. CASE call.callee = "derived"
  <2>1. Params = << >>
    BY <1>3 DEF Params
  <2>2. DOMAIN Params = {}
    BY <2>1
  <2>3. QED
    BY <2>2 DEF ParamsOrdered
<1>4. CASE call.callee \notin {"exception", "derived"}
  <2>1. Params = call.params
    BY <1>4 DEF Params
  <2>2. QED
    BY <1>1, <2>1 DEF ParamsOrdered
<1>5. QED
  BY <1>2, <1>3, <1>4

LEMMA LoweredKept ==
  ASSUME call' = call, args' = args
  PROVE  Lowered' = Lowered /\ (ParamsOrdered <=> ParamsOrdered')
<1>1. Params' = Params
  BY CallKept
<1>2. \A e, p : Ops(e, p)' = Ops(e, p)
  BY <1>1 DEF Ops, Op, TypeOf
<1>3. FieldDefaults' = FieldDefaults
  BY <1>1 DEF FieldDefaults, Op, TypeOf
<1>4. [p \in DOMAIN args |-> Ops(args[p], p)]' = [p \in DOMAIN args |-> Ops(args[p], p)]
  BY <1>2
<1>5. QED
  BY <1>1, <1>3, <1>4 DEF Lowered, ParamsOrdered

LEMMA TraceCheckTypes ==
  ASSUME BindInv, TraceInv, CheckTypes PROVE TraceInv'
<1>1. call' = call /\ args' = args /\ trace' = trace /\ trace = << >> /\ ParamsOrdered'
  BY LoweredKept DEF CheckTypes, TraceInv
<1>2. CASE phase' = "mistyped"
  BY <1>1, <1>2 DEF TraceInv
<1>3. CASE phase' = "evaluate" /\ code' = Lowered /\ \A p \in DOMAIN args : Fits(args[p], p)
  <2>1. /\ CallOk /\ args = [p \in DOMAIN Params |-> args[p]]
        /\ \A p \in DOMAIN Params : args[p] \in Bindable(p)
    BY DEF BindInv, ArgsOk, CheckTypes
  <2>2. \A p \in DOMAIN Params : Fits(args[p], p)
    BY <1>3, <2>1
  <2>3. PICK low, at : low = Lowered /\ Blocks(low, ArgOps, at)
    BY <2>1, <2>2, LoweredBlocks
  <2>4. low \in Seq(OpRecords)
    BY <2>3, Zenon DEF Blocks
  <2>5. Pending(low, low, 0)
    BY <2>4 DEF Pending
  <2>6. Pending(code, low, 0)' /\ low = Lowered'
    BY <1>1, <1>3, <2>3, <2>5, LoweredKept DEF Pending
  <2>7. trace' \in Seq(Int \X Int) /\ Len(trace') = 0 /\ \A n \in 1 .. 0 : trace'[n] = low[n].from
    BY <1>1
  <2>8. QED
    BY <1>1, <1>3, <2>4, <2>6, <2>7 DEF TraceInv
<1>4. QED
  BY <1>2, <1>3 DEF CheckTypes

LEMMA TraceEvaluate ==
  ASSUME BindInv, TraceInv, Evaluate PROVE TraceInv'
<1>1. /\ phase = "evaluate" /\ phase' = phase /\ call' = call /\ args' = args
      /\ code # << >> /\ code' = Tail(code) /\ trace' = Append(trace, Head(code).from)
      /\ code \in Seq(GoodOps) /\ ParamsOrdered'
  BY LoweredKept DEF Evaluate, BindInv, CodeOk, TraceInv
<1>2. PICK low, m : /\ low = Lowered /\ low \in Seq(OpRecords) /\ Pending(code, low, m)
                    /\ trace \in Seq(Int \X Int) /\ Len(trace) = m
                    /\ \A n \in 1 .. m : trace[n] = low[n].from
  BY <1>1 DEF TraceInv
<1>3. low = Lowered'
  BY <1>1, <1>2, LoweredKept
<1>4. m \in Nat /\ Head(code) = low[m + 1] /\ Pending(code', low, m + 1)
  <2> DEFINE c == Len(code)
             len == Len(low)
  <2>1. c \in Nat \ {0} /\ c = len - m /\ m \in 0 .. len /\ len \in Nat
    BY <1>1, <1>2 DEF Pending
  <2>2. /\ Head(code) = code[1] /\ Len(Tail(code)) = c - 1
        /\ \A n \in 1 .. c - 1 : Tail(code)[n] = code[n + 1]
    BY <1>1
  <2>3. \A n \in 1 .. c : code[n] = low[m + n]
    BY <1>2 DEF Pending
  <2> HIDE DEF c, len
  <2>4. /\ m \in Nat /\ m + 1 \in 0 .. len
        /\ c - 1 = len - (m + 1) /\ 1 \in 1 .. c
        /\ \A n \in 1 .. c - 1 : n + 1 \in 1 .. c /\ m + (n + 1) = m + 1 + n
    BY <2>1
  <2>5. Head(code) = low[m + 1]
    BY <2>2, <2>3, <2>4
  <2>6. \A n \in 1 .. c - 1 : Tail(code)[n] = low[m + 1 + n]
    BY <2>2, <2>3, <2>4
  <2>7. QED
    BY <1>1, <2>2, <2>4, <2>5, <2>6 DEF Pending, len
<1> DEFINE e == low[m + 1].from
<1>5. e \in Int \X Int
  <2>1. m + 1 \in 1 .. Len(low)
    BY <1>1, <1>2, <1>4 DEF Pending
  <2>2. low[m + 1] \in OpRecords
    BY <1>2, <2>1
  <2>3. QED
    BY <2>2 DEF OpRecords
<1>6. trace' = Append(trace, e)
  BY <1>1, <1>4
<1> HIDE DEF e
<1>7. /\ trace' \in Seq(Int \X Int) /\ Len(trace') = m + 1 /\ trace'[m + 1] = e
      /\ \A n \in 1 .. m : trace'[n] = trace[n]
  BY <1>2, <1>5, <1>6
<1>8. \A n \in 1 .. m + 1 : trace'[n] = low[n].from
  <2>1. \A n \in 1 .. m + 1 : n \in 1 .. m \/ n = m + 1
    BY <1>4
  <2>2. QED
    BY <1>2, <1>7, <2>1 DEF e
<1>9. Pending(code, low, m + 1)'
  BY <1>4 DEF Pending
<1>10. QED
  BY <1>1, <1>2, <1>3, <1>7, <1>8, <1>9 DEF TraceInv

LEMMA TraceEnter ==
  ASSUME BindInv, TraceInv, Enter PROVE TraceInv'
<1>1. /\ phase = "evaluate" /\ phase' = "entered" /\ call' = call /\ args' = args
      /\ code = << >> /\ trace' = trace /\ ParamsOrdered'
  BY LoweredKept DEF Enter, TraceInv
<1>2. PICK low, m : /\ low = Lowered /\ low \in Seq(OpRecords) /\ Pending(code, low, m)
                    /\ trace \in Seq(Int \X Int) /\ Len(trace) = m
                    /\ \A n \in 1 .. m : trace[n] = low[n].from
  BY <1>1 DEF TraceInv
<1>3. low = Lowered'
  BY <1>1, <1>2, LoweredKept
<1>4. m = Len(low)
  <2>1. Len(low) \in Nat /\ m \in 0 .. Len(low) /\ 0 = Len(low) - m
    BY <1>1, <1>2 DEF Pending
  <2>2. QED
    BY <2>1
<1>5. QED
  BY <1>1, <1>2, <1>3, <1>4 DEF TraceInv

LEMMA TraceInvHolds ==
  ASSUME VarBeforeKeywordOnly PROVE Spec => []TraceInv
<1>1. Init => TraceInv
  BY OrderedFirst DEF Init, TraceInv
<1>2. BindInv /\ TraceInv /\ [Next]_vars => TraceInv'
  <2> SUFFICES ASSUME BindInv, TraceInv, [Next]_vars PROVE TraceInv'
    OBVIOUS
  <2>1. CASE CheckTypes
    BY <2>1, TraceCheckTypes
  <2>2. CASE Evaluate
    BY <2>2, TraceEvaluate
  <2>3. CASE Enter
    BY <2>3, TraceEnter
  <2>4. CASE UNCHANGED vars
    <3>1. call' = call /\ phase' = phase /\ args' = args /\ code' = code /\ trace' = trace
      BY <2>4 DEF vars
    <3>2. Lowered' = Lowered /\ ParamsOrdered'
      BY <3>1, LoweredKept DEF TraceInv
    <3>3. CASE phase = "evaluate"
      <4>1. PICK low, m :
              /\ low = Lowered /\ low \in Seq(OpRecords) /\ Pending(code, low, m)
              /\ trace \in Seq(Int \X Int) /\ Len(trace) = m
              /\ \A n \in 1 .. m : trace[n] = low[n].from
        BY <3>3 DEF TraceInv
      <4>2. Pending(code, low, m)' /\ low = Lowered'
        BY <3>1, <3>2, <4>1 DEF Pending
      <4>3. QED
        BY <3>1, <3>2, <3>3, <4>1, <4>2 DEF TraceInv
    <3>4. CASE phase = "entered"
      <4>1. PICK low : /\ low = Lowered /\ low \in Seq(OpRecords)
                       /\ trace \in Seq(Int \X Int) /\ Len(trace) = Len(low)
                       /\ \A n \in 1 .. Len(low) : trace[n] = low[n].from
        BY <3>4 DEF TraceInv
      <4>2. low = Lowered'
        BY <3>2, <4>1
      <4>3. QED
        BY <3>1, <3>2, <3>4, <4>1, <4>2 DEF TraceInv
    <3>5. CASE phase \notin {"evaluate", "entered"}
      BY <3>1, <3>2, <3>5 DEF TraceInv
    <3>6. QED
      BY <3>3, <3>4, <3>5
  <2>5. ASSUME \/ Dispatch \/ ExpandStar \/ StarsDone \/ BindPositional \/ PositionalsDone
               \/ BindKeyword \/ Materialize \/ FillDefaults
        PROVE  TraceInv'
    <3>1. /\ call' = call /\ trace' = trace /\ phase \notin {"evaluate", "entered"}
          /\ phase' \notin {"evaluate", "entered"}
      BY <2>5 DEF Dispatch, ExpandStar, StarsDone, BindPositional, PositionalsDone, BindKeyword,
                  Materialize, FillDefaults, Reject, Unread
    <3>2. ParamsOrdered'
      BY <3>1, CallKept DEF TraceInv, ParamsOrdered
    <3>3. QED
      BY <3>1, <3>2 DEF TraceInv
  <2>6. QED
    BY <2>1, <2>2, <2>3, <2>4, <2>5 DEF Next
<1>3. QED
  BY <1>1, <1>2, BindInvHolds, PTL DEF Spec

\* The sequences of ss, joined, between two others: where each begins.
Between(first, ss, last, at, low) ==
  /\ low = (first \o FlattenSeq(ss)) \o last
  /\ Len(first) + Len(last) <= Len(low)
  /\ \A i \in 1 .. Len(ss) : at[i] \in Nat
  /\ \A i \in 1 .. Len(ss) : \A m \in 1 .. Len(ss[i]) :
       /\ Len(first) < at[i] + m /\ at[i] + m <= Len(low) - Len(last)
       /\ low[at[i] + m] = ss[i][m]
  /\ \A i, j \in 1 .. Len(ss) : i < j =>
       \A m \in 1 .. Len(ss[i]), n \in 1 .. Len(ss[j]) : at[i] + m < at[j] + n
  /\ \A x \in 1 .. Len(first) : low[x] = first[x]
  /\ \A x \in 1 .. Len(last) : low[Len(low) - Len(last) + x] = last[x]
  /\ \A x \in 1 .. Len(low) :
       \/ x <= Len(first)
       \/ \E i \in 1 .. Len(ss) : \E m \in 1 .. Len(ss[i]) : x = at[i] + m
       \/ x - (Len(low) - Len(last)) \in 1 .. Len(last)

LEMMA Sums ==
  /\ \A a, b, c \in Nat : \A x \in 1 .. b : a < a + x /\ a + x <= (a + b + c) - c
  /\ \A a, b, c, d, m, n \in Nat : b + c <= d /\ m <= c /\ n # 0 => (a + b) + m < (a + d) + n
  /\ \A a, b, m, x \in Nat : x - a = b + m => x = (a + b) + m
OBVIOUS

LEMMA Joined ==
  ASSUME NEW T, NEW ss \in Seq(Seq(T)), NEW first \in Seq(T), NEW last \in Seq(T)
  PROVE  \E at, low : low \in Seq(T) /\ Between(first, ss, last, at, low)
<1> DEFINE u == FlattenSeq(ss)
           a == Len(first)
           b == Len(u)
           c == Len(last)
           L == Len(ss)
<1>1. PICK start \in [1 .. L -> Nat] :
        /\ \A i \in 1 .. L : \A m \in 1 .. Len(ss[i]) :
             start[i] + m \in 1 .. b /\ u[start[i] + m] = ss[i][m]
        /\ \A x \in 1 .. b : \E i \in 1 .. L : \E m \in 1 .. Len(ss[i]) : x = start[i] + m
        /\ \A i, j \in 1 .. L : i < j => start[i] + Len(ss[i]) <= start[j]
  BY FlattenBlocks
<1>2. u \in Seq(T) /\ a \in Nat /\ b \in Nat /\ c \in Nat /\ L \in Nat
      /\ \A i \in 1 .. L : Len(ss[i]) \in Nat
  BY FlattenedOver
<1>3. PICK low : low = (first \o u) \o last
  OBVIOUS
<1> HIDE DEF u
<1>4. /\ low \in Seq(T) /\ Len(low) = a + b + c
      /\ \A x \in 1 .. a : low[x] = first[x]
      /\ \A x \in 1 .. b : low[a + x] = u[x]
      /\ \A x \in 1 .. c : low[a + b + x] = last[x]
  <2>1. PICK v : v = first \o u
    OBVIOUS
  <2>2. /\ v \in Seq(T) /\ Len(v) = a + b /\ \A x \in 1 .. a : v[x] = first[x]
        /\ \A x \in 1 .. b : v[a + x] = u[x]
    BY <1>2, <2>1
  <2>3. /\ low \in Seq(T) /\ Len(low) = a + b + c /\ \A x \in 1 .. a + b : low[x] = v[x]
        /\ \A x \in 1 .. c : low[a + b + x] = last[x]
    BY <1>2, <1>3, <2>1, <2>2
  <2>4. (\A x \in 1 .. a : x \in 1 .. a + b) /\ (\A x \in 1 .. b : a + x \in 1 .. a + b)
    BY <1>2
  <2>5. QED
    BY <2>2, <2>3, <2>4
<1> HIDE DEF a, b, c, L
<1>5. PICK at : at = [i \in 1 .. L |-> a + start[i]]
  OBVIOUS
<1>6. \A i \in 1 .. L : at[i] = a + start[i] /\ at[i] \in Nat /\ start[i] \in Nat
  BY <1>1, <1>2, <1>5
<1>7. ASSUME NEW i \in 1 .. L, NEW m \in 1 .. Len(ss[i])
      PROVE  a < at[i] + m /\ at[i] + m <= Len(low) - c /\ low[at[i] + m] = ss[i][m]
  <2>0. Len(ss[i]) \in Nat /\ m \in Nat
    BY <1>2
  <2>1. at[i] = a + start[i] /\ start[i] \in Nat
    BY <1>6
  <2>2. PICK x : x = start[i] + m
    OBVIOUS
  <2>3. x \in 1 .. b /\ u[x] = ss[i][m]
    BY <1>1, <2>2
  <2>4. at[i] + m = a + x
    BY <1>2, <2>0, <2>1, <2>2
  <2>5. low[a + x] = u[x] /\ Len(low) = a + b + c
    BY <1>4, <2>3
  <2>6. a < a + x /\ a + x <= (a + b + c) - c
    BY <1>2, <2>3, Sums, Zenon
  <2>7. QED
    BY <2>3, <2>4, <2>5, <2>6, Zenon
<1>8. ASSUME NEW i \in 1 .. L, NEW j \in 1 .. L, i < j,
             NEW m \in 1 .. Len(ss[i]), NEW n \in 1 .. Len(ss[j])
      PROVE  at[i] + m < at[j] + n
  <2>1. start[i] + Len(ss[i]) <= start[j]
    BY <1>1, <1>8
  <2>2. Len(ss[i]) \in Nat /\ m \in Nat /\ m <= Len(ss[i]) /\ Len(ss[j]) \in Nat /\ n \in Nat \ {0}
    BY <1>2
  <2>3. at[i] = a + start[i] /\ start[i] \in Nat /\ at[j] = a + start[j] /\ start[j] \in Nat
    BY <1>6
  <2>4. (a + start[i]) + m < (a + start[j]) + n
    BY <1>2, <2>1, <2>2, <2>3, Sums, Zenon
  <2>5. QED
    BY <2>3, <2>4, Zenon
<1>9. ASSUME NEW x \in 1 .. Len(low)
      PROVE  \/ x <= a
             \/ \E i \in 1 .. L : \E m \in 1 .. Len(ss[i]) : x = at[i] + m
             \/ x - (Len(low) - c) \in 1 .. c
  <2>1. x \in Nat /\ x \in Nat \ {0} /\ x <= a + b + c /\ Len(low) - c = a + b
    BY <1>2, <1>4
  <2>2. CASE x <= a
    BY <2>2
  <2>3. CASE ~ (x <= a) /\ x <= a + b
    <3>1. x - a \in 1 .. b
      BY <1>2, <2>1, <2>3
    <3>2. PICK i \in 1 .. L : \E m \in 1 .. Len(ss[i]) : x - a = start[i] + m
      BY <1>1, <3>1
    <3>3. PICK m \in 1 .. Len(ss[i]) : x - a = start[i] + m
      BY <3>2
    <3>4. Len(ss[i]) \in Nat /\ m \in Nat
      BY <1>2
    <3>5. at[i] = a + start[i] /\ start[i] \in Nat
      BY <1>6
    <3>6. x = (a + start[i]) + m
      <4>1. a \in Nat /\ x \in Nat /\ start[i] \in Nat /\ m \in Nat
        BY <1>2, <2>1, <3>4, <3>5
      <4>2. QED
        BY <3>3, <4>1, Sums, Zenon
    <3>7. x = at[i] + m
      BY <3>5, <3>6, Zenon
    <3>8. QED
      BY <3>7
  <2>4. CASE ~ (x <= a + b)
    <3>1. PICK y : y = x - (a + b)
      OBVIOUS
    <3>2. y \in 1 .. c /\ x = a + b + y
      BY <1>2, <2>1, <2>4, <3>1
    <3>3. QED
      BY <2>1, <3>1, <3>2
  <2>5. QED
    BY <2>2, <2>3, <2>4
<1>10. a + c <= Len(low)
  BY <1>2, <1>4
<1>11. \A x \in 1 .. c : low[Len(low) - c + x] = last[x]
  <2>1. Len(low) - c = a + b
    BY <1>2, <1>4
  <2>2. QED
    BY <1>4, <2>1
<1>12. Between(first, ss, last, at, low)
  BY <1>3, <1>4, <1>6, <1>7, <1>8, <1>9, <1>10, <1>11 DEF Between, u, a, c, L
<1>13. QED
  BY <1>4, <1>12

-------------------------------------------------------------------------------
(* What is evaluated, and when *)

Counted(from) == from[1] > 0 \/ from = << 0, 0 >>

HasCallee == call.callee \in CalleeFirst \cup CalleeLast

LEMMA FieldDefaultsUncounted ==
  ASSUME CallOk
  PROVE  FieldDefaults \in Seq(OpRecords)
         /\ \A n \in 1 .. Len(FieldDefaults) : ~Counted(FieldDefaults[n].from)
<1> DEFINE S == {p \in DOMAIN Params : Params[p].default # "none"}
           having == InOrder(S)
           op(n) == [Op(Default(having[n]), having[n], TRUE) EXCEPT !.param = 0]
<1>1. FieldDefaults \in Seq(OpRecords)
  BY OthersAreNone DEF NoParameters
<1>2. Len(Params) \in Nat /\ DOMAIN Params = 1 .. Len(Params)
  BY ParamsListed
<1>3. having \in Seq(S)
  <2>1. S \in SUBSET (1 .. Len(Params))
    BY <1>2
  <2> HIDE DEF S
  <2>2. QED
    BY <1>2, <2>1, InOrderLists
<1>4. \A n \in DOMAIN having : having[n] \in Nat \ {0}
  <2>1. \A n \in DOMAIN having : having[n] \in S
    BY <1>3
  <2>2. \A p \in S : p \in Nat \ {0}
    BY <1>2
  <2>3. QED
    BY <2>1, <2>2
<1>5. FieldDefaults = [n \in DOMAIN having |-> op(n)]
  BY DEF FieldDefaults
<1> HIDE DEF having
<1>6. \A n : op(n).from = IF call.shadowed THEN << -1, having[n] >> ELSE << 0, having[n] >>
  BY DEF Op, Default
<1> HIDE DEF op
<1>7. ASSUME NEW n \in DOMAIN having PROVE ~Counted(op(n).from)
  <2>1. PICK p : p = having[n] /\ p \in Nat \ {0}
    BY <1>4
  <2>2. op(n).from = << -1, p >> \/ op(n).from = << 0, p >>
    BY <1>6, <2>1
  <2>3. ~Counted(<< -1, p >>) /\ ~Counted(<< 0, p >>)
    BY <2>1 DEF Counted
  <2>4. QED
    BY <2>2, <2>3
<1>8. \A n \in DOMAIN FieldDefaults : ~Counted(FieldDefaults[n].from)
  BY <1>5, <1>7
<1>9. QED
  BY <1>1, <1>8

\* The operations of the arguments lie in the code in the order of the parameters,
\* what the call is applied to before them or after them.
OpsLie(at, c) ==
  /\ \A p \in DOMAIN Params : \A m \in 1 .. Len(ArgOps[p]) :
       at[p] + m \in 1 .. Len(trace) /\ trace[at[p] + m] = ArgOps[p][m].from
  /\ \A p, q \in DOMAIN Params : p < q =>
       \A m \in 1 .. Len(ArgOps[p]), n \in 1 .. Len(ArgOps[q]) : at[p] + m < at[q] + n
  /\ \A p \in DOMAIN Params : at[p] \in Nat
  /\ \A x \in 1 .. Len(trace) : Counted(trace[x]) =>
       \/ \E p \in DOMAIN Params : \E m \in 1 .. Len(ArgOps[p]) : x = at[p] + m
       \/ HasCallee /\ x = c
  /\ HasCallee => c \in 1 .. Len(trace) /\ trace[c] = << 0, 0 >>
  /\ call.callee \in CalleeFirst =>
       \A p \in DOMAIN Params : \A m \in 1 .. Len(ArgOps[p]) : c < at[p] + m
  /\ call.callee \in CalleeLast =>
       \A p \in DOMAIN Params : \A m \in 1 .. Len(ArgOps[p]) : at[p] + m < c

LEMMA TraceLies ==
  ASSUME BindInv, ResultInv, TraceInv, phase = "entered"
  PROVE  \E at, c : OpsLie(at, c)
<1> DEFINE head == IF call.callee \in CalleeFirst THEN Callee ELSE << >>
           stores == IF call.callee = "dataclass" THEN FieldDefaults ELSE << >>
           first == head \o stores
           last == IF call.callee \in CalleeLast THEN Callee ELSE << >>
           ops == ArgOps
<1>1. /\ CallOk /\ args = [p \in DOMAIN Params |-> args[p]]
      /\ \A p \in DOMAIN Params : args[p] \in Bindable(p) /\ Fits(args[p], p)
  BY ArgOpsChecked
<1>2. /\ DOMAIN Params = 1 .. Len(ops) /\ DOMAIN ops = DOMAIN Params
      /\ \A p \in DOMAIN Params : ops[p] \in Seq(OpRecords) /\ Len(ops[p]) \in Nat
      /\ Len(ops) \in Nat /\ ops \in Seq(Seq(OpRecords))
  <2>1. /\ DOMAIN Params = 1 .. Len(ops) /\ DOMAIN ops = DOMAIN Params
        /\ \A p \in DOMAIN Params : ops[p] \in Seq(OpRecords) /\ Len(ops[p]) \in Nat
    BY <1>1, ArgOpsListed
  <2>2. Len(Params) \in Nat /\ DOMAIN Params = 1 .. Len(Params)
    BY <1>1, ParamsListed
  <2>3. ops = [p \in 1 .. Len(Params) |-> ops[p]]
    BY <1>1 DEF ArgOps
  <2> HIDE DEF ops
  <2>4. ops \in Seq(Seq(OpRecords))
    BY <2>1, <2>2, <2>3
  <2>5. Len(ops) \in Nat
    BY <2>4
  <2>6. QED
    BY <2>1, <2>4, <2>5
<1>3. Lowered = first \o FlattenSeq(ops) \o last
  BY DEF Lowered, ArgOps
<1>4. CallOk
  BY <1>1
<1>5. PICK w : w = Callee
  OBVIOUS
<1>6. w \in Seq(OpRecords) /\ Len(w) = 1 /\ w[1].from = << 0, 0 >>
  <2>1. w \in Seq(OpRecords)
    BY <1>1, <1>5, OthersAreNone DEF NoParameters
  <2>2. Len(w) = 1 /\ w[1].from = << 0, 0 >>
    BY <1>5 DEF Callee
  <2>3. QED
    BY <2>1, <2>2
<1>7. /\ first \in Seq(OpRecords) /\ last \in Seq(OpRecords)
      /\ Len(first) \in Nat /\ Len(last) \in Nat
      /\ call.callee \in CalleeFirst => /\ Len(first) = 1 /\ first[1].from = << 0, 0 >>
                                        /\ Len(last) = 0
      /\ call.callee \in CalleeLast => /\ Len(last) = 1 /\ last[1].from = << 0, 0 >>
                                       /\ Len(first) = 0
      /\ ~HasCallee => /\ \A n \in 1 .. Len(first) : ~Counted(first[n].from)
                       /\ Len(last) = 0
  <2>0. FieldDefaults \in Seq(OpRecords)
        /\ \A n \in 1 .. Len(FieldDefaults) : ~Counted(FieldDefaults[n].from)
    BY <1>4, FieldDefaultsUncounted
  <2>1. << >> \in Seq(OpRecords) /\ Len(<< >>) = 0
        /\ \A s \in Seq(OpRecords) : s \o << >> = s /\ << >> \o s = s
    OBVIOUS
  <2>2. CASE call.callee \in CalleeFirst
    <3>1. head = w /\ stores = << >> /\ last = << >> /\ call.callee \notin CalleeLast
      BY <1>5, <2>2 DEF CalleeFirst, CalleeLast
    <3>2. first = w
      BY <1>6, <2>1, <3>1
    <3>3. first \in Seq(OpRecords) /\ last \in Seq(OpRecords) /\ Len(first) = 1 /\ Len(last) = 0
          /\ first[1].from = << 0, 0 >> /\ HasCallee
      BY <1>6, <2>1, <2>2, <3>1, <3>2 DEF HasCallee
    <3> HIDE DEF first, last
    <3>4. QED
      BY <2>2, <3>1, <3>3
  <2>3. CASE call.callee \in CalleeLast
    <3>1. head = << >> /\ stores = << >> /\ last = w /\ call.callee \notin CalleeFirst
      BY <1>5, <2>3 DEF CalleeFirst, CalleeLast
    <3>2. first = << >>
      BY <2>1, <3>1
    <3>3. first \in Seq(OpRecords) /\ last \in Seq(OpRecords) /\ Len(first) = 0 /\ Len(last) = 1
          /\ last[1].from = << 0, 0 >> /\ HasCallee
      BY <1>6, <2>1, <2>3, <3>1, <3>2 DEF HasCallee
    <3> HIDE DEF first, last
    <3>4. QED
      BY <2>3, <3>1, <3>3
  <2>4. CASE ~HasCallee
    <3>1. head = << >> /\ last = << >>
      BY <2>4 DEF HasCallee
    <3>2. first = stores /\ stores \in Seq(OpRecords)
      BY <2>0, <2>1, <3>1
    <3>3. \A n \in 1 .. Len(stores) : ~Counted(stores[n].from)
      <4>1. CASE call.callee = "dataclass"
        BY <2>0, <4>1
      <4>2. CASE call.callee # "dataclass"
        BY <2>1, <4>2
      <4>3. QED
        BY <4>1, <4>2
    <3>4. /\ first \in Seq(OpRecords) /\ last \in Seq(OpRecords) /\ Len(last) = 0
          /\ \A n \in 1 .. Len(first) : ~Counted(first[n].from)
          /\ call.callee \notin CalleeFirst /\ call.callee \notin CalleeLast
      BY <2>1, <2>4, <3>1, <3>2, <3>3 DEF HasCallee
    <3> HIDE DEF first, last
    <3>5. Len(first) \in Nat
      BY <3>4
    <3>6. QED
      BY <2>4, <3>4, <3>5
  <2>5. QED
    BY <2>2, <2>3, <2>4 DEF HasCallee
<1> HIDE DEF first, last, ops, head, stores
<1>8. PICK at, low : low \in Seq(OpRecords) /\ Between(first, ops, last, at, low)
  BY <1>2, <1>7, Joined
<1>9. low = Lowered /\ Len(low) \in Nat
  BY <1>3, <1>8 DEF Between
<1>10. Len(trace) = Len(low) /\ \A n \in 1 .. Len(low) : trace[n] = low[n].from
  BY <1>9 DEF TraceInv
<1>11. PICK c : c = IF call.callee \in CalleeFirst THEN 1 ELSE Len(low)
  OBVIOUS
<1>12. HasCallee => call.callee \in CalleeFirst \/ call.callee \in CalleeLast
  BY DEF HasCallee
<1>13. call.callee \in CalleeFirst => call.callee \notin CalleeLast
  BY DEF CalleeFirst, CalleeLast
<1>14. ASSUME NEW p \in DOMAIN Params, NEW m \in 1 .. Len(ops[p])
       PROVE  /\ at[p] + m \in 1 .. Len(trace) /\ trace[at[p] + m] = ops[p][m].from
              /\ call.callee \in CalleeFirst => c < at[p] + m
              /\ call.callee \in CalleeLast => at[p] + m < c
  <2>1. /\ Len(first) < at[p] + m /\ at[p] + m <= Len(low) - Len(last)
        /\ low[at[p] + m] = ops[p][m] /\ at[p] \in Nat /\ Len(ops[p]) \in Nat
    BY <1>2, <1>8 DEF Between
  <2>2. PICK x : x = at[p] + m
    OBVIOUS
  <2>3. x \in Int /\ Len(first) < x /\ x <= Len(low) - Len(last)
    BY <2>1, <2>2
  <2>4. /\ x \in 1 .. Len(trace)
        /\ call.callee \in CalleeFirst => c < x
        /\ call.callee \in CalleeLast => x < c
    BY <1>7, <1>9, <1>10, <1>11, <1>13, <2>3
  <2>5. trace[x] = ops[p][m].from
    BY <1>10, <2>1, <2>2, <2>4
  <2>6. QED
    BY <2>2, <2>4, <2>5
<1>15. ASSUME NEW x \in 1 .. Len(trace), Counted(trace[x])
       PROVE  \/ \E p \in DOMAIN Params : \E m \in 1 .. Len(ops[p]) : x = at[p] + m
              \/ HasCallee /\ x = c
  <2>1. \/ x <= Len(first)
        \/ \E i \in 1 .. Len(ops) : \E m \in 1 .. Len(ops[i]) : x = at[i] + m
        \/ x - (Len(low) - Len(last)) \in 1 .. Len(last)
    BY <1>8, <1>10 DEF Between
  <2>2. trace[x] = low[x].from /\ x \in Nat \ {0}
    BY <1>9, <1>10
  <2>3. CASE x <= Len(first)
    <3>1. HasCallee
      <4> SUFFICES ASSUME ~HasCallee PROVE FALSE
        OBVIOUS
      <4>1. x \in 1 .. Len(first)
        BY <1>7, <2>2, <2>3
      <4>2. low[x] = first[x]
        BY <1>8, <4>1 DEF Between
      <4>3. QED
        BY <1>7, <1>15, <2>2, <4>1, <4>2
    <3>2. x = c
      <4>1. CASE call.callee \in CalleeFirst
        <5>1. Len(first) = 1 /\ c = 1
          BY <1>7, <1>11, <4>1
        <5>2. QED
          BY <2>2, <2>3, <5>1
      <4>2. CASE call.callee \in CalleeLast
        <5>1. Len(first) = 0
          BY <1>7, <4>2
        <5>2. QED
          BY <2>2, <2>3, <5>1
      <4>3. QED
        BY <1>12, <3>1, <4>1, <4>2
    <3>3. QED
      BY <3>1, <3>2
  <2>4. CASE x - (Len(low) - Len(last)) \in 1 .. Len(last)
    <3>1. Len(last) # 0 /\ HasCallee /\ call.callee \in CalleeLast /\ Len(last) = 1
      BY <1>7, <1>12, <2>4
    <3>2. x = c
      BY <1>9, <1>11, <1>13, <2>2, <2>4, <3>1
    <3>3. QED
      BY <3>1, <3>2
  <2>5. QED
    BY <1>2, <2>1, <2>3, <2>4
<1>16. HasCallee => c \in 1 .. Len(trace) /\ trace[c] = << 0, 0 >>
  <2>1. Len(first) + Len(last) <= Len(low)
    BY <1>8 DEF Between
  <2>2. CASE call.callee \in CalleeFirst
    <3>1. c = 1 /\ c \in 1 .. Len(low) /\ Len(first) = 1 /\ Len(last) = 0
      BY <1>7, <1>9, <1>11, <2>1, <2>2
    <3>2. low[c] = first[1]
      <4>1. 1 \in 1 .. Len(first)
        BY <3>1
      <4>2. QED
        BY <1>8, <3>1, <4>1 DEF Between
    <3>3. QED
      BY <1>7, <1>10, <2>2, <3>1, <3>2
  <2>3. CASE call.callee \in CalleeLast
    <3>1. c = Len(low) /\ c \in 1 .. Len(low) /\ Len(first) = 0 /\ Len(last) = 1
      BY <1>7, <1>9, <1>11, <1>13, <2>1, <2>3
    <3>2. low[c] = last[1]
      <4>1. 1 \in 1 .. Len(last) /\ Len(low) - Len(last) + 1 = c
        BY <1>9, <3>1
      <4>2. low[Len(low) - Len(last) + 1] = last[1]
        BY <1>8, <4>1 DEF Between
      <4>3. QED
        BY <4>1, <4>2
    <3>3. QED
      BY <1>7, <1>10, <2>3, <3>1, <3>2
  <2>4. QED
    BY <1>12, <2>2, <2>3
<1>17. \A p, q \in DOMAIN Params : p < q =>
         \A m \in 1 .. Len(ops[p]), n \in 1 .. Len(ops[q]) : at[p] + m < at[q] + n
  BY <1>2, <1>8, Zenon DEF Between
<1>18. \A p \in DOMAIN Params : at[p] \in Nat
  BY <1>2, <1>8, Zenon DEF Between
<1>19. OpsLie(at, c)
  BY <1>14, <1>15, <1>16, <1>17, <1>18 DEF OpsLie, ops
<1>20. QED
  BY <1>19

\* What was evaluated comes in the order of the trace.
LEMMA EvaluatedPlaces ==
  ASSUME trace \in Seq(Int \X Int)
  PROVE  /\ Evaluated \in Seq(Int) /\ Len(Evaluated) \in Nat
         /\ \E place :
              /\ \A n \in DOMAIN trace : Counted(trace[n]) =>
                   place[n] \in 1 .. Len(Evaluated) /\ Evaluated[place[n]] = trace[n][1]
              /\ \A x \in 1 .. Len(Evaluated) :
                   \E n \in DOMAIN trace : Counted(trace[n]) /\ x = place[n]
              /\ \A m, n \in DOMAIN trace :
                   Counted(trace[m]) /\ Counted(trace[n]) /\ m < n => place[m] < place[n]
<1> DEFINE L == Len(trace)
           ss == [n \in DOMAIN trace |-> IF Counted(trace[n]) THEN << trace[n][1] >> ELSE << >>]
           u == FlattenSeq(ss)
<1>1. L \in Nat /\ DOMAIN trace = 1 .. L /\ \A n \in 1 .. L : trace[n] \in Int \X Int
  OBVIOUS
<1>2. Evaluated = u
  BY DEF Evaluated, Counted
<1>3. ASSUME NEW n \in 1 .. L
      PROVE  /\ ss[n] \in Seq(Int)
             /\ Counted(trace[n]) => Len(ss[n]) = 1 /\ ss[n][1] = trace[n][1]
             /\ ~Counted(trace[n]) => Len(ss[n]) = 0
  <2>1. PICK v : v = trace[n][1]
    OBVIOUS
  <2>2. v \in Int
    BY <1>1, <2>1
  <2>3. ss[n] = IF Counted(trace[n]) THEN << v >> ELSE << >>
    BY <1>1, <2>1
  <2> HIDE DEF ss
  <2>4. QED
    BY <2>1, <2>2, <2>3
<1>4. ss = [n \in 1 .. L |-> ss[n]]
  BY <1>1
<1> HIDE DEF ss
<1>5. ss \in Seq(Seq(Int)) /\ Len(ss) = L
  BY <1>1, <1>3, <1>4
<1>6. u \in Seq(Int) /\ Len(u) \in Nat
  <2>1. u \in Seq(Int)
    BY <1>5, FlattenedOver
  <2> HIDE DEF u
  <2>2. QED
    BY <2>1
<1>7. PICK start \in [1 .. Len(ss) -> Nat] :
        /\ \A i \in 1 .. Len(ss) : \A m \in 1 .. Len(ss[i]) :
             start[i] + m \in 1 .. Len(u) /\ u[start[i] + m] = ss[i][m]
        /\ \A x \in 1 .. Len(u) :
             \E i \in 1 .. Len(ss) : \E m \in 1 .. Len(ss[i]) : x = start[i] + m
        /\ \A i, j \in 1 .. Len(ss) : i < j => start[i] + Len(ss[i]) <= start[j]
  BY <1>5, FlattenBlocks
<1> HIDE DEF u, L
<1>8. PICK place : place = [n \in 1 .. L |-> start[n] + 1]
  OBVIOUS
<1>9. ASSUME NEW n \in 1 .. L, Counted(trace[n])
      PROVE  place[n] \in 1 .. Len(u) /\ u[place[n]] = trace[n][1]
  <2>1. 1 \in 1 .. Len(ss[n]) /\ place[n] = start[n] + 1 /\ n \in 1 .. Len(ss)
    BY <1>3, <1>5, <1>8, <1>9
  <2>2. start[n] + 1 \in 1 .. Len(u) /\ u[start[n] + 1] = ss[n][1]
    BY <1>7, <2>1
  <2>3. QED
    BY <1>3, <1>9, <2>1, <2>2
<1>10. ASSUME NEW x \in 1 .. Len(u)
       PROVE  \E n \in 1 .. L : Counted(trace[n]) /\ x = place[n]
  <2>1. PICK n \in 1 .. Len(ss) : \E m \in 1 .. Len(ss[n]) : x = start[n] + m
    BY <1>7
  <2>2. PICK m \in 1 .. Len(ss[n]) : x = start[n] + m
    BY <2>1
  <2>3. n \in 1 .. L
    BY <1>5
  <2>4. Counted(trace[n]) /\ m = 1
    <3>1. Len(ss[n]) = IF Counted(trace[n]) THEN 1 ELSE 0
      BY <1>3, <2>3, Zenon
    <3>2. (\A k \in 1 .. 1 : k = 1) /\ 1 .. 0 = {}
      OBVIOUS
    <3>3. QED
      BY <3>1, <3>2, Zenon
  <2>5. QED
    BY <1>8, <2>2, <2>3, <2>4
<1>11. ASSUME NEW m \in 1 .. L, NEW n \in 1 .. L, Counted(trace[m]), m < n
       PROVE  place[m] < place[n]
  <2>1. start[m] + Len(ss[m]) <= start[n] /\ Len(ss[m]) = 1
    BY <1>3, <1>5, <1>7, <1>11
  <2>2. start[m] \in Nat /\ start[n] \in Nat
    BY <1>5
  <2>3. place[m] = start[m] + 1 /\ place[n] = start[n] + 1
    BY <1>8
  <2>4. QED
    BY <2>1, <2>2, <2>3
<1>12. QED
  BY <1>1, <1>2, <1>6, <1>9, <1>10, <1>11

-------------------------------------------------------------------------------
(* The order in which what is bound is evaluated *)

Part(p, m) == IF args[p] \in Displays THEN args[p].parts[m] ELSE args[p]
Parts(p) == IF args[p] \in Displays THEN 1 .. Len(args[p].parts) ELSE {1}

KeywordExprs == {e \in ItemExprs : e.item \in KeywordItems /\ e.elem = 0}
ItemBound == ItemValues \cup KeywordExprs

Evaluates ==
  {x \in ItemBound \X ItemBound :
     \/ x[1] \in ItemValues /\ x[2] \in ItemValues /\ x \in Taken
     \/ x[1] \in ItemValues /\ x[2] \in KeywordExprs
     \/ /\ x[1] \in KeywordExprs /\ x[2] \in KeywordExprs
        /\ \/ Slot(x[1].item) < Slot(x[2].item)
           \/ Slot(x[1].item) = Slot(x[2].item) /\ x[1].item < x[2].item}

\* The parameters a positional argument may fill are listed as they are declared.
LEMMA PositionalAscends ==
  ASSUME CallOk
  PROVE  \A m, n \in DOMAIN Positional : m < n => Positional[m] < Positional[n]
<1> DEFINE S == {p \in DOMAIN Params : Params[p].kind \notin Aggregates \cup {"kwonly"}}
           s == InOrder(S)
<1>1. Len(Params) \in Nat /\ S \in SUBSET (1 .. Len(Params))
  BY ParamsListed
<1>2. Positional = s
  BY DEF Positional
<1> HIDE DEF S
<1>3. \A i, j \in DOMAIN s : i < j => s[i] < s[j]
  BY <1>1, InOrderAll
<1>4. QED
  BY <1>2, <1>3

\* A parameter's place decides when a keyword is evaluated.
LEMMA SlotIs ==
  ASSUME CallOk, Declared, ParamsOrdered, ~OtherConstructor, NEW vals,
         KeywordsBound(args, vals, KeywordItems), NEW i \in KeywordItems, NEW p \in DOMAIN Params,
         \/ p \in PlainNamed(i)
         \/ PlainNamed(i) = {} /\ Params[p].kind = "kw"
  PROVE  Slot(i) = p
<1>1. i \in ToSet(Others) <=> PlainNamed(i) = {}
  <2>1. (\A q \in PlainNamed(i) : Params[q].kind = "posonly") <=> PlainNamed(i) = {}
    BY DEF KeywordsBound
  <2>2. i \in ToSet(Others) <=> \E n \in DOMAIN Others : Others[n] = i
    BY DEF ToSet
  <2>3. QED
    BY <2>1, <2>2, OthersListed
<1>2. CASE PlainNamed(i) = {}
  <2>1. Slot(i) = Aggregate("kw") /\ Params[p].kind = "kw"
    BY <1>1, <1>2 DEF Slot
  <2>2. \A q \in Of("kw") : q = p
    <3>1. TAKE q \in Of("kw")
    <3>2. q \in DOMAIN Params /\ Params[q].kind = "kw" /\ q \in Nat /\ p \in Nat
      BY ParamsListed DEF Of
    <3>3. ~ (q < p) /\ ~ (p < q)
      BY <2>1, <3>2 DEF ParamsOrdered
    <3>4. QED
      BY <3>2, <3>3
  <2>3. p \in Of("kw")
    BY <2>1 DEF Of
  <2>4. QED
    BY <2>1, <2>2, <2>3 DEF Aggregate
<1>3. CASE p \in PlainNamed(i)
  <2>1. PICK q \in PlainNamed(i) : Params[q].kind # "posonly"
    BY <1>3 DEF KeywordsBound
  <2>2. q = p
    BY <1>3, NamedOnce
  <2>3. PyParams = Params
    BY RegularParams
  <2>4. \A r \in DOMAIN Params : i \in Naming(r) <=> r = p
    BY <1>3, <2>1, <2>2, NamedOnce, NamingIs
  <2>5. (CHOOSE r \in DOMAIN PyParams : i \in Naming(r)) = p
    BY <2>3, <2>4
  <2>6. QED
    BY <1>1, <1>3, <2>5 DEF Slot
<1>4. QED
  BY <1>2, <1>3

\* What a parameter is bound to, by what gives it.
LEMMA PartsAre ==
  ASSUME BindInv, ResultInv, phase = "entered", NEW vals,
         Resolved(args, vals, AllDefault), NEW p \in DOMAIN Params, NEW m \in Parts(p)
  PROVE  \/ m = 1 /\ Part(p, m) = Default(p)
         \/ /\ m = 1
            /\ \E n \in DOMAIN Positional :
                 n \in DOMAIN vals /\ Positional[n] = p /\ Part(p, m) = vals[n]
         \/ /\ Params[p].kind = "var" /\ Len(Positional) + m \in DOMAIN vals
            /\ Part(p, m) = vals[Len(Positional) + m]
         \/ /\ Params[p].kind \notin Aggregates /\ ~Ranked(vals, p) /\ m = 1
            /\ \E i \in KeywordItems : p \in PlainNamed(i) /\ Part(p, m) = Item(i)
         \/ /\ Params[p].kind = "kw" /\ args[p] \in Displays
            /\ Lists(args[p].parts, OtherItems, Written) /\ m \in DOMAIN args[p].parts
            /\ Part(p, m) = args[p].parts[m]
<1>1. /\ CallOk /\ Lists(vals, ItemValues, Taken) /\ RanksBound(args, vals)
      /\ KeywordsBound(args, vals, KeywordItems) /\ DisplaysBound(args, vals)
      /\ OthersUnset(args, vals, KeywordItems, AllDefault) /\ Declared
      /\ args[p] \in Bindable(p)
  BY ArgOpsChecked DEF BindInv, Resolved, ResultInv
<1>2. /\ Len(vals) \in Nat /\ DOMAIN vals = 1 .. Len(vals)
      /\ \A n \in DOMAIN vals : vals[n] \in ItemExprs
      /\ Len(Positional) \in Nat /\ DOMAIN Positional = 1 .. Len(Positional)
      /\ \A n \in DOMAIN Positional : Positional[n] = p => Params[p].kind \notin Aggregates
  BY <1>1, SameLength, PositionalListed DEF ItemValues, Ordinary, Aggregates
<1>3. \A e \in Displays : e \notin ItemExprs /\ e # Default(p) /\ e.parts \in Seq(ItemExprs)
                          /\ e.sort \in {"list", "dict"}
  BY DEF Displays, ItemExprs, Exprs, Default
<1>4. CASE Params[p].kind = "var"
  <2>1. args[p].sort = "list" /\ Rest(vals, Len(vals), args[p].parts)
    BY <1>1, <1>4 DEF DisplaysBound
  <2>2. args[p] \in Displays
    <3>1. args[p] \notin ItemExprs /\ args[p] # Default(p)
      BY <2>1 DEF ItemExprs, Exprs, Default
    <3>2. QED
      BY <1>1, <3>1 DEF Bindable
  <2> DEFINE parts == args[p].parts
             L == Len(Positional)
             c == Len(vals)
  <2>3. m \in 1 .. Len(parts) /\ Part(p, m) = parts[m]
    BY <2>2 DEF Parts, Part
  <2>4. Len(parts) = (IF c > L THEN c - L ELSE 0) /\ \A n \in 1 .. Len(parts) : parts[n] = vals[L + n]
    BY <2>1 DEF Rest
  <2> HIDE DEF parts, L, c
  <2>5. L + m \in 1 .. c
    <3>1. L \in Nat /\ c \in Nat
      BY <1>2 DEF L, c
    <3>2. c > L
      <4>1. CASE ~ (c > L)
        <5>1. m \in 1 .. 0
          BY <2>3, <2>4, <4>1
        <5>2. QED
          BY <5>1
      <4>2. QED
        BY <4>1
    <3>3. m \in 1 .. (c - L)
      BY <2>3, <2>4, <3>2
    <3>4. QED
      BY <3>1, <3>2, <3>3
  <2>6. QED
    BY <1>2, <1>4, <2>3, <2>4, <2>5 DEF L, c
<1>5. CASE Params[p].kind = "kw"
  <2>1. args[p].sort = "dict" /\ Lists(args[p].parts, OtherItems, Written)
    BY <1>1, <1>5 DEF DisplaysBound
  <2>2. args[p] \in Displays
    <3>1. args[p] \notin ItemExprs /\ args[p] # Default(p)
      BY <2>1 DEF ItemExprs, Exprs, Default
    <3>2. QED
      BY <1>1, <3>1 DEF Bindable
  <2>3. m \in DOMAIN args[p].parts /\ Part(p, m) = args[p].parts[m]
    BY <1>3, <2>2 DEF Parts, Part
  <2>4. QED
    BY <1>5, <2>1, <2>2, <2>3
<1>6. ASSUME args[p] \in ItemExprs \cup {Default(p)} PROVE m = 1 /\ Part(p, m) = args[p]
  BY <1>3, <1>6 DEF Parts, Part
<1>7. CASE Ranked(vals, p)
  <2>1. PICK n \in DOMAIN Positional : Positional[n] = p /\ n <= Len(vals)
    BY <1>7 DEF Ranked
  <2>2. n \in DOMAIN vals /\ args[p] = vals[n]
    BY <1>1, <1>2, <2>1 DEF RanksBound
  <2>3. QED
    BY <1>2, <1>6, <2>1, <2>2
<1>8. CASE Params[p].kind \notin Aggregates /\ ~Ranked(vals, p)
           /\ \E i \in KeywordItems : p \in PlainNamed(i)
  <2>1. PICK i \in KeywordItems : p \in PlainNamed(i)
    BY <1>8
  <2>2. args[p] = Item(i)
    BY <1>1, <2>1, NamedOnce DEF KeywordsBound
  <2>3. Item(i) \in ItemExprs
    BY <1>1, ElementIn DEF KeywordItems
  <2>4. QED
    BY <1>6, <1>8, <2>1, <2>2, <2>3
<1>9. CASE Params[p].kind \notin Aggregates /\ ~Ranked(vals, p)
           /\ ~ \E i \in KeywordItems : p \in PlainNamed(i)
  <2>1. args[p] = Default(p)
    BY <1>1, <1>9 DEF OthersUnset, AllDefault
  <2>2. QED
    BY <1>6, <2>1
<1>10. QED
  BY <1>4, <1>5, <1>7, <1>8, <1>9 DEF Aggregates

\* Where a part comes from: a value, or a keyword item.
GivenValue(vals, p, m, n) ==
  /\ n \in DOMAIN vals /\ Part(p, m) = vals[n]
  /\ \/ m = 1 /\ n \in DOMAIN Positional /\ Positional[n] = p
     \/ Params[p].kind = "var" /\ n = Len(Positional) + m

GivenKeyword(vals, p, m, i) ==
  /\ i \in KeywordItems /\ Part(p, m) = Item(i)
  /\ \/ Params[p].kind \notin Aggregates /\ ~Ranked(vals, p) /\ m = 1 /\ p \in PlainNamed(i)
     \/ /\ Params[p].kind = "kw" /\ PlainNamed(i) = {} /\ m \in DOMAIN args[p].parts
        /\ Lists(args[p].parts, OtherItems, Written) /\ Part(p, m) = args[p].parts[m]

LEMMA PartsGiven ==
  ASSUME BindInv, ResultInv, phase = "entered", NEW vals,
         Resolved(args, vals, AllDefault), NEW p \in DOMAIN Params, NEW m \in Parts(p)
  PROVE  \/ Part(p, m) = Default(p)
         \/ \E n : GivenValue(vals, p, m, n)
         \/ \E i : GivenKeyword(vals, p, m, i)
<1>1. CASE /\ Params[p].kind = "kw" /\ args[p] \in Displays
           /\ Lists(args[p].parts, OtherItems, Written) /\ m \in DOMAIN args[p].parts
           /\ Part(p, m) = args[p].parts[m]
  <2>1. Part(p, m) \in OtherItems
    <3>1. PICK s : s = args[p].parts
      OBVIOUS
    <3>2. s \in Seq(OtherItems) /\ m \in DOMAIN s
      BY <1>1, <3>1 DEF Lists
    <3>3. s[m] \in OtherItems
      BY <3>2
    <3>4. QED
      BY <1>1, <3>1, <3>3
  <2>2. PICK e : e = Part(p, m)
    OBVIOUS
  <2>3. e \in ItemExprs /\ e.item \in KeywordItems /\ e.elem = 0 /\ PlainNamed(e.item) = {}
    BY <2>1, <2>2 DEF OtherItems
  <2>4. e = Item(e.item)
    BY <2>3, ExprFields, ElementIn DEF BindInv, KeywordItems
  <2>5. GivenKeyword(vals, p, m, e.item)
    BY <1>1, <2>2, <2>3, <2>4 DEF GivenKeyword
  <2>6. QED
    BY <2>5
<1>2. CASE \E n \in DOMAIN Positional :
             m = 1 /\ n \in DOMAIN vals /\ Positional[n] = p /\ Part(p, m) = vals[n]
  BY <1>2 DEF GivenValue
<1>3. CASE /\ Params[p].kind = "var" /\ Len(Positional) + m \in DOMAIN vals
           /\ Part(p, m) = vals[Len(Positional) + m]
  BY <1>3 DEF GivenValue
<1>4. CASE /\ Params[p].kind \notin Aggregates /\ ~Ranked(vals, p) /\ m = 1
           /\ \E i \in KeywordItems : p \in PlainNamed(i) /\ Part(p, m) = Item(i)
  BY <1>4 DEF GivenKeyword
<1>5. QED
  BY <1>1, <1>2, <1>3, <1>4, PartsAre

\* What is given is among the expressions that are evaluated.
LEMMA GivenBound ==
  ASSUME CallOk, NEW vals, Lists(vals, ItemValues, Taken), NEW p, NEW m
  PROVE  /\ \A n : GivenValue(vals, p, m, n) => Part(p, m) \in ItemValues
         /\ \A i : GivenKeyword(vals, p, m, i) =>
              Part(p, m) \in KeywordExprs /\ Part(p, m).item = i
         /\ Part(p, m) \in ItemBound => Part(p, m) # Default(p)
         /\ ItemValues \cap KeywordExprs = {}
<1>1. \A n : GivenValue(vals, p, m, n) => Part(p, m) \in ItemValues
  BY SameLength DEF GivenValue
<1>2. \A i : GivenKeyword(vals, p, m, i) =>
        Part(p, m) \in KeywordExprs /\ Part(p, m).item = i
  BY ElementIn DEF GivenKeyword, KeywordExprs, KeywordItems
<1>3. ItemBound \subseteq ItemExprs /\ Default(p) \notin ItemExprs
  BY DEF ItemBound, ItemValues, KeywordExprs, ItemExprs, Exprs, Default
<1>4. ItemValues \cap KeywordExprs = {}
  BY DEF ItemValues, KeywordExprs, KeywordItems
<1>5. QED
  BY <1>1, <1>2, <1>3, <1>4

\* Of two values the one of the earlier parameter, or the earlier part, was taken first.
LEMMA ValuesAscend ==
  ASSUME CallOk, ParamsOrdered, NEW vals, Lists(vals, ItemValues, Taken),
         NEW p \in DOMAIN Params, NEW q \in DOMAIN Params, NEW m \in Nat, NEW k \in Nat,
         p < q \/ (p = q /\ m < k), m # 0, k # 0,
         NEW a, GivenValue(vals, p, m, a), NEW b, GivenValue(vals, q, k, b)
  PROVE  a < b
<1>1. /\ a \in Nat /\ b \in Nat /\ p \in Nat /\ q \in Nat /\ Len(Positional) \in Nat
      /\ DOMAIN Positional = 1 .. Len(Positional)
  BY SameLength, PositionalListed, ParamsListed DEF GivenValue
<1>2. \A x \in DOMAIN Positional : Params[Positional[x]].kind \in {"posonly", "normal"}
  BY PositionalListed DEF Ordinary
<1>3. CASE m = 1 /\ a \in DOMAIN Positional /\ Positional[a] = p
  <2>1. CASE k = 1 /\ b \in DOMAIN Positional /\ Positional[b] = q
    <3>1. p < q
      BY <1>3, <2>1
    <3>2. a # b /\ ~ (b < a)
      BY <1>1, <1>3, <2>1, <3>1, PositionalAscends
    <3>3. QED
      BY <1>1, <3>2
  <2>2. CASE Params[q].kind = "var" /\ b = Len(Positional) + k
    BY <1>1, <1>3, <2>2
  <2>3. QED
    BY <2>1, <2>2 DEF GivenValue
<1>4. CASE Params[p].kind = "var" /\ a = Len(Positional) + m
  <2>1. CASE k = 1 /\ b \in DOMAIN Positional /\ Positional[b] = q
    <3>1. Params[q].kind \in {"posonly", "normal"}
      BY <1>2, <2>1
    <3>2. p < q
      BY <1>4, <3>1
    <3>3. QED
      BY <1>4, <3>1, <3>2 DEF ParamsOrdered
  <2>2. CASE Params[q].kind = "var" /\ b = Len(Positional) + k
    <3>1. p = q /\ m < k
      BY <1>4, <2>2 DEF ParamsOrdered
    <3>2. QED
      BY <1>1, <1>4, <2>2, <3>1
  <2>3. QED
    BY <2>1, <2>2 DEF GivenValue
<1>5. QED
  BY <1>3, <1>4 DEF GivenValue

\* No keyword goes to a parameter before one that takes a value.
LEMMA ValuesFirst ==
  ASSUME CallOk, ParamsOrdered, NEW vals, Lists(vals, ItemValues, Taken),
         NEW p \in DOMAIN Params, NEW q \in DOMAIN Params, NEW m \in Nat, NEW k \in Nat,
         p < q \/ (p = q /\ m < k), k # 0,
         NEW i, GivenKeyword(vals, p, m, i), NEW b, GivenValue(vals, q, k, b)
  PROVE  FALSE
<1>1. /\ b \in 1 .. Len(vals) /\ Len(vals) \in Nat /\ p \in Nat /\ q \in Nat
      /\ Len(Positional) \in Nat /\ DOMAIN Positional = 1 .. Len(Positional)
      /\ Params[p].kind \in Kinds
  BY SameLength, PositionalListed, ParamsListed DEF GivenValue
<1>2. \A x \in DOMAIN Positional : Params[Positional[x]].kind \in {"posonly", "normal"}
  BY PositionalListed DEF Ordinary
<1>3. Params[q].kind \in {"posonly", "normal", "var"}
  BY <1>2 DEF GivenValue
<1>4. CASE Params[p].kind = "kw"
  <2>1. p # q
    BY <1>3, <1>4
  <2>2. QED
    BY <1>4, <2>1 DEF ParamsOrdered
<1>5. CASE Params[p].kind = "kwonly"
  <2>1. p # q
    BY <1>3, <1>5
  <2>2. QED
    BY <1>3, <1>5, <2>1 DEF ParamsOrdered
<1>6. CASE Params[p].kind \notin {"kw", "kwonly"}
  <2>1. ~Ranked(vals, p) /\ Params[p].kind \notin Aggregates /\ m = 1
    BY <1>6 DEF GivenKeyword
  <2>2. Ordinary(p)
    BY <1>1, <1>6, <2>1 DEF Ordinary, Kinds, Aggregates
  <2>3. PICK a \in DOMAIN Positional : Positional[a] = p
    BY <2>2, PositionalListed
  <2>4. a > Len(vals) /\ a \in Nat /\ a <= Len(Positional)
    BY <1>1, <2>1, <2>3 DEF Ranked
  <2>5. b \in DOMAIN Positional /\ Positional[b] = q
    BY <1>1, <2>4 DEF GivenValue
  <2>6. b < a
    BY <1>1, <2>4
  <2>7. q < p
    BY <2>3, <2>5, <2>6, PositionalAscends
  <2>8. QED
    BY <1>1, <2>7
<1>7. QED
  BY <1>4, <1>5, <1>6

\* Of two keywords the one of the earlier parameter, or written first, is the earlier part.
LEMMA KeywordsAscend ==
  ASSUME CallOk, Declared, ParamsOrdered, ~OtherConstructor, NEW vals,
         KeywordsBound(args, vals, KeywordItems),
         NEW p \in DOMAIN Params, NEW q \in DOMAIN Params, NEW m \in Nat, NEW k \in Nat,
         p < q \/ (p = q /\ m < k),
         NEW i, GivenKeyword(vals, p, m, i), NEW j, GivenKeyword(vals, q, k, j)
  PROVE  Slot(i) < Slot(j) \/ (Slot(i) = Slot(j) /\ i < j)
<1>1. Slot(i) = p /\ i \in KeywordItems
  BY SlotIs DEF GivenKeyword
<1>2. Slot(j) = q /\ j \in KeywordItems
  BY SlotIs DEF GivenKeyword
<1>3. CASE p = q /\ m < k
  <2>1. m # 1 \/ k # 1
    BY <1>3
  <2>2. Params[p].kind = "kw"
    BY <1>3, <2>1 DEF GivenKeyword, Aggregates
  <2>3. PICK s : s = args[p].parts
    OBVIOUS
  <2>4. /\ m \in DOMAIN s /\ k \in DOMAIN s /\ Lists(s, OtherItems, Written)
        /\ s[m] = Item(i) /\ s[k] = Item(j)
    BY <1>3, <2>2, <2>3 DEF GivenKeyword, Aggregates
  <2>5. << Item(i), Item(j) >> \in Written
    BY <1>3, <2>4 DEF Lists
  <2>6. Item(i).item = i /\ Item(i).elem = 0 /\ Item(j).item = j /\ Item(j).elem = 0
    BY DEF Item
  <2>7. i < j
    BY <2>5, <2>6 DEF Written, Before
  <2>8. QED
    BY <1>1, <1>2, <1>3, <2>7
<1>4. QED
  BY <1>1, <1>2, <1>3

\* The parts are evaluated in the order of the parameters.
LEMMA PartsOrdered ==
  ASSUME BindInv, ResultInv, ParamsOrdered, phase = "entered", ~OtherConstructor, NEW vals,
         Resolved(args, vals, AllDefault),
         NEW p \in DOMAIN Params, NEW q \in DOMAIN Params,
         NEW m \in Parts(p), NEW k \in Parts(q), p < q \/ (p = q /\ m < k),
         Part(p, m) # Default(p), Part(q, k) # Default(q)
  PROVE  << Part(p, m), Part(q, k) >> \in Evaluates
<1>1. /\ CallOk /\ Declared /\ Lists(vals, ItemValues, Taken)
      /\ KeywordsBound(args, vals, KeywordItems)
  BY DEF BindInv, ResultInv, Resolved
<1>2. /\ (\E n : GivenValue(vals, p, m, n)) \/ (\E i : GivenKeyword(vals, p, m, i))
      /\ (\E n : GivenValue(vals, q, k, n)) \/ (\E i : GivenKeyword(vals, q, k, i))
  BY PartsGiven
<1>3. m \in Nat \ {0} /\ k \in Nat \ {0}
  <2>1. 1 .. Len(args[p].parts) \subseteq Nat \ {0} /\ 1 .. Len(args[q].parts) \subseteq Nat \ {0}
    OBVIOUS
  <2>2. QED
    BY <2>1 DEF Parts
<1>4. CASE \E a : GivenValue(vals, p, m, a)
  <2>1. PICK a : GivenValue(vals, p, m, a)
    BY <1>4
  <2>2. Part(p, m) \in ItemValues
    BY <1>1, <2>1, GivenBound
  <2>3. CASE \E b : GivenValue(vals, q, k, b)
    <3>1. PICK b : GivenValue(vals, q, k, b)
      BY <2>3
    <3>2. Part(q, k) \in ItemValues
      BY <1>1, <3>1, GivenBound
    <3>3. a < b
      BY <1>1, <1>3, <2>1, <3>1, ValuesAscend
    <3>4. << Part(p, m), Part(q, k) >> \in Taken
      BY <1>1, <2>1, <3>1, <3>3 DEF GivenValue, Lists
    <3>5. QED
      BY <2>2, <3>2, <3>4 DEF Evaluates, ItemBound
  <2>4. CASE \E j : GivenKeyword(vals, q, k, j)
    <3>1. Part(q, k) \in KeywordExprs
      BY <1>1, <2>4, GivenBound
    <3>2. QED
      BY <2>2, <3>1 DEF Evaluates, ItemBound
  <2>5. QED
    BY <1>2, <2>3, <2>4
<1>5. CASE \E i : GivenKeyword(vals, p, m, i)
  <2>1. PICK i : GivenKeyword(vals, p, m, i)
    BY <1>5
  <2>2. Part(p, m) \in KeywordExprs /\ Part(p, m).item = i
    BY <1>1, <2>1, GivenBound
  <2>3. CASE \E b : GivenValue(vals, q, k, b)
    <3>1. PICK b : GivenValue(vals, q, k, b)
      BY <2>3
    <3>2. QED
      BY <1>1, <1>3, <2>1, <3>1, ValuesFirst
  <2>4. CASE \E j : GivenKeyword(vals, q, k, j)
    <3>1. PICK j : GivenKeyword(vals, q, k, j)
      BY <2>4
    <3>2. Part(q, k) \in KeywordExprs /\ Part(q, k).item = j
      BY <1>1, <3>1, GivenBound
    <3>3. Slot(i) < Slot(j) \/ (Slot(i) = Slot(j) /\ i < j)
      BY <1>1, <1>3, <2>1, <3>1, KeywordsAscend
    <3>4. QED
      BY <2>2, <3>2, <3>3 DEF Evaluates, ItemBound
  <2>5. QED
    BY <1>2, <2>3, <2>4
<1>6. QED
  BY <1>2, <1>4, <1>5

\* Every expression the items give is a part of what a parameter is bound to.
LEMMA PartsAll ==
  ASSUME BindInv, ResultInv, phase = "entered", NEW vals,
         Resolved(args, vals, AllDefault), NEW e \in ItemBound
  PROVE  \E p \in DOMAIN Params : \E m \in Parts(p) : Part(p, m) = e
<1>1. /\ CallOk /\ Declared /\ Lists(vals, ItemValues, Taken) /\ RanksBound(args, vals)
      /\ Enough(vals) /\ DisplaysBound(args, vals) /\ KeywordsBound(args, vals, KeywordItems)
      /\ \A p \in DOMAIN Params : args[p] \in Bindable(p)
  BY ArgOpsChecked DEF BindInv, ResultInv, Resolved
<1>2. ASSUME NEW p \in DOMAIN Params, args[p] = e PROVE 1 \in Parts(p) /\ Part(p, 1) = e
  <2>1. e \notin Displays
    BY DEF ItemBound, ItemValues, KeywordExprs, ItemExprs, Exprs, Displays
  <2>2. QED
    BY <1>2, <2>1 DEF Parts, Part
<1>3. ASSUME NEW p \in DOMAIN Params, Params[p].kind \in Aggregates,
             args[p].sort \in {"list", "dict"}
      PROVE  args[p] \in Displays /\ Parts(p) = 1 .. Len(args[p].parts)
             /\ \A m \in Parts(p) : Part(p, m) = args[p].parts[m]
  <2>1. args[p] \notin ItemExprs
    BY <1>3 DEF ItemExprs, Exprs
  <2>2. args[p] \in Displays
    BY <1>1, <1>3, <2>1 DEF Bindable
  <2>3. QED
    BY <2>2 DEF Parts, Part
<1>4. CASE e \in ItemValues
  <2>1. PICK n \in DOMAIN vals : vals[n] = e
    BY <1>1, <1>4 DEF Lists
  <2>2. /\ n \in 1 .. Len(vals) /\ Len(vals) \in Nat /\ Len(Positional) \in Nat
        /\ DOMAIN Positional = 1 .. Len(Positional)
    BY <1>1, <2>1, SameLength, PositionalListed
  <2>3. CASE n <= Len(Positional)
    <3>1. n \in DOMAIN Positional /\ n <= Len(vals)
      BY <2>2, <2>3
    <3>2. Positional[n] \in DOMAIN Params /\ args[Positional[n]] = e
      BY <1>1, <2>1, <3>1, PositionalListed DEF RanksBound
    <3>3. QED
      BY <1>2, <3>2
  <2>4. CASE n > Len(Positional)
    <3>1. PICK p \in DOMAIN Params : Params[p].kind = "var"
      BY <1>1, <2>2, <2>4 DEF Enough, Of
    <3>2. args[p].sort = "list" /\ Rest(vals, Len(vals), args[p].parts)
      BY <1>1, <3>1 DEF DisplaysBound
    <3>3. Parts(p) = 1 .. Len(args[p].parts) /\ \A m \in Parts(p) : Part(p, m) = args[p].parts[m]
      BY <1>3, <3>1, <3>2 DEF Aggregates
    <3>4. PICK s, L : s = args[p].parts /\ L = Len(s)
      OBVIOUS
    <3>5. L = Len(vals) - Len(Positional) /\ \A m \in 1 .. L : s[m] = vals[Len(Positional) + m]
      BY <2>2, <2>4, <3>2, <3>4 DEF Rest
    <3>6. n - Len(Positional) \in 1 .. L /\ Len(Positional) + (n - Len(Positional)) = n
      BY <2>2, <2>4, <3>5
    <3>7. s[n - Len(Positional)] = e
      BY <2>1, <3>5, <3>6
    <3>8. QED
      BY <3>3, <3>4, <3>6, <3>7
  <2>5. QED
    BY <2>2, <2>3, <2>4
<1>5. CASE e \in KeywordExprs
  <2>1. e \in ItemExprs /\ e.item \in KeywordItems /\ e.elem = 0
    BY <1>5 DEF KeywordExprs
  <2>2. e = Item(e.item)
    BY <1>1, <2>1, ExprFields, ElementIn
  <2>3. CASE PlainNamed(e.item) = {}
    <3>1. PICK p \in DOMAIN Params : Params[p].kind = "kw"
      BY <1>1, <2>1, <2>3 DEF KeywordsBound, Of
    <3>2. args[p].sort = "dict" /\ Lists(args[p].parts, OtherItems, Written)
      BY <1>1, <3>1 DEF DisplaysBound
    <3>3. Parts(p) = 1 .. Len(args[p].parts) /\ \A m \in Parts(p) : Part(p, m) = args[p].parts[m]
      BY <1>3, <3>1, <3>2 DEF Aggregates
    <3>4. e \in OtherItems
      BY <2>1, <2>3 DEF OtherItems
    <3>5. PICK s : s = args[p].parts
      OBVIOUS
    <3>6. s \in Seq(OtherItems) /\ \E m \in DOMAIN s : s[m] = e
      BY <3>2, <3>4, <3>5 DEF Lists
    <3>7. \E m \in 1 .. Len(s) : s[m] = e
      BY <3>6
    <3>8. QED
      BY <3>3, <3>5, <3>7
  <2>4. CASE PlainNamed(e.item) # {}
    <3>1. PICK p \in PlainNamed(e.item) : args[p] = Item(e.item)
      BY <1>1, <2>1, <2>4 DEF KeywordsBound
    <3>2. p \in DOMAIN Params
      BY <1>1, NamedOnce
    <3>3. QED
      BY <1>2, <2>2, <3>1, <3>2
  <2>5. QED
    BY <2>3, <2>4
<1>6. QED
  BY <1>4, <1>5 DEF ItemBound

\* The operations of a parameter are those of its parts, and a default's does not count.
LEMMA PartOps ==
  ASSUME BindInv, ResultInv, phase = "entered", NEW p \in DOMAIN Params
  PROVE  /\ 1 .. Len(ArgOps[p]) = Parts(p)
         /\ \A m \in Parts(p) :
              /\ Part(p, m) \in ItemExprs => ArgOps[p][m].from = Value(Part(p, m))
              /\ Part(p, m) = Default(p) => ~Counted(ArgOps[p][m].from)
<1>1. /\ CallOk /\ args[p] \in Bindable(p) /\ Fits(args[p], p) /\ p \in Nat \ {0}
      /\ ArgOps[p] = Ops(args[p], p)
  BY ArgOpsChecked, ArgOpsListed, ParamsListed DEF BindInv
<1>2. PICK e, o : e = args[p] /\ o = ArgOps[p]
  OBVIOUS
<1>3. /\ e \in Displays => /\ Len(o) = Len(e.parts)
                           /\ \A n \in 1 .. Len(e.parts) :
                                o[n].from = << e.parts[n].item, e.parts[n].elem >>
      /\ e \in ItemExprs => Len(o) = 1 /\ o[1].from = << e.item, e.elem >>
      /\ e = Default(p) => /\ Len(o) = 1
                           /\ o[1].from = IF call.shadowed THEN << -1, p >> ELSE << 0, p >>
  <2>1. e \in Bindable(p) /\ Fits(e, p) /\ o = Ops(e, p)
    BY <1>2, <1>1
  <2>2. QED
    BY <1>1, <2>1, OpsAre
<1>4. CASE args[p] \in Displays
  <2>1. /\ Len(ArgOps[p]) = Len(args[p].parts)
        /\ \A n \in 1 .. Len(args[p].parts) :
             ArgOps[p][n].from = << args[p].parts[n].item, args[p].parts[n].elem >>
    BY <1>2, <1>4, <1>3
  <2>2. Parts(p) = 1 .. Len(args[p].parts) /\ \A m : Part(p, m) = args[p].parts[m]
    BY <1>4 DEF Parts, Part
  <2>3. \A n \in 1 .. Len(args[p].parts) : args[p].parts[n] \in ItemExprs
    <3>1. PICK s : s = args[p].parts
      OBVIOUS
    <3>2. s \in Seq(ItemExprs)
      BY <1>4, <3>1 DEF Displays
    <3>3. \A n \in 1 .. Len(s) : s[n] \in ItemExprs
      BY <3>2
    <3>4. QED
      BY <3>1, <3>3
  <2>4. Default(p) \notin ItemExprs
    BY DEF ItemExprs, Exprs, Default
  <2>5. QED
    BY <2>1, <2>2, <2>3, <2>4 DEF Value
<1>5. CASE args[p] \notin Displays
  <2>1. Parts(p) = {1} /\ \A m : Part(p, m) = args[p]
    BY <1>5 DEF Parts, Part
  <2>2. args[p] \in ItemExprs \cup {Default(p)}
    BY <1>1, <1>5 DEF Bindable
  <2>3. Len(ArgOps[p]) = 1
    BY <1>2, <1>3, <2>2
  <2>4. args[p] \in ItemExprs => ArgOps[p][1].from = Value(args[p])
    BY <1>2, <1>3 DEF Value
  <2>5. args[p] = Default(p) => ~Counted(ArgOps[p][1].from)
    <3>1. HAVE args[p] = Default(p)
    <3>2. ArgOps[p][1].from = << -1, p >> \/ ArgOps[p][1].from = << 0, p >>
      BY <1>2, <1>3, <3>1
    <3>3. ~Counted(<< -1, p >>) /\ ~Counted(<< 0, p >>)
      BY <1>1 DEF Counted
    <3>4. QED
      BY <3>2, <3>3
  <2>6. 1 .. 1 = {1}
    OBVIOUS
  <2>7. QED
    BY <2>1, <2>3, <2>4, <2>5, <2>6
<1>6. QED
  BY <1>4, <1>5

\* Every keyword has a parameter whose turn it takes.
LEMMA SlotTyped ==
  ASSUME BindInv, ResultInv, ParamsOrdered, phase = "entered", ~OtherConstructor, NEW vals,
         Resolved(args, vals, AllDefault), NEW i \in KeywordItems
  PROVE  Slot(i) \in Nat
<1>1. /\ CallOk /\ Declared /\ Lists(vals, ItemValues, Taken)
      /\ KeywordsBound(args, vals, KeywordItems)
  BY DEF BindInv, ResultInv, Resolved
<1>2. Item(i) \in KeywordExprs /\ Item(i).item = i
  BY <1>1, ElementIn DEF KeywordExprs, KeywordItems
<1>3. PICK p \in DOMAIN Params : \E m \in Parts(p) : Part(p, m) = Item(i)
  BY <1>2, PartsAll DEF ItemBound
<1>4. PICK m \in Parts(p) : Part(p, m) = Item(i)
  BY <1>3
<1>5. PICK j : GivenKeyword(vals, p, m, j)
  <2>1. ~ \E n : GivenValue(vals, p, m, n)
    BY <1>1, <1>2, <1>4, GivenBound
  <2>2. Part(p, m) # Default(p)
    BY <1>1, <1>2, <1>4, GivenBound DEF ItemBound
  <2>3. QED
    BY <2>1, <2>2, PartsGiven
<1>6. j = i
  BY <1>1, <1>2, <1>4, <1>5, GivenBound
<1>7. Slot(i) = p
  BY <1>1, <1>5, <1>6, SlotIs DEF GivenKeyword
<1>8. QED
  BY <1>1, <1>7, ParamsListed

\* No expression is evaluated before itself.
LEMMA EvaluatesOnce ==
  ASSUME BindInv, ResultInv, ParamsOrdered, phase = "entered", ~OtherConstructor, NEW vals,
         Resolved(args, vals, AllDefault), NEW e \in ItemBound
  PROVE  << e, e >> \notin Evaluates
<1>1. CallOk
  BY DEF BindInv
<1>2. CASE e \in ItemValues
  <2>1. e \notin KeywordExprs
    BY <1>2 DEF ItemValues, KeywordExprs, KeywordItems
  <2>2. << e, e >> \notin Taken
    BY <1>1, <1>2, ValuesAsymmetric DEF Asymmetric
  <2>3. QED
    BY <2>1, <2>2 DEF Evaluates
<1>3. CASE e \in KeywordExprs
  <2>1. e \notin ItemValues
    BY <1>3 DEF ItemValues, KeywordExprs, KeywordItems
  <2>2. e.item \in KeywordItems /\ e.item \in Nat
    BY <1>1, <1>3, ExprFields DEF KeywordExprs
  <2>3. PICK k, i : k = Slot(e.item) /\ i = e.item
    OBVIOUS
  <2>4. k \in Nat /\ i \in Nat
    BY <2>2, <2>3, SlotTyped
  <2>5. ~ (k < k \/ (k = k /\ i < i))
    BY <2>4
  <2>6. QED
    BY <2>1, <2>3, <2>5 DEF Evaluates
<1>4. QED
  BY <1>2, <1>3 DEF ItemBound

\* Where the expressions of the items, and what the call is applied to, are among what
\* was evaluated.
EvaluationIs(pos, c) ==
  /\ \A e \in ItemBound : pos[e] \in 1 .. Len(Evaluated) /\ Evaluated[pos[e]] = e.item
  /\ \A e, f \in ItemBound : pos[e] < pos[f] => << e, f >> \in Evaluates
  /\ \A e, f \in ItemBound : pos[e] = pos[f] => e = f
  /\ \A x \in 1 .. Len(Evaluated) : (\E e \in ItemBound : x = pos[e]) \/ (HasCallee /\ x = c)
  /\ HasCallee => c \in 1 .. Len(Evaluated) /\ Evaluated[c] = 0
  /\ call.callee \in CalleeFirst => \A e \in ItemBound : c < pos[e]
  /\ call.callee \in CalleeLast => \A e \in ItemBound : pos[e] < c

LEMMA ItemsEvaluated ==
  ASSUME BindInv, ResultInv, TraceInv, phase = "entered", ~OtherConstructor
  PROVE  /\ Evaluated \in Seq(Int) /\ Len(Evaluated) \in Nat
         /\ \E pos, c : EvaluationIs(pos, c)
<1>1. CallOk /\ ParamsOrdered /\ trace \in Seq(Int \X Int)
  BY DEF BindInv, TraceInv
<1>2. PICK vals : Resolved(args, vals, AllDefault)
  BY DEF ResultInv, ResolvedOk, Settled
<1>3. PICK at, c0 : OpsLie(at, c0)
  BY TraceLies
<1>4. /\ Evaluated \in Seq(Int) /\ Len(Evaluated) \in Nat
      /\ DOMAIN trace = 1 .. Len(trace)
  BY <1>1, EvaluatedPlaces
<1>5. PICK place :
        /\ \A n \in DOMAIN trace : Counted(trace[n]) =>
             place[n] \in 1 .. Len(Evaluated) /\ Evaluated[place[n]] = trace[n][1]
        /\ \A x \in 1 .. Len(Evaluated) :
             \E n \in DOMAIN trace : Counted(trace[n]) /\ x = place[n]
        /\ \A m, n \in DOMAIN trace :
             Counted(trace[m]) /\ Counted(trace[n]) /\ m < n => place[m] < place[n]
  BY <1>1, EvaluatedPlaces
<1>6. PICK whose, which : \A e \in ItemBound : /\ whose[e] \in DOMAIN Params
                                               /\ which[e] \in Parts(whose[e])
                                               /\ Part(whose[e], which[e]) = e
  <2> DEFINE w == [e \in ItemBound |-> CHOOSE p \in DOMAIN Params : \E m \in Parts(p) : Part(p, m) = e]
             h == [e \in ItemBound |-> CHOOSE m \in Parts(w[e]) : Part(w[e], m) = e]
  <2>1. ASSUME NEW e \in ItemBound
        PROVE  w[e] \in DOMAIN Params /\ \E m \in Parts(w[e]) : Part(w[e], m) = e
    <3>1. \E p \in DOMAIN Params : \E m \in Parts(p) : Part(p, m) = e
      BY <1>2, PartsAll
    <3>2. QED
      BY <3>1
  <2> HIDE DEF w
  <2>2. ASSUME NEW e \in ItemBound PROVE h[e] \in Parts(w[e]) /\ Part(w[e], h[e]) = e
    BY <2>1
  <2> HIDE DEF h
  <2>3. QED
    BY <2>1, <2>2
<1>7. PICK x : x = [e \in ItemBound |-> at[whose[e]] + which[e]]
  OBVIOUS
<1>8. PICK pos : pos = [e \in ItemBound |-> place[x[e]]]
  OBVIOUS
<1>9. PICK c : c = place[c0]
  OBVIOUS
<1>10. \A e \in ItemBound : e \in ItemExprs /\ e.item \in Nat \ {0} /\ Counted(Value(e))
                            /\ \A p \in DOMAIN Params : e # Default(p)
  <2>1. TAKE e \in ItemBound
  <2>2. e \in ItemExprs
    BY DEF ItemBound, ItemValues, KeywordExprs
  <2>3. e.item \in Nat \ {0}
    BY <1>1, <2>2, ExprFields
  <2>4. Value(e)[1] = e.item
    BY DEF Value
  <2>5. \A p \in DOMAIN Params : e # Default(p)
    BY <2>2 DEF ItemExprs, Exprs, Default
  <2>6. QED
    BY <2>2, <2>3, <2>4, <2>5 DEF Counted
<1>11. ASSUME NEW p \in DOMAIN Params, NEW m \in Parts(p), Part(p, m) \in ItemBound
       PROVE  /\ at[p] + m \in DOMAIN trace /\ trace[at[p] + m] = Value(Part(p, m))
              /\ at[p] \in Nat /\ m \in Nat /\ m \in 1 .. Len(ArgOps[p])
  <2>1. m \in 1 .. Len(ArgOps[p]) /\ ArgOps[p][m].from = Value(Part(p, m))
    BY <1>10, <1>11, PartOps
  <2>2. at[p] + m \in 1 .. Len(trace) /\ trace[at[p] + m] = ArgOps[p][m].from /\ at[p] \in Nat
    BY <1>3, <2>1 DEF OpsLie
  <2>3. m \in Nat
    BY <2>1
  <2>4. QED
    BY <1>4, <2>1, <2>2, <2>3
<1>12. ASSUME NEW p \in DOMAIN Params, NEW q \in DOMAIN Params,
              NEW m \in Parts(p), NEW k \in Parts(q),
              Part(p, m) \in ItemBound, Part(q, k) \in ItemBound,
              p < q \/ (p = q /\ m < k)
       PROVE  at[p] + m < at[q] + k /\ << Part(p, m), Part(q, k) >> \in Evaluates
  <2>1. Part(p, m) # Default(p) /\ Part(q, k) # Default(q)
    BY <1>10, <1>12
  <2>2. << Part(p, m), Part(q, k) >> \in Evaluates
    BY <1>1, <1>2, <1>12, <2>1, PartsOrdered
  <2>3. /\ at[p] \in Nat /\ m \in Nat /\ m \in 1 .. Len(ArgOps[p])
        /\ at[q] \in Nat /\ k \in Nat /\ k \in 1 .. Len(ArgOps[q])
    BY <1>11, <1>12
  <2>4. at[p] + m < at[q] + k
    <3>1. CASE p < q
      BY <1>3, <2>3, <3>1 DEF OpsLie
    <3>2. CASE p = q /\ m < k
      BY <2>3, <3>2
    <3>3. QED
      BY <1>12, <3>1, <3>2
  <2>5. QED
    BY <2>2, <2>4
<1>13. ASSUME NEW e \in ItemBound
       PROVE  /\ x[e] \in DOMAIN trace /\ Counted(trace[x[e]]) /\ trace[x[e]][1] = e.item
              /\ x[e] = at[whose[e]] + which[e] /\ which[e] \in 1 .. Len(ArgOps[whose[e]])
  <2>1. trace[x[e]] = Value(e) /\ x[e] \in DOMAIN trace /\ x[e] = at[whose[e]] + which[e]
        /\ which[e] \in 1 .. Len(ArgOps[whose[e]])
    BY <1>6, <1>7, <1>11
  <2>2. Value(e)[1] = e.item
    BY DEF Value
  <2>3. QED
    BY <1>10, <2>1, <2>2
<1>14. ASSUME NEW e \in ItemBound
       PROVE  pos[e] \in 1 .. Len(Evaluated) /\ Evaluated[pos[e]] = e.item
  BY <1>5, <1>8, <1>13
<1>15. ASSUME NEW e \in ItemBound, NEW f \in ItemBound
       PROVE  \/ pos[e] < pos[f] /\ << e, f >> \in Evaluates
              \/ pos[f] < pos[e]
              \/ e = f
  <2>1. PICK p, m, q, k : p = whose[e] /\ m = which[e] /\ q = whose[f] /\ k = which[f]
    OBVIOUS
  <2>2. /\ p \in DOMAIN Params /\ m \in Parts(p) /\ Part(p, m) = e /\ p \in Nat
        /\ q \in DOMAIN Params /\ k \in Parts(q) /\ Part(q, k) = f /\ q \in Nat
    BY <1>1, <1>6, <2>1, ParamsListed
  <2>3. m \in Nat /\ k \in Nat
    BY <1>11, <2>2
  <2>4. x[e] = at[p] + m /\ x[f] = at[q] + k
    BY <1>13, <2>1
  <2>5. CASE p < q \/ (p = q /\ m < k)
    <3>1. at[p] + m < at[q] + k /\ << e, f >> \in Evaluates
      BY <1>12, <2>2, <2>5
    <3>2. pos[e] < pos[f]
      BY <1>5, <1>8, <1>13, <2>4, <3>1
    <3>3. QED
      BY <3>1, <3>2
  <2>6. CASE q < p \/ (q = p /\ k < m)
    <3>1. at[q] + k < at[p] + m
      BY <1>12, <2>2, <2>6
    <3>2. pos[f] < pos[e]
      BY <1>5, <1>8, <1>13, <2>4, <3>1
    <3>3. QED
      BY <3>2
  <2>7. CASE p = q /\ m = k
    BY <2>2, <2>7
  <2>8. QED
    BY <2>2, <2>3, <2>5, <2>6, <2>7
<1>16. ASSUME NEW y \in 1 .. Len(Evaluated)
       PROVE  (\E e \in ItemBound : y = pos[e]) \/ (HasCallee /\ y = c)
  <2>1. PICK n \in DOMAIN trace : Counted(trace[n]) /\ y = place[n]
    BY <1>5
  <2>2. \/ \E p \in DOMAIN Params : \E m \in 1 .. Len(ArgOps[p]) : n = at[p] + m
        \/ HasCallee /\ n = c0
    BY <1>3, <1>4, <2>1 DEF OpsLie
  <2>3. CASE HasCallee /\ n = c0
    BY <1>9, <2>1, <2>3
  <2>4. CASE \E p \in DOMAIN Params : \E m \in 1 .. Len(ArgOps[p]) : n = at[p] + m
    <3>1. PICK p \in DOMAIN Params : \E m \in 1 .. Len(ArgOps[p]) : n = at[p] + m
      BY <2>4
    <3>2. PICK m \in 1 .. Len(ArgOps[p]) : n = at[p] + m
      BY <3>1
    <3>3. trace[n] = ArgOps[p][m].from
      BY <1>3, <3>2 DEF OpsLie
    <3>4. m \in Parts(p) /\ Part(p, m) # Default(p)
      BY <2>1, <3>3, PartOps
    <3>5. (\E a : GivenValue(vals, p, m, a)) \/ (\E i : GivenKeyword(vals, p, m, i))
      BY <1>2, <3>4, PartsGiven
    <3>6. PICK e : e = Part(p, m)
      OBVIOUS
    <3>7. e \in ItemBound
      BY <1>1, <1>2, <3>5, <3>6, GivenBound DEF ItemBound, Resolved
    <3>8. PICK q, k : q = whose[e] /\ k = which[e]
      OBVIOUS
    <3>9. q \in DOMAIN Params /\ k \in Parts(q) /\ Part(q, k) = e
      BY <1>6, <3>7, <3>8
    <3>10. << e, e >> \notin Evaluates
      BY <1>1, <1>2, <3>7, EvaluatesOnce
    <3>11. ~ (p < q \/ (p = q /\ m < k)) /\ ~ (q < p \/ (q = p /\ k < m))
      BY <1>12, <3>4, <3>6, <3>7, <3>9, <3>10
    <3>12. p = q /\ m = k
      <4>1. p \in Nat /\ q \in Nat
        BY <1>1, <3>9, ParamsListed
      <4>2. m \in Nat /\ k \in Nat
        BY <1>11, <3>4, <3>6, <3>7, <3>9
      <4>3. QED
        BY <3>11, <4>1, <4>2
    <3>13. n = x[e]
      BY <1>7, <3>2, <3>7, <3>8, <3>12
    <3>14. QED
      BY <1>8, <2>1, <3>7, <3>13
  <2>5. QED
    BY <2>2, <2>3, <2>4
<1>17. ASSUME HasCallee
       PROVE  /\ c \in 1 .. Len(Evaluated) /\ Evaluated[c] = 0
              /\ c0 \in DOMAIN trace /\ Counted(trace[c0])
  <2>1. c0 \in DOMAIN trace /\ trace[c0] = << 0, 0 >>
    BY <1>3, <1>4, <1>17 DEF OpsLie
  <2>2. Counted(<< 0, 0 >>) /\ << 0, 0 >>[1] = 0
    BY DEF Counted
  <2>3. QED
    BY <1>5, <1>9, <2>1, <2>2
<1>18. ASSUME call.callee \in CalleeFirst, NEW e \in ItemBound PROVE c < pos[e]
  <2>1. c0 < x[e] /\ HasCallee
    BY <1>3, <1>6, <1>13, <1>18 DEF OpsLie, HasCallee
  <2>2. QED
    BY <1>5, <1>8, <1>9, <1>13, <1>17, <2>1
<1>19. ASSUME call.callee \in CalleeLast, NEW e \in ItemBound PROVE pos[e] < c
  <2>1. x[e] < c0 /\ HasCallee
    BY <1>3, <1>6, <1>13, <1>19 DEF OpsLie, HasCallee
  <2>2. QED
    BY <1>5, <1>8, <1>9, <1>13, <1>17, <2>1
<1>20. ASSUME NEW e \in ItemBound, NEW f \in ItemBound
       PROVE  /\ pos[e] < pos[f] => << e, f >> \in Evaluates
              /\ pos[e] = pos[f] => e = f
  <2>1. PICK m, n : m = pos[e] /\ n = pos[f]
    OBVIOUS
  <2>2. m \in Nat /\ n \in Nat
    BY <1>4, <1>14, <2>1
  <2>3. (m < n /\ << e, f >> \in Evaluates) \/ n < m \/ (e = f /\ m = n)
    BY <1>15, <2>1
  <2>4. QED
    BY <2>1, <2>2, <2>3
<1>21. EvaluationIs(pos, c)
  BY <1>14, <1>16, <1>17, <1>18, <1>19, <1>20, Zenon DEF EvaluationIs
<1>22. QED
  BY <1>4, <1>21

-------------------------------------------------------------------------------
(* The order Python evaluates in *)

\* What there is to evaluate: the items, and 0 for what the call is applied to.
Callees == IF HasCallee THEN {0} ELSE {}
Plains == Places \ KeywordItems
Evaluands == Callees \cup Plains \cup KeywordItems

InTurn ==
  {x \in Evaluands \X Evaluands :
     \/ x[1] = 0 /\ x[2] # 0
     \/ x[1] \in Plains /\ x[2] \in KeywordItems
     \/ x[1] \in Plains /\ x[2] \in Plains /\ x[1] < x[2]
     \/ x[1] \in KeywordItems /\ x[2] \in KeywordItems /\ x[1] < x[2]}

LEMMA EvaluandsAre ==
  ASSUME CallOk
  PROVE  /\ \A i \in Places : i \in Nat \ {0} /\ i \in Evaluands
         /\ Plains \cup KeywordItems = Places /\ Plains \cap KeywordItems = {}
         /\ \A i \in Evaluands : i \in Nat /\ (i = 0 \/ i \in Places) /\ (i = 0 => HasCallee)
<1>1. \A i \in Places : i \in Nat \ {0}
  BY DEF CallOk, Places
<1>2. Plains \cup KeywordItems = Places /\ Plains \cap KeywordItems = {}
  BY DEF Plains, KeywordItems
<1>3. QED
  BY <1>1, <1>2 DEF Evaluands, Callees

LEMMA InTurnAsymmetric ==
  ASSUME CallOk PROVE Asymmetric(Evaluands, InTurn)
<1>1. SUFFICES ASSUME NEW a \in Evaluands, NEW b \in Evaluands,
                      << a, b >> \in InTurn, << b, a >> \in InTurn
               PROVE  FALSE
  BY DEF Asymmetric
<1>2. a \in Nat /\ b \in Nat /\ 0 \notin Plains /\ 0 \notin KeywordItems
      /\ Plains \cap KeywordItems = {}
  BY EvaluandsAre
<1>3. /\ \/ a = 0 /\ b # 0
         \/ a \in Plains /\ b \in KeywordItems
         \/ a \in Plains /\ b \in Plains /\ a < b
         \/ a \in KeywordItems /\ b \in KeywordItems /\ a < b
      /\ \/ b = 0 /\ a # 0
         \/ b \in Plains /\ a \in KeywordItems
         \/ b \in Plains /\ a \in Plains /\ b < a
         \/ b \in KeywordItems /\ a \in KeywordItems /\ b < a
  BY <1>1 DEF InTurn
<1>4. QED
  BY <1>2, <1>3

LEMMA PyEvaluatedListed ==
  ASSUME CallOk PROVE Lists(PyEvaluated, Evaluands, InTurn)
<1> DEFINE S == {i \in DOMAIN call.items : call.items[i].form # "kw"}
           head == IF call.callee \in CalleeFirst \cup CalleeLast THEN << 0 >> ELSE << >>
           plain == InOrder(S)
           named == Items("kw")
<1>1. Len(call.items) \in Nat /\ S \in SUBSET (1 .. Len(call.items))
  BY DEF CallOk
<1>2. S = Plains
  BY DEF Plains, KeywordItems, Places
<1> HIDE DEF S
<1>3. Lists(plain, Plains, InTurn)
  <2>1. /\ plain \in Seq(S) /\ Len(plain) \in Nat /\ DOMAIN plain = 1 .. Len(plain)
        /\ \A i, j \in DOMAIN plain : i < j => plain[i] < plain[j]
        /\ \A e \in S : \E i \in DOMAIN plain : plain[i] = e
    BY <1>1, InOrderAll, ZenonT(30)
  <2> HIDE DEF plain
  <2>2. \A n \in DOMAIN plain : plain[n] \in Plains /\ plain[n] \in Evaluands
    <3>1. \A n \in DOMAIN plain : plain[n] \in Plains
      BY <1>2, <2>1
    <3>2. QED
      BY <3>1 DEF Evaluands
  <2>3. \A m, n \in DOMAIN plain : m < n => << plain[m], plain[n] >> \in InTurn
    BY <2>1, <2>2 DEF InTurn
  <2>4. QED
    BY <1>2, <2>1, <2>3 DEF Lists
<1>4. Lists(named, KeywordItems, InTurn)
  <2>1. /\ named \in Seq(Places) /\ Len(named) \in Nat /\ DOMAIN named = 1 .. Len(named)
        /\ \A n \in DOMAIN named : named[n] \in KeywordItems
        /\ \A m, n \in DOMAIN named : m < n => named[m] < named[n]
        /\ \A i \in KeywordItems : \E n \in DOMAIN named : named[n] = i
    BY ItemsListed DEF KeywordItems
  <2> HIDE DEF named
  <2>2. named \in Seq(KeywordItems)
    <3>1. named \in [1 .. Len(named) -> KeywordItems]
      BY <2>1
    <3>2. QED
      BY <2>1, <3>1
  <2>3. \A m, n \in DOMAIN named : m < n => << named[m], named[n] >> \in InTurn
    BY <2>1 DEF InTurn, Evaluands
  <2>4. QED
    BY <2>1, <2>2, <2>3 DEF Lists
<1>5. Lists(head, Callees, InTurn)
  <2>1. CASE HasCallee
    <3>1. head = << 0 >> /\ Callees = {0}
      BY <2>1 DEF HasCallee, Callees
    <3> HIDE DEF head
    <3>2. /\ head \in Seq(Callees) /\ DOMAIN head = {1} /\ head[1] = 0
      BY <3>1
    <3>3. QED
      BY <3>1, <3>2 DEF Lists
  <2>2. CASE ~HasCallee
    <3>1. head = << >> /\ Callees = {}
      BY <2>2 DEF HasCallee, Callees
    <3> HIDE DEF head
    <3>2. head \in Seq(Callees) /\ DOMAIN head = {}
      BY <3>1
    <3>3. QED
      BY <3>1, <3>2 DEF Lists
  <2>3. QED
    BY <2>1, <2>2
<1> HIDE DEF head, plain, named
<1>6. \A a \in Callees, b \in Plains : << a, b >> \in InTurn
  BY EvaluandsAre DEF InTurn, Evaluands, Callees, Plains
<1>7. Lists(head \o plain, Callees \cup Plains, InTurn)
  BY <1>3, <1>5, <1>6, ListsJoin
<1>8. \A a \in Callees \cup Plains, b \in KeywordItems : << a, b >> \in InTurn
  BY EvaluandsAre DEF InTurn, Evaluands, Callees, KeywordItems
<1>9. Lists((head \o plain) \o named, (Callees \cup Plains) \cup KeywordItems, InTurn)
  BY <1>4, <1>7, <1>8, ListsJoin
<1>10. PyEvaluated = (head \o plain) \o named
  BY DEF PyEvaluated, head, plain, named, S
<1>11. QED
  BY <1>9, <1>10 DEF Evaluands

LEMMA StarsAre ==
  ASSUME CallOk, NEW i
  PROVE  i \in ToSet(Items("star")) <=> i \in Places /\ call.items[i].form = "star"
<1> DEFINE s == Items("star")
<1>1. /\ \A n \in DOMAIN s : s[n] \in Places /\ call.items[s[n]].form = "star"
      /\ \A j \in Places : call.items[j].form = "star" => \E n \in DOMAIN s : s[n] = j
  BY ItemsListed
<1> HIDE DEF s
<1>2. i \in ToSet(s) <=> i \in Places /\ call.items[i].form = "star"
  BY <1>1 DEF ToSet
<1>3. QED
  BY <1>2 DEF s

\* The values of a call whose starred tuples have one element each.
LEMMA ValuesInTurn ==
  ASSUME CallOk, NEW vals, Lists(vals, ItemValues, Taken), ~PositionalAfterStar,
         \A i \in ToSet(Items("star")) : call.items[i].len = 1,
         NEW e \in ItemValues, NEW f \in ItemValues, << e, f >> \in Taken
  PROVE  e.item < f.item
<1>1. Lists(vals, ItemValues, Written)
  BY PyListed, TakenAsWritten
<1>2. PICK a \in DOMAIN vals : vals[a] = e
  BY DEF Lists
<1>3. PICK b \in DOMAIN vals : vals[b] = f
  BY DEF Lists
<1>4. a \in Nat /\ b \in Nat
  BY SameLength
<1>5. a < b
  <2>1. CASE a = b
    <3>1. << e, e >> \in Taken
      BY <1>2, <1>3, <2>1
    <3>2. QED
      BY <3>1, ValuesAsymmetric DEF Asymmetric
  <2>2. CASE b < a
    <3>1. << f, e >> \in Taken
      BY <1>2, <1>3, <2>2 DEF Lists
    <3>2. QED
      BY <3>1, ValuesAsymmetric DEF Asymmetric
  <2>3. QED
    BY <1>4, <2>1, <2>2
<1>6. << e, f >> \in Written
  BY <1>1, <1>2, <1>3, <1>5 DEF Lists
<1>7. ASSUME NEW g \in ItemValues
      PROVE  /\ g.elem = 0 <=> call.items[g.item].form = "pos"
             /\ g.elem # 0 => g.elem = 1
  <2>1. g \in ItemExprs /\ g.item \in Places /\ g.elem \in Nat
    BY ExprFields DEF ItemValues
  <2>2. CASE call.items[g.item].form = "star"
    <3>1. g.item \in ToSet(Items("star"))
      BY <2>1, <2>2, StarsAre
    <3>2. g.elem \in 1 .. 1
      BY <2>2, <3>1 DEF ItemValues
    <3>3. QED
      BY <2>2, <3>2
  <2>3. CASE call.items[g.item].form # "star"
    BY <2>3 DEF ItemValues
  <2>4. QED
    BY <2>2, <2>3
<1>8. e.item < f.item \/ (e.item = f.item /\ e.elem < f.elem)
  BY <1>6 DEF Written, Before
<1>9. ~ (e.item = f.item /\ e.elem < f.elem)
  <2>1. SUFFICES ASSUME e.item = f.item PROVE e.elem = f.elem /\ e.elem \in Nat
    OBVIOUS
  <2>2. e.elem \in Nat /\ f.elem \in Nat
    BY ExprFields DEF ItemValues
  <2>3. QED
    BY <1>7, <2>1, <2>2
<1>10. QED
  BY <1>8, <1>9

\* Under the conditions of EvaluatesAsWritten everything is evaluated in turn.
LEMMA EvaluatedInTurn ==
  ASSUME BindInv, ResultInv, TraceInv, phase = "entered", ~OtherConstructor,
         KeywordsInOrder, ~PositionalAfterStar,
         \A i \in ToSet(Items("star")) : call.items[i].len = 1,
         call.callee \in CalleeLast => call.items = << >>
  PROVE  Evaluated = PyEvaluated
<1>1. CallOk /\ ParamsOrdered
  BY DEF BindInv, TraceInv
<1>2. PICK vals : Resolved(args, vals, AllDefault)
  BY DEF ResultInv, ResolvedOk, Settled
<1>3. Evaluated \in Seq(Int) /\ Len(Evaluated) \in Nat
  BY ItemsEvaluated
<1>4. PICK pos, c : EvaluationIs(pos, c)
  BY ItemsEvaluated
<1>5. PICK s : s = Evaluated
  OBVIOUS
<1>6. s \in Seq(Int) /\ Len(s) \in Nat /\ DOMAIN s = 1 .. Len(s)
  BY <1>3, <1>5
<1>7. /\ \A e \in ItemBound : pos[e] \in DOMAIN s /\ s[pos[e]] = e.item
      /\ \A x \in DOMAIN s : (\E e \in ItemBound : x = pos[e]) \/ (HasCallee /\ x = c)
      /\ HasCallee => c \in DOMAIN s /\ s[c] = 0
  BY <1>4, <1>5, <1>6 DEF EvaluationIs
<1>8. \A e \in ItemBound : e.item \in Places /\ e.item \in Nat \ {0} /\ e.item \in Evaluands
  BY <1>1, ExprFields, EvaluandsAre DEF ItemBound, ItemValues, KeywordExprs
<1>9. \A x \in DOMAIN s : s[x] \in Evaluands
  <2>1. HasCallee => 0 \in Evaluands
    BY DEF Evaluands, Callees
  <2>2. QED
    BY <1>7, <1>8, <2>1
<1>10. s \in Seq(Evaluands)
  <2>1. s \in [1 .. Len(s) -> Evaluands]
    BY <1>6, <1>9
  <2>2. QED
    BY <1>6, <2>1
<1>11. ASSUME NEW i \in Evaluands PROVE \E x \in DOMAIN s : s[x] = i
  <2>1. CASE i = 0
    BY <1>1, <1>7, <2>1, EvaluandsAre
  <2>2. CASE i \in Places
    <3>1. \E e \in ItemBound : e.item = i
      <4>1. call.items[i] \in Arguments /\ i \in Nat
        BY <1>1, <2>2, EvaluandsAre DEF CallOk, Places
      <4>2. call.items[i].form \in {"pos", "star", "kw", "map"}
        BY <4>1 DEF Arguments
      <4>3. CASE call.items[i].form = "pos"
        <5>1. Element(i, 0) \in ItemValues /\ Element(i, 0).item = i
          BY <1>1, <2>2, <4>3, ElementIn DEF ItemValues
        <5>2. QED
          BY <5>1 DEF ItemBound
      <4>4. CASE call.items[i].form = "star"
        <5>1. i \in ToSet(Items("star"))
          BY <1>1, <2>2, <4>4, StarsAre
        <5>2. call.items[i].len = 1
          BY <5>1
        <5>3. 1 \in Nat /\ 1 \in 1 .. 1
          OBVIOUS
        <5>4. Element(i, 1) \in ItemValues /\ Element(i, 1).item = i
          BY <1>1, <2>2, <4>4, <5>2, <5>3, ElementIn DEF ItemValues
        <5>5. QED
          BY <5>4 DEF ItemBound
      <4>5. CASE call.items[i].form = "kw"
        <5>1. Element(i, 0) \in KeywordExprs /\ Element(i, 0).item = i
          BY <1>1, <2>2, <4>5, ElementIn DEF KeywordExprs, KeywordItems
        <5>2. QED
          BY <5>1 DEF ItemBound
      <4>6. call.items[i].form # "map"
        <5>1. Items("map") = << >>
          BY DEF ResultInv, DispatchOk
        <5>2. DOMAIN Items("map") = {}
          BY <5>1
        <5>3. QED
          BY <1>1, <2>2, <5>2, ItemsListed
      <4>7. QED
        BY <4>2, <4>3, <4>4, <4>5, <4>6
    <3>2. QED
      BY <1>7, <3>1
  <2>3. QED
    BY <1>1, <2>1, <2>2, EvaluandsAre
<1>12. ASSUME NEW e \in ItemBound, NEW f \in ItemBound, << e, f >> \in Evaluates
       PROVE  << e.item, f.item >> \in InTurn
  <2>1. /\ \A g \in ItemValues : g.item \in Plains
        /\ \A g \in KeywordExprs : g.item \in KeywordItems
        /\ ItemValues \cap KeywordExprs = {}
    <3>1. \A g \in ItemValues : g.item \in Plains
      BY <1>8 DEF ItemBound, ItemValues, Plains, KeywordItems
    <3>2. \A g \in KeywordExprs : g.item \in KeywordItems
      BY DEF KeywordExprs
    <3>3. QED
      BY <3>1, <3>2 DEF Plains
  <2>2. CASE e \in ItemValues /\ f \in ItemValues
    <3>1. << e, f >> \in Taken
      BY <1>12, <2>1, <2>2 DEF Evaluates
    <3>2. e.item < f.item
      BY <1>1, <1>2, <2>2, <3>1, ValuesInTurn DEF Resolved
    <3>3. QED
      BY <1>8, <2>1, <2>2, <3>2 DEF InTurn
  <2>3. CASE e \in ItemValues /\ f \in KeywordExprs
    BY <1>8, <2>1, <2>3 DEF InTurn
  <2>4. CASE e \in KeywordExprs /\ f \in ItemValues
    BY <1>12, <2>1, <2>4 DEF Evaluates
  <2>5. CASE e \in KeywordExprs /\ f \in KeywordExprs
    <3>1. PICK i, j : i = e.item /\ j = f.item
      OBVIOUS
    <3>2. i \in KeywordItems /\ j \in KeywordItems /\ i \in Nat /\ j \in Nat
      BY <1>8, <2>1, <2>5, <3>1
    <3>3. Slot(i) \in Nat /\ Slot(j) \in Nat
      BY <1>1, <1>2, <3>2, SlotTyped
    <3>4. Slot(i) < Slot(j) \/ (Slot(i) = Slot(j) /\ i < j)
      BY <1>12, <2>1, <2>5, <3>1 DEF Evaluates
    <3>5. i < j
      <4>1. PICK m \in DOMAIN Items("kw") : Items("kw")[m] = i
        BY <1>1, <3>2, ItemsListed DEF KeywordItems
      <4>2. PICK n \in DOMAIN Items("kw") : Items("kw")[n] = j
        BY <1>1, <3>2, ItemsListed DEF KeywordItems
      <4>3. m \in Nat /\ n \in Nat
        BY <1>1, ItemsListed
      <4>4. n < m => Slot(j) <= Slot(i) /\ j < i
        BY <1>1, <4>1, <4>2, ItemsListed DEF KeywordsInOrder
      <4>5. m < n => i < j
        BY <1>1, <4>1, <4>2, ItemsListed
      <4>6. m = n => i = j
        BY <4>1, <4>2
      <4>7. QED
        BY <3>2, <3>3, <3>4, <4>3, <4>4, <4>5, <4>6
    <3>6. QED
      BY <1>8, <3>1, <3>2, <3>5 DEF InTurn
  <2>6. QED
    BY <2>2, <2>3, <2>4, <2>5 DEF ItemBound
<1>13. ASSUME NEW m \in DOMAIN s, NEW n \in DOMAIN s, m < n
       PROVE  << s[m], s[n] >> \in InTurn
  <2>1. CASE \E e \in ItemBound : m = pos[e]
    <3>1. PICK e \in ItemBound : m = pos[e]
      BY <2>1
    <3>2. CASE \E f \in ItemBound : n = pos[f]
      <4>1. PICK f \in ItemBound : n = pos[f]
        BY <3>2
      <4>2. << e, f >> \in Evaluates
        BY <1>4, <1>13, <3>1, <4>1 DEF EvaluationIs
      <4>3. QED
        BY <1>7, <1>12, <3>1, <4>1, <4>2
    <3>3. CASE HasCallee /\ n = c
      <4>1. CASE call.callee \in CalleeFirst
        <5>1. c < pos[e]
          BY <1>4, <4>1 DEF EvaluationIs
        <5>2. QED
          BY <1>6, <1>13, <3>1, <3>3, <5>1
      <4>2. CASE call.callee \in CalleeLast
        <5>1. Places = {}
          BY <4>2 DEF Places
        <5>2. QED
          BY <1>8, <3>1, <5>1
      <4>3. QED
        BY <3>3, <4>1, <4>2 DEF HasCallee
    <3>4. QED
      BY <1>7, <3>2, <3>3
  <2>2. CASE HasCallee /\ m = c
    <3>1. n # c
      BY <1>6, <1>13, <2>2
    <3>2. PICK f \in ItemBound : n = pos[f]
      BY <1>7, <3>1
    <3>3. s[m] = 0 /\ s[n] = f.item /\ f.item # 0
      BY <1>7, <1>8, <2>2, <3>2
    <3>4. QED
      BY <1>9, <3>3 DEF InTurn
  <2>3. QED
    BY <1>7, <2>1, <2>2
<1>14. Lists(s, Evaluands, InTurn)
  BY <1>10, <1>11, <1>13 DEF Lists
<1>15. QED
  BY <1>1, <1>5, <1>14, InTurnAsymmetric, PyEvaluatedListed, ListsOnce


\* What is evaluated as written meets the conditions of EvaluatesAsWritten.
LEMMA InTurnNeeds ==
  ASSUME BindInv, ResultInv, TraceInv, phase = "entered", ~OtherConstructor,
         Evaluated = PyEvaluated
  PROVE  /\ KeywordsInOrder /\ ~PositionalAfterStar
         /\ \A i \in ToSet(Items("star")) : call.items[i].len = 1
         /\ call.callee \in CalleeLast => call.items = << >>
<1>1. CallOk /\ ParamsOrdered /\ Expandable({})
  BY DEF BindInv, TraceInv, ResultInv, ResolvedOk, Settled
<1>2. PICK pos, c : EvaluationIs(pos, c)
  BY ItemsEvaluated
<1>3. PICK s : s = Evaluated
  OBVIOUS
<1>4. Len(s) \in Nat /\ DOMAIN s = 1 .. Len(s) /\ Lists(s, Evaluands, InTurn)
  <2>1. s \in Seq(Int)
    BY <1>3, ItemsEvaluated
  <2>2. QED
    BY <1>1, <1>3, <2>1, PyEvaluatedListed
<1>5. /\ \A e \in ItemBound : pos[e] \in DOMAIN s /\ pos[e] \in Nat /\ s[pos[e]] = e.item
      /\ \A x \in DOMAIN s : (\E e \in ItemBound : x = pos[e]) \/ (HasCallee /\ x = c)
      /\ HasCallee => c \in DOMAIN s /\ s[c] = 0
  BY <1>2, <1>3, <1>4 DEF EvaluationIs
<1>6. \A e \in ItemBound : e.item \in Places /\ e.item \in Nat \ {0}
  BY <1>1, ExprFields, EvaluandsAre DEF ItemBound, ItemValues, KeywordExprs
<1>7. ASSUME NEW e \in ItemBound, NEW f \in ItemBound, e # f
      PROVE  /\ e.item # f.item
             /\ << e, f >> \in Evaluates \/ << f, e >> \in Evaluates
             /\ << e, f >> \notin Evaluates => << f.item, e.item >> \in InTurn
  <2>1. pos[e] # pos[f] /\ pos[e] \in Nat /\ pos[f] \in Nat
    BY <1>2, <1>5, <1>7 DEF EvaluationIs
  <2>2. e.item # f.item
    <3>1. \A m, n \in DOMAIN s : s[m] = s[n] => m = n
      BY <1>1, <1>4, InTurnAsymmetric, ListsAll
    <3>2. QED
      BY <1>5, <2>1, <3>1
  <2>3. pos[e] < pos[f] => << e, f >> \in Evaluates
    BY <1>2 DEF EvaluationIs
  <2>4. pos[f] < pos[e] => << f, e >> \in Evaluates /\ << f.item, e.item >> \in InTurn
    <3>1. HAVE pos[f] < pos[e]
    <3>2. << s[pos[f]], s[pos[e]] >> \in InTurn
      BY <1>4, <1>5, <3>1 DEF Lists
    <3>3. QED
      BY <1>2, <1>5, <3>1, <3>2 DEF EvaluationIs
  <2>5. QED
    BY <2>1, <2>2, <2>3, <2>4
<1>8. ASSUME NEW i \in Places PROVE \E e \in ItemBound : e.item = i
  <2>1. PICK x \in DOMAIN s : s[x] = i
    BY <1>1, <1>4, EvaluandsAre DEF Lists
  <2>2. i # 0
    BY <1>1, EvaluandsAre
  <2>3. QED
    BY <1>5, <2>1, <2>2
<1>9. ASSUME NEW i \in ToSet(Items("star")) PROVE call.items[i].len = 1
  <2>1. i \in Places /\ call.items[i].form = "star"
    BY <1>1, StarsAre
  <2>2. call.items[i].len \in Int
    <3>1. call.items[i] \in Arguments
      BY <1>1, <2>1 DEF CallOk, Places
    <3>2. QED
      BY <3>1 DEF Arguments
  <2>3. PICK e \in ItemBound : e.item = i
    BY <1>8, <2>1
  <2>4. e.elem \in 1 .. call.items[i].len
    BY <2>1, <2>3 DEF ItemBound, ItemValues, KeywordExprs, KeywordItems
  <2>5. ~ (2 <= call.items[i].len)
    <3>1. SUFFICES ASSUME 2 <= call.items[i].len PROVE FALSE
      OBVIOUS
    <3>2. 1 \in Nat /\ 2 \in Nat /\ 1 \in 1 .. call.items[i].len /\ 2 \in 1 .. call.items[i].len
      BY <2>2, <3>1
    <3>3. /\ Element(i, 1) \in ItemValues /\ Element(i, 1).item = i /\ Element(i, 1).elem = 1
          /\ Element(i, 2) \in ItemValues /\ Element(i, 2).item = i /\ Element(i, 2).elem = 2
      BY <1>1, <2>1, <3>2, ElementIn DEF ItemValues
    <3>4. Element(i, 1) # Element(i, 2)
      BY <3>3
    <3>5. QED
      BY <1>7, <3>3, <3>4 DEF ItemBound
  <2>6. QED
    BY <2>2, <2>4, <2>5
<1>10. ~PositionalAfterStar
  <2>1. SUFFICES ASSUME NEW i \in DOMAIN call.items, NEW j \in DOMAIN call.items, i < j,
                        call.items[i].form = "star", call.items[i].len > 0,
                        call.items[j].form = "pos"
                 PROVE  FALSE
    BY DEF PositionalAfterStar
  <2>2. i \in Places /\ j \in Places /\ i \in Nat /\ j \in Nat
    BY <1>1, EvaluandsAre DEF Places
  <2>3. call.items[i].len = 1 /\ 1 \in Nat /\ 1 \in 1 .. 1
    <3>1. i \in ToSet(Items("star"))
      BY <1>1, <2>1, <2>2, StarsAre
    <3>2. QED
      BY <1>9, <3>1
  <2>4. /\ Element(i, 1) \in ItemValues /\ Element(i, 1).item = i /\ Element(i, 1).elem = 1
        /\ Element(j, 0) \in ItemValues /\ Element(j, 0).item = j /\ Element(j, 0).elem = 0
    BY <1>1, <2>1, <2>2, <2>3, ElementIn DEF ItemValues
  <2>5. PICK e, f : e = Element(i, 1) /\ f = Element(j, 0)
    OBVIOUS
  <2>6. << e, f >> \notin Evaluates
    <3>1. e \notin KeywordExprs /\ f \notin KeywordExprs
      BY <2>4, <2>5 DEF ItemValues, KeywordExprs, KeywordItems
    <3>2. << e, f >> \notin Taken
      BY <2>4, <2>5 DEF Taken
    <3>3. QED
      BY <3>1, <3>2 DEF Evaluates
  <2>7. << j, i >> \in InTurn
    <3>1. /\ e \in ItemBound /\ e.item = i /\ e.elem = 1
          /\ f \in ItemBound /\ f.item = j /\ f.elem = 0
      BY <2>4, <2>5 DEF ItemBound
    <3>2. e # f
      BY <3>1
    <3>3. << f.item, e.item >> \in InTurn
      BY <1>7, <2>6, <3>1, <3>2
    <3>4. QED
      BY <3>1, <3>3
  <2>8. i \notin KeywordItems /\ j # 0
    BY <1>1, <2>1, <2>2, EvaluandsAre DEF KeywordItems
  <2>9. j < i
    BY <2>7, <2>8 DEF InTurn
  <2>10. QED
    BY <2>1, <2>2, <2>9
<1>11. KeywordsInOrder
  <2>1. SUFFICES ASSUME NEW m \in DOMAIN Items("kw"), NEW n \in DOMAIN Items("kw"), m < n
                 PROVE  Slot(Items("kw")[m]) <= Slot(Items("kw")[n])
    BY DEF KeywordsInOrder
  <2>2. PICK i, j : i = Items("kw")[m] /\ j = Items("kw")[n]
    OBVIOUS
  <2>3. /\ i \in KeywordItems /\ j \in KeywordItems /\ i < j
        /\ i \in Places /\ j \in Places /\ i \in Nat \ {0} /\ j \in Nat \ {0}
    BY <1>1, <2>1, <2>2, ItemsListed, EvaluandsAre DEF KeywordItems
  <2>4. /\ Element(i, 0) \in KeywordExprs /\ Element(i, 0).item = i
        /\ Element(j, 0) \in KeywordExprs /\ Element(j, 0).item = j
    BY <1>1, <2>3, ElementIn DEF KeywordExprs
  <2>5. PICK e, f : e = Element(i, 0) /\ f = Element(j, 0)
    OBVIOUS
  <2>6. e # f
    BY <2>3, <2>4, <2>5
  <2>7. << j, i >> \notin InTurn
    BY <2>3 DEF InTurn, Plains
  <2>8. << e, f >> \in Evaluates
    BY <1>7, <2>4, <2>5, <2>6, <2>7 DEF ItemBound
  <2>9. e \notin ItemValues /\ f \notin ItemValues
    BY <2>4, <2>5 DEF ItemValues, KeywordExprs, KeywordItems
  <2>10. Slot(i) < Slot(j) \/ (Slot(i) = Slot(j) /\ i < j)
    BY <2>4, <2>5, <2>8, <2>9 DEF Evaluates
  <2>11. PICK vals : Resolved(args, vals, AllDefault)
    BY DEF ResultInv, ResolvedOk, Settled
  <2>12. Slot(i) \in Nat /\ Slot(j) \in Nat
    BY <1>1, <2>3, <2>11, SlotTyped
  <2>13. QED
    BY <2>2, <2>10, <2>12
<1>12. ASSUME call.callee \in CalleeLast PROVE call.items = << >>
  <2>1. HasCallee
    BY <1>12 DEF HasCallee
  <2>2. Places = {}
    <3>1. SUFFICES ASSUME NEW i \in Places PROVE FALSE
      OBVIOUS
    <3>2. PICK e \in ItemBound : e.item = i
      BY <1>8
    <3>3. pos[e] < c
      BY <1>2, <1>12 DEF EvaluationIs
    <3>4. << i, 0 >> \in InTurn
      BY <1>4, <1>5, <2>1, <3>2, <3>3 DEF Lists
    <3>5. i # 0 /\ 0 \notin Plains /\ 0 \notin KeywordItems
      BY <1>1, EvaluandsAre
    <3>6. QED
      BY <3>4, <3>5 DEF InTurn
  <2>3. PICK q : q = call.items
    OBVIOUS
  <2>4. q \in Seq(Arguments) /\ DOMAIN q = {}
    BY <1>1, <2>2, <2>3 DEF CallOk, Places
  <2>5. q = << >>
    BY <2>4
  <2>6. QED
    BY <2>3, <2>5
<1>13. QED
  BY <1>9, <1>10, <1>11, <1>12

\* Every item of a call is evaluated once and in the order it is written exactly under
\* the conditions of EvaluatesAsWritten, for every set of call sites whose keyword-only
\* parameters follow *args (call, functionCallArgs, lower_expr.go).
THEOREM EvaluatedAsWritten ==
  ASSUME VarBeforeKeywordOnly PROVE Spec => []EvaluatesAsWritten
<1>1. BindInv /\ ResultInv /\ TraceInv => EvaluatesAsWritten
  BY EvaluatedInTurn, InTurnNeeds DEF EvaluatesAsWritten
<1>2. Spec => []TraceInv
  BY TraceInvHolds
<1>3. QED
  BY <1>1, <1>2, BindInvHolds, ResultInvHolds, PTL

================================================================================
