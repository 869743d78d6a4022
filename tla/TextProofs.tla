------------------------------ MODULE TextProofs ------------------------------
(***************************************************************************)
(* Induction over the characters of a text, and what Along makes of it.    *)
(* The induction theorems of the library take a predicate as a parameter;  *)
(* these take a set or a function instead.                                 *)
(***************************************************************************)
EXTENDS Text, WellFoundedInduction, TLAPS

(* Induction over the natural numbers, for a set. *)
LEMMA Induction ==
  ASSUME NEW S, 0 \in S, \A n \in Nat : n \in S => n + 1 \in S
  PROVE  Nat \subseteq S
<1> DEFINE Less    == OpToRel(<, Nat)
           Outside == Nat \ S
<1> SUFFICES ASSUME Outside # {} PROVE FALSE
  OBVIOUS
<1>1. IsWellFoundedOn(Less, Nat)
  BY NatLessThanWellFounded, Zenon
<1>2. PICK n \in Outside : \A m \in Outside : <<m, n>> \notin Less
  <2> HIDE DEF Less
  <2>1. Outside \subseteq Nat
    OBVIOUS
  <2> HIDE DEF Outside
  <2> QED
    BY <1>1, <2>1, WFMin
<1>3. n \in Nat /\ n - 1 \in Nat /\ n - 1 < n /\ n - 1 \in Outside
  OBVIOUS
<1>4. <<n - 1, n>> \in Less
  BY <1>3, Zenon DEF OpToRel
<1> QED
  BY <1>2, <1>3, <1>4

(* g holds what the steps make of start, one after the other. *)
Traces(g, n, start, step) ==
  g = [i \in 0 .. n |-> IF i = 0 THEN start ELSE step[i][g[i - 1]]]

LEMMA TraceStep ==
  ASSUME NEW n \in Nat, NEW g, NEW start, NEW step, Traces(g, n, start, step)
  PROVE  /\ DOMAIN g = 0 .. n
         /\ g[0] = start
         /\ \A i \in 1 .. n : g[i] = step[i][g[i - 1]]
BY DEF Traces

LEMMA TraceExists ==
  ASSUME NEW n \in Nat, NEW start, NEW step
  PROVE  \E g : Traces(g, n, start, step)
<1> DEFINE S == {m \in Nat : \E g : Traces(g, m, start, step)}
<1>1. 0 \in S
  <2> DEFINE g == [i \in 0 .. 0 |-> start]
  <2>1. Traces(g, 0, start, step)
    BY DEF Traces
  <2> QED
    BY <2>1
<1>2. ASSUME NEW m \in Nat, m \in S PROVE m + 1 \in S
  <2>1. PICK g : Traces(g, m, start, step)
    BY <1>2
  <2>2. /\ g[0] = start
        /\ \A i \in 1 .. m : g[i] = step[i][g[i - 1]]
    BY <2>1, TraceStep
  <2> DEFINE h == [i \in 0 .. m + 1 |-> IF i <= m THEN g[i] ELSE step[m + 1][g[m]]]
  <2>3. ASSUME NEW i \in 0 .. m + 1
        PROVE  h[i] = IF i = 0 THEN start ELSE step[i][h[i - 1]]
    <3>1. CASE i = 0
      BY <2>2, <3>1
    <3>2. CASE i \in 1 .. m
      BY <2>2, <3>2
    <3>3. CASE i = m + 1
      BY <3>3
    <3> QED
      BY <3>1, <3>2, <3>3
  <2>4. Traces(h, m + 1, start, step)
    <3> HIDE DEF h
    <3>1. h = [i \in 0 .. m + 1 |-> h[i]]
      BY DEF h
    <3> QED
      BY <2>3, <3>1 DEF Traces
  <2> QED
    BY <2>4
<1> HIDE DEF S
<1>3. Nat \subseteq S
  BY <1>1, <1>2, Induction
<1> QED
  BY <1>3 DEF S

(* Induction up to a bound. *)
LEMMA UpTo ==
  ASSUME NEW n \in Nat, NEW S, 0 \in S, \A i \in 0 .. n - 1 : i \in S => i + 1 \in S
  PROVE  \A i \in 0 .. n : i \in S
<1> DEFINE T == {i \in Nat : i <= n => i \in S}
<1>1. 0 \in T
  OBVIOUS
<1>2. \A i \in Nat : i \in T => i + 1 \in T
  OBVIOUS
<1>3. Nat \subseteq T
  <2> HIDE DEF T
  <2> QED
    BY <1>1, <1>2, Induction
<1> QED
  BY <1>3

(* Steps that stay in a set trace a path in it. *)
LEMMA TraceIn ==
  ASSUME NEW n \in Nat, NEW A, NEW start \in A, NEW step \in [1 .. n -> [A -> A]],
         NEW g, Traces(g, n, start, step)
  PROVE  g \in [0 .. n -> A]
<1>1. /\ DOMAIN g = 0 .. n /\ g[0] = start
      /\ \A i \in 1 .. n : g[i] = step[i][g[i - 1]]
  BY TraceStep
<1> DEFINE S == {i \in 0 .. n : g[i] \in A}
<1>2. 0 \in S
  BY <1>1
<1>3. ASSUME NEW i \in 0 .. n - 1, i \in S PROVE i + 1 \in S
  <2>1. i + 1 \in 1 .. n /\ (i + 1) - 1 = i
    OBVIOUS
  <2>2. g[i + 1] = step[i + 1][g[i]]
    BY <1>1, <2>1
  <2>3. step[i + 1] \in [A -> A] /\ g[i] \in A
    BY <1>3, <2>1
  <2> QED
    BY <2>1, <2>2, <2>3
<1>4. \A i \in 0 .. n : i \in S
  <2> HIDE DEF S
  <2> QED
    BY <1>2, <1>3, UpTo
<1>5. g = [i \in 0 .. n |-> g[i]]
  BY DEF Traces
<1> QED
  BY <1>4, <1>5

(* The same steps trace the same path. *)
LEMMA TraceAgree ==
  ASSUME NEW n \in Nat, NEW m \in Nat, n <= m, NEW start, NEW one, NEW two,
         \A i \in 1 .. n : one[i] = two[i],
         NEW g, Traces(g, n, start, one), NEW h, Traces(h, m, start, two)
  PROVE  \A i \in 0 .. n : g[i] = h[i]
<1>1. g[0] = start /\ \A i \in 1 .. n : g[i] = one[i][g[i - 1]]
  BY TraceStep
<1>2. h[0] = start /\ \A i \in 1 .. m : h[i] = two[i][h[i - 1]]
  BY TraceStep
<1> DEFINE S == {i \in 0 .. n : g[i] = h[i]}
<1>3. 0 \in S
  BY <1>1, <1>2
<1>4. ASSUME NEW i \in 0 .. n - 1, i \in S PROVE i + 1 \in S
  <2>1. i + 1 \in 1 .. n /\ i + 1 \in 1 .. m /\ (i + 1) - 1 = i
    OBVIOUS
  <2>2. g[i + 1] = one[i + 1][g[i]] /\ h[i + 1] = two[i + 1][h[i]]
    BY <1>1, <1>2, <2>1
  <2> QED
    BY <1>4, <2>1, <2>2
<1>5. \A i \in 0 .. n : i \in S
  <2> HIDE DEF S
  <2> QED
    BY <1>3, <1>4, UpTo
<1> QED
  BY <1>5

(* The least of a set of natural numbers. *)
LEMMA Least ==
  ASSUME NEW S, S \subseteq Nat, S # {}
  PROVE  Min(S) \in S /\ \A i \in S : Min(S) <= i
<1>1. \E m \in S : \A i \in S : m <= i
  <2> SUFFICES ASSUME \A m \in S : \E i \in S : i < m PROVE FALSE
    OBVIOUS
  <2> DEFINE T == {n \in Nat : \A i \in 0 .. n : i \notin S}
  <2>1. 0 \in T
    OBVIOUS
  <2>2. ASSUME NEW n \in Nat, n \in T PROVE n + 1 \in T
    <3>1. n + 1 \notin S
      BY <2>2
    <3> QED
      BY <2>2, <3>1
  <2>3. Nat \subseteq T
    <3> HIDE DEF T
    <3> QED
      BY <2>1, <2>2, Induction
  <2>4. PICK n \in S : TRUE
    OBVIOUS
  <2> QED
    BY <2>3, <2>4
<1> QED
  BY <1>1 DEF Min

(* The greatest of a bounded set of natural numbers. *)
LEMMA Greatest ==
  ASSUME NEW n \in Nat, NEW S, S \subseteq 0 .. n, S # {}
  PROVE  Max(S) \in S /\ \A i \in S : i <= Max(S)
<1> DEFINE T == {n - i : i \in S}
<1>1. T \subseteq Nat /\ T # {}
  <2>1. PICK i \in S : TRUE
    OBVIOUS
  <2>2. n - i \in T
    OBVIOUS
  <2> QED
    BY <2>2
<1>2. Min(T) \in T /\ \A i \in T : Min(T) <= i
  <2> HIDE DEF T
  <2> QED
    BY <1>1, Least
<1>3. PICK m \in S : Min(T) = n - m
  BY <1>2
<1>4. \A i \in S : i <= m
  <2> SUFFICES ASSUME NEW i \in S PROVE i <= m
    OBVIOUS
  <2>1. n - i \in T
    OBVIOUS
  <2>2. n - m <= n - i
    BY <1>2, <1>3, <2>1
  <2>3. i \in Int /\ m \in Int
    OBVIOUS
  <2> HIDE DEF T
  <2> QED
    BY <2>2, <2>3
<1>5. \E m2 \in S : \A i \in S : m2 >= i
  BY <1>4
<1> QED
  BY <1>5 DEF Max

(* What is used of sequences again and again. *)
LEMMA AppendConcat ==
  ASSUME NEW C, NEW a \in Seq(C), NEW x \in C
  PROVE  Append(a, x) \in Seq(C) /\ Append(a, x) = a \o <<x>>
OBVIOUS

LEMMA ConcatIn ==
  ASSUME NEW C, NEW a \in Seq(C), NEW b \in Seq(C)
  PROVE  a \o b \in Seq(C) /\ (a # <<>> => a \o b # <<>> /\ Head(a \o b) = Head(a))
OBVIOUS

LEMMA ConcatAssociates ==
  ASSUME NEW C, NEW a \in Seq(C), NEW b \in Seq(C), NEW c \in Seq(C)
  PROVE  (a \o b) \o c = a \o (b \o c)
OBVIOUS

LEMMA ConcatEmpty ==
  ASSUME NEW C, NEW a \in Seq(C)
  PROVE  a \o <<>> = a /\ <<>> \o a = a
OBVIOUS

LEMMA ConcatFirst ==
  ASSUME NEW C, NEW x \in C, NEW a \in Seq(C)
  PROVE  /\ <<x>> \in Seq(C) /\ <<x>> \o a \in Seq(C)
         /\ <<x>> \o a # <<>> /\ Head(<<x>> \o a) = x /\ Tail(<<x>> \o a) = a
OBVIOUS

LEMMA ConcatAppend ==
  ASSUME NEW C, NEW a \in Seq(C), NEW b \in Seq(C), NEW x \in C
  PROVE  Append(b, x) \in Seq(C) /\ Append(a \o b, x) = a \o Append(b, x)
BY SMTT(30)

LEMMA HeadAndTail ==
  ASSUME NEW C, NEW a \in Seq(C), a # <<>>
  PROVE  Head(a) \in C /\ Tail(a) \in Seq(C) /\ a = <<Head(a)>> \o Tail(a)
OBVIOUS

LEMMA FrontAndLast ==
  ASSUME NEW C, NEW a \in Seq(C), a # <<>>
  PROVE  /\ Front(a) \in Seq(C) /\ Last(a) \in C /\ Len(a) \in Nat \ {0}
         /\ Len(Front(a)) = Len(a) - 1 /\ Last(a) = a[Len(a)]
         /\ \A i \in 1 .. Len(a) - 1 : Front(a)[i] = a[i]
         /\ a = Append(Front(a), Last(a))
<1> DEFINE n     == Len(a) - 1
           front == SubSeq(a, 1, n)
<1>1. Front(a) = front /\ Last(a) = a[n + 1]
  BY DEF Front, Last
<1>2. n \in Nat /\ Len(a) = n + 1 /\ a[n + 1] \in C
  OBVIOUS
<1>3. front \in Seq(C) /\ Len(front) = n /\ \A i \in 1 .. n : front[i] = a[i]
  BY <1>2
<1>4. a = Append(front, a[n + 1])
  BY <1>2
<1> HIDE DEF front
<1>5. Len(a) \in Nat \ {0} /\ n = Len(a) - 1
  BY <1>2
<1> QED
  BY <1>1, <1>2, <1>3, <1>4, <1>5

LEMMA ConcatIs ==
  ASSUME NEW A, NEW s \in Seq(A), NEW t \in Seq(A), NEW u \in Seq(A),
         Len(u) = Len(s) + Len(t), \A i \in 1 .. Len(s) : u[i] = s[i],
         \A i \in 1 .. Len(t) : u[Len(s) + i] = t[i]
  PROVE  s \o t = u
<1> DEFINE n == Len(s)
           m == Len(t)
           c == s \o t
<1>1. /\ n \in Nat /\ m \in Nat /\ Len(c) = n + m /\ c \in Seq(A)
      /\ \A i \in 1 .. n : c[i] = s[i]
      /\ \A i \in n + 1 .. n + m : c[i] = t[i - n]
  OBVIOUS
<1>2. /\ Len(u) = n + m
      /\ \A i \in 1 .. n : u[i] = s[i]
      /\ \A i \in 1 .. m : u[n + i] = t[i]
  OBVIOUS
<1> HIDE DEF n, m, c
<1>4. c = [i \in 1 .. n + m |-> c[i]] /\ u = [i \in 1 .. n + m |-> u[i]]
  BY <1>1, <1>2
<1>3. ASSUME NEW i \in 1 .. n + m PROVE c[i] = u[i]
  <2>1. CASE i <= n
    <3>1. i \in 1 .. n
      BY <1>1, <2>1
    <3> QED
      BY <1>1, <1>2, <3>1
  <2>2. CASE ~(i <= n)
    <3>1. i \in n + 1 .. n + m /\ i - n \in 1 .. m /\ n + (i - n) = i
      BY <1>1, <2>2
    <3>2. c[i] = t[i - n] /\ u[n + (i - n)] = t[i - n]
      BY <1>1, <1>2, <3>1
    <3> QED
      BY <3>1, <3>2
  <2> QED
    BY <2>1, <2>2
<1> QED
  BY <1>3, <1>4 DEF c

LEMMA TwoMore ==
  ASSUME NEW C, NEW t \in Seq(C), NEW x \in C, NEW y \in C
  PROVE  /\ t \o <<x, y>> \in Seq(C) /\ Len(t) \in Nat /\ Len(t \o <<x, y>>) - 1 = Len(t) + 1
         /\ (t \o <<x, y>>)[Len(t) + 1] = x
         /\ \A i \in 1 .. Len(t) : (t \o <<x, y>>)[i] = t[i]
OBVIOUS

LEMMA Mapped ==
  ASSUME NEW A, NEW n \in Nat, NEW f, f = [i \in 1 .. n |-> f[i]], \A i \in 1 .. n : f[i] \in A
  PROVE  f \in Seq(A) /\ Len(f) = n
OBVIOUS

LEMMA AppendParts ==
  ASSUME NEW A, NEW f \in Seq(A), NEW x \in A
  PROVE  /\ Append(f, x) \in Seq(A) /\ Len(f) \in Nat
         /\ Append(f, x) = [i \in 1 .. Len(f) + 1 |-> Append(f, x)[i]]
         /\ Append(f, x)[Len(f) + 1] = x
         /\ \A i \in 1 .. Len(f) : Append(f, x)[i] = f[i]
<1>1. /\ Append(f, x) \in Seq(A) /\ Len(f) \in Nat /\ Len(Append(f, x)) = Len(f) + 1
      /\ Append(f, x)[Len(f) + 1] = x
      /\ \A i \in 1 .. Len(f) : Append(f, x)[i] = f[i]
  OBVIOUS
<1> DEFINE h == Append(f, x)
<1> HIDE DEF h
<1>2. h \in Seq(A) /\ Len(h) = Len(f) + 1
  BY <1>1 DEF h
<1>3. h = [i \in 1 .. Len(f) + 1 |-> h[i]]
  BY <1>2
<1> QED
  BY <1>1, <1>3 DEF h

(* Texts one after the other. *)
LEMMA FlattenTrace ==
  ASSUME NEW C, NEW texts \in Seq(Seq(C))
  PROVE  \E g \in [0 .. Len(texts) -> Seq(C)] :
           /\ g[0] = <<>>
           /\ \A i \in 1 .. Len(texts) : g[i] = g[i - 1] \o texts[i]
           /\ FlattenSeq(texts) = g[Len(texts)]
<1> DEFINE n    == Len(texts)
           A    == Seq(C)
           step == [i \in 1 .. n |-> [a \in A |-> a \o texts[i]]]
           flat[i \in 1 .. n] == IF i = 1 THEN texts[i] ELSE flat[i - 1] \o texts[i]
<1>1. n \in Nat /\ <<>> \in A /\ step \in [1 .. n -> [A -> A]]
  OBVIOUS
<1>2. \A i \in 1 .. n : texts[i] \in A /\ <<>> \o texts[i] = texts[i]
  OBVIOUS
<1>3. \A i \in 1 .. n : \A a \in A : step[i][a] = a \o texts[i]
  OBVIOUS
<1>4. n # 0 => FlattenSeq(texts) = flat[n]
  BY DEF FlattenSeq
<1>5. n = 0 => FlattenSeq(texts) = <<>>
  BY DEF FlattenSeq
<1> HIDE DEF n, A, step
<1>6. PICK g : Traces(g, n, <<>>, step)
  BY <1>1, TraceExists
<1>7. g \in [0 .. n -> A]
  BY <1>1, <1>6, TraceIn
<1>8. g[0] = <<>> /\ \A i \in 1 .. n : g[i] = step[i][g[i - 1]]
  BY <1>1, <1>6, TraceStep
<1>9. ASSUME NEW i \in 1 .. n PROVE g[i] = g[i - 1] \o texts[i]
  <2>1. i - 1 \in 0 .. n
    BY <1>1
  <2> QED
    BY <1>3, <1>7, <1>8, <2>1
<1>10. CASE n = 0
  BY <1>5, <1>7, <1>8, <1>9, <1>10 DEF A, n
<1>11. CASE n # 0
  <2>0. g[1] = texts[1]
    <3>1. 1 \in 1 .. n /\ 1 - 1 = 0
      BY <1>1, <1>11
    <3>2. g[1] = g[1 - 1] \o texts[1]
      BY <1>9, <3>1
    <3>3. <<>> \o texts[1] = texts[1]
      BY <1>2, <3>1
    <3> QED
      BY <1>8, <3>1, <3>2, <3>3
  <2> DEFINE h == [i \in 1 .. n |-> g[i]]
  <2>1. ASSUME NEW i \in 1 .. n
        PROVE  h[i] = IF i = 1 THEN texts[i] ELSE h[i - 1] \o texts[i]
    <3>1. CASE i = 1
      BY <2>0, <3>1
    <3>2. CASE i # 1
      <4>1. i - 1 \in 1 .. n
        BY <1>1, <3>2
      <4> QED
        BY <1>9, <3>2, <4>1
    <3> QED
      BY <3>1, <3>2
  <2>2. h = [i \in 1 .. n |-> IF i = 1 THEN texts[i] ELSE h[i - 1] \o texts[i]]
    <3> HIDE DEF h
    <3>1. h = [i \in 1 .. n |-> h[i]]
      BY DEF h
    <3> QED
      BY <2>1, <3>1
  <2> HIDE DEF h
  <2>3. flat = [i \in 1 .. n |-> IF i = 1 THEN texts[i] ELSE flat[i - 1] \o texts[i]]
    BY <2>2
  <2> HIDE DEF flat
  <2> DEFINE S == {i \in 0 .. n : i # 0 => flat[i] = g[i]}
  <2>4. 0 \in S
    BY <1>1
  <2>5. ASSUME NEW i \in 0 .. n - 1, i \in S PROVE i + 1 \in S
    <3>1. i + 1 \in 1 .. n /\ i + 1 \in 0 .. n /\ (i + 1) - 1 = i
      BY <1>1
    <3>2. flat[i + 1] = IF i + 1 = 1 THEN texts[i + 1] ELSE flat[i] \o texts[i + 1]
      BY <2>3, <3>1
    <3>3. g[i + 1] = g[i] \o texts[i + 1]
      BY <1>9, <3>1
    <3>4. CASE i = 0
      <4>1. flat[1] = texts[1] /\ 1 \in 0 .. n
        BY <3>1, <3>2, <3>4
      <4> QED
        BY <2>0, <3>4, <4>1
    <3>5. CASE i # 0
      <4>1. flat[i] = g[i] /\ i + 1 # 1
        BY <2>5, <3>5
      <4> QED
        BY <3>1, <3>2, <3>3, <4>1
    <3> QED
      BY <3>4, <3>5
  <2>6. \A i \in 0 .. n : i \in S
    <3> HIDE DEF S
    <3> QED
      BY <1>1, <2>4, <2>5, UpTo
  <2>7. flat[n] = g[n]
    BY <1>1, <1>11, <2>6
  <2> QED
    BY <1>4, <1>7, <1>8, <1>9, <1>11, <2>7 DEF A, n
<1> QED
  BY <1>10, <1>11

LEMMA FlattenEmpty == FlattenSeq(<<>>) = <<>>
  BY DEF FlattenSeq

LEMMA FlattenAppend ==
  ASSUME NEW C, NEW texts \in Seq(Seq(C)), NEW text \in Seq(C)
  PROVE  /\ FlattenSeq(texts) \in Seq(C)
         /\ FlattenSeq(Append(texts, text)) = FlattenSeq(texts) \o text
<1> DEFINE n    == Len(texts)
           more == Append(texts, text)
<1>1. /\ n \in Nat /\ more \in Seq(Seq(C)) /\ Len(more) = n + 1 /\ more[n + 1] = text
      /\ \A i \in 1 .. n : more[i] = texts[i]
  OBVIOUS
<1>2. PICK g \in [0 .. n -> Seq(C)] :
        /\ g[0] = <<>>
        /\ \A i \in 1 .. n : g[i] = g[i - 1] \o texts[i]
        /\ FlattenSeq(texts) = g[n]
  BY FlattenTrace
<1>3. PICK h \in [0 .. n + 1 -> Seq(C)] :
        /\ h[0] = <<>>
        /\ \A i \in 1 .. n + 1 : h[i] = h[i - 1] \o more[i]
        /\ FlattenSeq(more) = h[n + 1]
  <2> HIDE DEF more, n
  <2>1. more \in Seq(Seq(C)) /\ Len(more) = n + 1
    BY <1>1
  <2>2. \E h \in [0 .. Len(more) -> Seq(C)] :
           /\ h[0] = <<>>
           /\ \A i \in 1 .. Len(more) : h[i] = h[i - 1] \o more[i]
           /\ FlattenSeq(more) = h[Len(more)]
    BY <2>1, FlattenTrace, Zenon
  <2> QED
    BY <2>1, <2>2
<1> HIDE DEF more, n
<1> DEFINE S == {i \in 0 .. n : g[i] = h[i]}
<1>4. 0 \in S
  BY <1>1, <1>2, <1>3
<1>5. ASSUME NEW i \in 0 .. n - 1, i \in S PROVE i + 1 \in S
  <2>1. i + 1 \in 1 .. n /\ i + 1 \in 0 .. n /\ i + 1 \in 1 .. n + 1 /\ (i + 1) - 1 = i
    BY <1>1
  <2>2. g[i + 1] = g[i] \o texts[i + 1] /\ h[i + 1] = h[i] \o more[i + 1]
    BY <1>2, <1>3, <2>1
  <2> QED
    BY <1>1, <1>5, <2>1, <2>2
<1>6. \A i \in 0 .. n : i \in S
  <2> HIDE DEF S
  <2> QED
    BY <1>1, <1>4, <1>5, UpTo
<1>7. h[n] = g[n]
  BY <1>1, <1>6
<1>8. h[n + 1] = h[n] \o text
  <2>1. n + 1 \in 1 .. n + 1 /\ (n + 1) - 1 = n
    <3>1. n \in Nat
      BY <1>1
    <3> QED
      BY <3>1
  <2>2. h[n + 1] = h[(n + 1) - 1] \o more[n + 1]
    BY <1>3, <2>1
  <2> QED
    BY <1>1, <2>1, <2>2
<1> QED
  BY <1>1, <1>2, <1>3, <1>7, <1>8 DEF more, n
------------------------------------------------------------------------------
LEMMA FlattenTyped ==
  ASSUME NEW C, NEW texts \in Seq(Seq(C))
  PROVE  FlattenSeq(texts) \in Seq(C)
<1>1. <<>> \in Seq(C)
  OBVIOUS
<1> QED
  BY <1>1, FlattenAppend

(* Induction over the texts of an alphabet. *)
LEMMA TextInduction ==
  ASSUME NEW C, NEW S, <<>> \in S,
         \A text \in Seq(C), c \in C : text \in S => Append(text, c) \in S
  PROVE  Seq(C) \subseteq S
<1> DEFINE T == {n \in Nat : \A text \in Seq(C) : Len(text) = n => text \in S}
<1>1. 0 \in T
  <2>1. \A text \in Seq(C) : Len(text) = 0 => text = <<>>
    OBVIOUS
  <2> QED
    BY <2>1
<1>2. ASSUME NEW n \in Nat, n \in T PROVE n + 1 \in T
  <2> SUFFICES ASSUME NEW text \in Seq(C), Len(text) = n + 1 PROVE text \in S
    OBVIOUS
  <2> DEFINE front == SubSeq(text, 1, n)
  <2>1. front \in Seq(C) /\ Len(front) = n /\ text[n + 1] \in C
    OBVIOUS
  <2>2. text = Append(front, text[n + 1])
    OBVIOUS
  <2>3. front \in S
    BY <1>2, <2>1
  <2> HIDE DEF front
  <2> QED
    BY <2>1, <2>2, <2>3
<1>3. Nat \subseteq T
  <2> HIDE DEF T
  <2> QED
    BY <1>1, <1>2, Induction
<1> QED
  BY <1>3

(* What the characters of a text make of start, each by its function.      *)
Machines(C, A) == [C -> [A -> A]]
Steps(op, text) == [i \in 1 .. Len(text) |-> op[text[i]]]
Drive(op, start, text) ==
  (CHOOSE g : Traces(g, Len(text), start, Steps(op, text)))[Len(text)]

LEMMA DriveTrace ==
  ASSUME NEW C, NEW A, NEW op \in Machines(C, A), NEW start \in A, NEW text \in Seq(C)
  PROVE  \E g \in [0 .. Len(text) -> A] :
           /\ Traces(g, Len(text), start, Steps(op, text))
           /\ g[0] = start
           /\ \A i \in 1 .. Len(text) : g[i] = op[text[i]][g[i - 1]]
           /\ Drive(op, start, text) = g[Len(text)]
<1> DEFINE n    == Len(text)
           step == Steps(op, text)
           g    == CHOOSE h : Traces(h, n, start, step)
<1>1. n \in Nat
  OBVIOUS
<1>2. step \in [1 .. n -> [A -> A]] /\ \A i \in 1 .. n : step[i] = op[text[i]]
  BY DEF Steps, Machines
<1>3. Drive(op, start, text) = g[n]
  BY DEF Drive
<1> HIDE DEF n, step
<1>4. Traces(g, n, start, step)
  <2>1. \E h : Traces(h, n, start, step)
    BY <1>1, TraceExists
  <2> QED
    BY <2>1
<1> HIDE DEF g
<1>5. g \in [0 .. n -> A]
  BY <1>1, <1>2, <1>4, TraceIn
<1>6. g[0] = start /\ \A i \in 1 .. n : g[i] = step[i][g[i - 1]]
  BY <1>1, <1>4, TraceStep
<1>7. \A i \in 1 .. n : g[i] = op[text[i]][g[i - 1]]
  BY <1>2, <1>6
<1> QED
  BY <1>3, <1>4, <1>5, <1>6, <1>7 DEF n, step

(* Whatever follows the steps ends where Drive does. *)
LEMMA DriveUnique ==
  ASSUME NEW C, NEW A, NEW op \in Machines(C, A), NEW start \in A, NEW text \in Seq(C),
         NEW h, h[0] = start,
         \A i \in 1 .. Len(text) : h[i - 1] \in A => h[i] = op[text[i]][h[i - 1]]
  PROVE  /\ Drive(op, start, text) \in A
         /\ h[Len(text)] = Drive(op, start, text)
<1> DEFINE n == Len(text)
<1>1. n \in Nat
  OBVIOUS
<1>2. PICK g \in [0 .. n -> A] :
        /\ g[0] = start
        /\ \A i \in 1 .. n : g[i] = op[text[i]][g[i - 1]]
        /\ Drive(op, start, text) = g[n]
  BY DriveTrace
<1>3. \A i \in 1 .. n : h[i - 1] \in A => h[i] = op[text[i]][h[i - 1]]
  OBVIOUS
<1> HIDE DEF n
<1> DEFINE S == {i \in 0 .. n : g[i] = h[i]}
<1>4. 0 \in S
  BY <1>1, <1>2
<1>5. ASSUME NEW i \in 0 .. n - 1, i \in S PROVE i + 1 \in S
  <2>1. i + 1 \in 1 .. n /\ i + 1 \in 0 .. n /\ (i + 1) - 1 = i
    BY <1>1
  <2>2. g[i + 1] = op[text[i + 1]][g[i]]
    BY <1>2, <2>1
  <2>3. h[i] \in A => h[i + 1] = op[text[i + 1]][h[i]]
    BY <1>3, <2>1
  <2>4. g[i] = h[i] /\ g[i] \in A
    BY <1>2, <1>5
  <2> QED
    BY <2>1, <2>2, <2>3, <2>4
<1>6. \A i \in 0 .. n : i \in S
  <2> HIDE DEF S
  <2> QED
    BY <1>1, <1>4, <1>5, UpTo
<1>7. n \in 0 .. n
  BY <1>1
<1> QED
  BY <1>2, <1>6, <1>7 DEF n

LEMMA DriveEmpty ==
  ASSUME NEW C, NEW A, NEW op \in Machines(C, A), NEW start \in A
  PROVE  Drive(op, start, <<>>) = start
<1>1. <<>> \in Seq(C) /\ Len(<<>>) = 0
  OBVIOUS
<1>2. PICK g \in [0 .. Len(<<>>) -> A] :
        /\ g[0] = start
        /\ Drive(op, start, <<>>) = g[Len(<<>>)]
  <2> DEFINE text == <<>>
  <2>1. text \in Seq(C)
    OBVIOUS
  <2> HIDE DEF text
  <2>2. \E g \in [0 .. Len(text) -> A] :
          /\ g[0] = start
          /\ Drive(op, start, text) = g[Len(text)]
    BY <2>1, DriveTrace
  <2> QED
    BY <2>2 DEF text
<1> QED
  BY <1>1, <1>2

LEMMA DriveAppend ==
  ASSUME NEW C, NEW A, NEW op \in Machines(C, A), NEW start \in A, NEW text \in Seq(C),
         NEW c \in C
  PROVE  /\ Drive(op, start, text) \in A
         /\ Drive(op, start, Append(text, c)) = op[c][Drive(op, start, text)]
<1> DEFINE n    == Len(text)
           more == Append(text, c)
<1>1. /\ n \in Nat /\ more \in Seq(C) /\ Len(more) = n + 1 /\ more[n + 1] = c
      /\ \A i \in 1 .. n : more[i] = text[i]
  OBVIOUS
<1> HIDE DEF more
<1>2. PICK g \in [0 .. Len(more) -> A] :
        /\ g[0] = start
        /\ \A i \in 1 .. Len(more) : g[i] = op[more[i]][g[i - 1]]
        /\ Drive(op, start, more) = g[Len(more)]
  <2>1. more \in Seq(C)
    BY <1>1
  <2> QED
    BY <2>1, DriveTrace
<1>3. \A i \in 1 .. n : g[i] = op[text[i]][g[i - 1]]
  BY <1>1, <1>2
<1>4. g[n] = Drive(op, start, text) /\ Drive(op, start, text) \in A
  <2>1. g[0] = start
        /\ \A i \in 1 .. Len(text) : g[i - 1] \in A => g[i] = op[text[i]][g[i - 1]]
    BY <1>2, <1>3
  <2> QED
    BY <2>1, DriveUnique
<1>5. g[n + 1] = op[c][g[n]]
  <2>1. n + 1 \in 1 .. Len(more) /\ (n + 1) - 1 = n
    BY <1>1
  <2>2. g[n + 1] = op[more[n + 1]][g[(n + 1) - 1]]
    BY <1>2, <2>1
  <2> QED
    BY <1>1, <2>1, <2>2
<1> QED
  BY <1>1, <1>2, <1>4, <1>5 DEF more

LEMMA DriveOne ==
  ASSUME NEW C, NEW A, NEW op \in Machines(C, A), NEW start \in A, NEW c \in C
  PROVE  /\ <<c>> \in Seq(C) /\ Drive(op, start, <<c>>) \in A
         /\ Drive(op, start, <<c>>) = op[c][start]
<1>1. <<>> \in Seq(C) /\ Append(<<>>, c) = <<c>> /\ <<c>> \in Seq(C)
  OBVIOUS
<1>2. Drive(op, start, <<>>) = start
  BY DriveEmpty
<1> DEFINE none == <<>>
<1>3. none \in Seq(C)
  OBVIOUS
<1> HIDE DEF none
<1>4. Drive(op, start, Append(none, c)) = op[c][Drive(op, start, none)]
  BY <1>3, DriveAppend
<1>5. <<c>> \in Seq(C)
  OBVIOUS
<1>6. Drive(op, start, <<c>>) \in A
  BY <1>5, DriveAppend
<1> QED
  BY <1>1, <1>2, <1>4, <1>6 DEF none

LEMMA DriveTwo ==
  ASSUME NEW C, NEW A, NEW op \in Machines(C, A), NEW start \in A, NEW c \in C, NEW d \in C
  PROVE  /\ <<c, d>> \in Seq(C)
         /\ Drive(op, start, <<c, d>>) = op[d][op[c][start]]
<1>1. <<c>> \in Seq(C) /\ Append(<<c>>, d) = <<c, d>> /\ <<c, d>> \in Seq(C)
  <2>1. <<c>> \in Seq(C)
    OBVIOUS
  <2>2. <<c, d>> \in Seq(C)
    OBVIOUS
  <2>3. Append(<<c>>, d) = <<c, d>>
    <3> DEFINE one == <<c>>
               two == <<c, d>>
               t   == Append(one, d)
    <3>1. one \in Seq(C) /\ Len(one) = 1 /\ one[1] = c
      OBVIOUS
    <3>2. two \in Seq(C) /\ Len(two) = 2 /\ two[1] = c /\ two[2] = d
      OBVIOUS
    <3> HIDE DEF one, two
    <3>3. t \in Seq(C) /\ Len(t) = 2 /\ t[1] = c /\ t[2] = d
      <4>1. /\ t \in Seq(C) /\ Len(t) = Len(one) + 1 /\ t[Len(one) + 1] = d
            /\ \A i \in 1 .. Len(one) : t[i] = one[i]
        <5>1. one \in Seq(C)
          BY <3>1
        <5> HIDE DEF one
        <5>2. /\ t \in Seq(C) /\ t = [i \in 1 .. Len(one) + 1 |-> t[i]] /\ t[Len(one) + 1] = d
              /\ \A i \in 1 .. Len(one) : t[i] = one[i]
          BY <5>1, AppendParts
        <5> HIDE DEF t
        <5>3. Len(t) = Len(one) + 1
          BY <3>1, <5>2
        <5> QED
          BY <5>2, <5>3
      <4> HIDE DEF t
      <4> QED
        BY <3>1, <4>1
    <3> HIDE DEF t
    <3>4. t = two
      BY <3>2, <3>3
    <3> QED
      BY <3>4 DEF one, two, t
  <2> QED
    BY <2>1, <2>2, <2>3
<1>2. Drive(op, start, <<c>>) = op[c][start]
  BY DriveOne
<1> DEFINE one == <<c>>
<1>3. one \in Seq(C)
  OBVIOUS
<1> HIDE DEF one
<1>4. Drive(op, start, Append(one, d)) = op[d][Drive(op, start, one)]
  BY <1>3, DriveAppend
<1> QED
  BY <1>1, <1>2, <1>4 DEF one

LEMMA DriveConcat ==
  ASSUME NEW C, NEW A, NEW op \in Machines(C, A), NEW start \in A,
         NEW text \in Seq(C), NEW rest \in Seq(C)
  PROVE  Drive(op, start, text \o rest) = Drive(op, Drive(op, start, text), rest)
<1> DEFINE mid == Drive(op, start, text)
           S   == {u \in Seq(C) : Drive(op, start, text \o u) = Drive(op, mid, u)}
<1>1. mid \in A
  <2>1. PICK g \in [0 .. Len(text) -> A] : mid = g[Len(text)]
    BY DriveTrace
  <2>2. Len(text) \in 0 .. Len(text)
    OBVIOUS
  <2> QED
    BY <2>1, <2>2
<1>2. <<>> \in S
  <2>1. text \o <<>> = text /\ <<>> \in Seq(C)
    OBVIOUS
  <2>2. Drive(op, mid, <<>>) = mid
    <3> HIDE DEF mid
    <3> QED
      BY <1>1, DriveEmpty
  <2> QED
    BY <2>1, <2>2
<1>3. ASSUME NEW u \in Seq(C), NEW c \in C, u \in S PROVE Append(u, c) \in S
  <2>1. Append(u, c) \in Seq(C) /\ text \o u \in Seq(C)
        /\ text \o Append(u, c) = Append(text \o u, c)
    OBVIOUS
  <2>2. Drive(op, start, Append(text \o u, c)) = op[c][Drive(op, start, text \o u)]
    <3> DEFINE before == text \o u
    <3>1. before \in Seq(C)
      BY <2>1
    <3> HIDE DEF before
    <3>2. Drive(op, start, Append(before, c)) = op[c][Drive(op, start, before)]
      BY <3>1, DriveAppend
    <3> QED
      BY <3>2 DEF before
  <2>3. Drive(op, mid, Append(u, c)) = op[c][Drive(op, mid, u)]
    <3> HIDE DEF mid
    <3> QED
      BY <1>1, DriveAppend
  <2> QED
    BY <1>3, <2>1, <2>2, <2>3
<1>4. Seq(C) \subseteq S
  <2> HIDE DEF S
  <2> QED
    BY <1>2, <1>3, TextInduction
<1> QED
  BY <1>4
------------------------------------------------------------------------------
(* What has been read of a text, word by word. *)
SoFar(words, open) == [words |-> words, open |-> open]
ReadStates(C) ==
  {read \in [words : Seq(Seq(C)), open : BOOLEAN] : read.open => read.words # <<>>}

LEMMA WordsStepType ==
  ASSUME NEW C, NEW seps, NEW read \in ReadStates(C), NEW c \in C
  PROVE  WordsStep(seps, read, c) \in ReadStates(C)
<1>1. PICK words \in Seq(Seq(C)), open \in BOOLEAN :
        read = SoFar(words, open) /\ (open => words # <<>>)
  BY DEF ReadStates, SoFar
<1>2. CASE c \in seps
  <2>1. WordsStep(seps, read, c) = SoFar(words, FALSE)
    BY <1>1, <1>2 DEF WordsStep, SoFar
  <2> QED
    BY <2>1 DEF SoFar, ReadStates
<1>3. CASE c \notin seps /\ open
  <2>1. WordsStep(seps, read, c) = SoFar(Append(Front(words), Append(Last(words), c)), TRUE)
    BY <1>1, <1>3 DEF WordsStep, SoFar
  <2>2. Front(words) \in Seq(Seq(C)) /\ Last(words) \in Seq(C)
    BY <1>1, <1>3, FrontAndLast
  <2>3. Append(Front(words), Append(Last(words), c)) \in Seq(Seq(C))
        /\ Append(Front(words), Append(Last(words), c)) # <<>>
    BY <2>2, SMTT(30)
  <2> QED
    BY <2>1, <2>3 DEF SoFar, ReadStates
<1>4. CASE c \notin seps /\ ~open
  <2>1. WordsStep(seps, read, c) = SoFar(Append(words, <<c>>), TRUE)
    BY <1>1, <1>4 DEF WordsStep, SoFar
  <2>2. Append(words, <<c>>) \in Seq(Seq(C)) /\ Append(words, <<c>>) # <<>>
    <3> DEFINE A == Seq(C)
               w == <<c>>
    <3>1. w \in A /\ words \in Seq(A)
      OBVIOUS
    <3> HIDE DEF A, w
    <3>2. Append(words, w) \in Seq(A) /\ Append(words, w) # <<>>
      BY <3>1
    <3> QED
      BY <3>2 DEF A, w
  <2> QED
    BY <2>1, <2>2 DEF SoFar, ReadStates
<1> QED
  BY <1>1, <1>2, <1>3, <1>4

WordsMachine(seps, C) == [c \in C |-> [read \in ReadStates(C) |-> WordsStep(seps, read, c)]]

LEMMA WordsMachineType ==
  ASSUME NEW C, NEW seps
  PROVE  /\ WordsMachine(seps, C) \in Machines(C, ReadStates(C))
         /\ \A c \in C, read \in ReadStates(C) :
              WordsMachine(seps, C)[c][read] = WordsStep(seps, read, c)
<1>1. \A c \in C, read \in ReadStates(C) : WordsStep(seps, read, c) \in ReadStates(C)
  BY WordsStepType
<1> QED
  BY <1>1 DEF WordsMachine, Machines

LEMMA WordsDrive ==
  ASSUME NEW C, NEW seps, NEW text \in Seq(C)
  PROVE  /\ Words(text, seps) = Drive(WordsMachine(seps, C), SoFar(<<>>, FALSE), text).words
         /\ SoFar(<<>>, FALSE) \in ReadStates(C)
<1> DEFINE n     == Len(text)
           A     == ReadStates(C)
           op    == WordsMachine(seps, C)
           start == SoFar(<<>>, FALSE)
           made[i \in 0 .. n] ==
             IF i = 0 THEN start ELSE WordsStep(seps, made[i - 1], text[i])
<1>1. n \in Nat /\ \A i \in 1 .. n : text[i] \in C
  OBVIOUS
<1>2. Words(text, seps) = made[n].words
  BY DEF Words, Along, SoFar
<1>3. op \in Machines(C, A) /\ \A c \in C, read \in A : op[c][read] = WordsStep(seps, read, c)
  BY WordsMachineType
<1>4. start \in A
  BY DEF SoFar, ReadStates
<1> HIDE DEF op, A, n, start
<1>5. PICK g \in [0 .. n -> A] :
        /\ g[0] = start
        /\ \A i \in 1 .. n : g[i] = op[text[i]][g[i - 1]]
  BY <1>3, <1>4, DriveTrace DEF n
<1>6. g = [i \in 0 .. n |-> IF i = 0 THEN start ELSE WordsStep(seps, g[i - 1], text[i])]
  <2>1. ASSUME NEW i \in 1 .. n PROVE g[i] = WordsStep(seps, g[i - 1], text[i])
    <3>1. i - 1 \in 0 .. n
      BY <1>1
    <3>2. g[i - 1] \in A /\ text[i] \in C
      BY <1>1, <1>5, <3>1
    <3>3. g[i] = op[text[i]][g[i - 1]]
      BY <1>5
    <3> QED
      BY <1>3, <3>2, <3>3
  <2>2. \A i \in 0 .. n : i # 0 => i \in 1 .. n
    BY <1>1
  <2>3. g = [i \in 0 .. n |-> g[i]]
    BY <1>5
  <2> QED
    BY <1>5, <2>1, <2>2, <2>3
<1>7. made = [i \in 0 .. n |-> IF i = 0 THEN start ELSE WordsStep(seps, made[i - 1], text[i])]
  BY <1>6
<1> HIDE DEF made
<1>8. made[0] = start
  <2>1. 0 \in 0 .. n
    BY <1>1
  <2> QED
    BY <1>7, <2>1
<1>9. ASSUME NEW i \in 1 .. n, made[i - 1] \in A PROVE made[i] = op[text[i]][made[i - 1]]
  <2>1. i \in 0 .. n /\ i # 0
    BY <1>1
  <2>2. made[i] = WordsStep(seps, made[i - 1], text[i])
    BY <1>7, <2>1
  <2> QED
    BY <1>1, <1>3, <1>9, <2>2
<1>10. made[n] = Drive(op, start, text)
  BY <1>3, <1>4, <1>8, <1>9, DriveUnique DEF n
<1> QED
  BY <1>2, <1>4, <1>10 DEF A, op, start

(* Where the words of a text begin, and what one of them is. *)
WordStarts(text, seps) ==
  {i \in 1 .. Len(text) : text[i] \notin seps /\ (i = 1 \/ text[i - 1] \in seps)}
Segment(text, seps, word, i, j) ==
  /\ i \in WordStarts(text, seps) /\ j \in i .. Len(text)
  /\ word = [k \in 1 .. (j - i) + 1 |-> text[(i + k) - 1]]
  /\ \A k \in i .. j : text[k] \notin seps
  /\ j < Len(text) => text[j + 1] \in seps

Segments(text, seps, words, at, to) ==
  /\ \A k \in 1 .. Len(words) : Segment(text, seps, words[k], at[k], to[k])
  /\ \A k, l \in 1 .. Len(words) : k < l => to[k] < at[l]
  /\ \A i \in WordStarts(text, seps) : \E k \in 1 .. Len(words) : at[k] = i

InWord(text, seps) == Len(text) # 0 /\ text[Len(text)] \notin seps

Segmented(text, seps, read) ==
  /\ \E at, to : /\ Segments(text, seps, read.words, at, to)
                 /\ read.open => to[Len(read.words)] = Len(text)
  /\ read.open <=> InWord(text, seps)

(* A separator ends a word. *)
LEMMA SeparatorRead ==
  ASSUME NEW C, NEW seps, NEW text \in Seq(C), NEW c \in C, c \in seps,
         NEW words \in Seq(Seq(C)), NEW at, NEW to, Segments(text, seps, words, at, to)
  PROVE  /\ Segments(Append(text, c), seps, words, at, to)
         /\ ~InWord(Append(text, c), seps)
<1> DEFINE more == Append(text, c)
           n    == Len(text)
<1>1. /\ n \in Nat /\ Len(more) = n + 1 /\ more[n + 1] = c
      /\ \A i \in 1 .. n : more[i] = text[i]
  OBVIOUS
<1>2. ~InWord(more, seps)
  BY <1>1 DEF InWord
<1> HIDE DEF more
<1>3. WordStarts(more, seps) = WordStarts(text, seps)
  <2>1. ASSUME NEW i \in 1 .. n
        PROVE  (more[i] \notin seps /\ (i = 1 \/ more[i - 1] \in seps))
                 <=> (text[i] \notin seps /\ (i = 1 \/ text[i - 1] \in seps))
    <3>1. CASE i = 1
      BY <1>1, <3>1
    <3>2. CASE i # 1
      <4>1. i - 1 \in 1 .. n
        BY <1>1, <3>2
      <4> QED
        BY <1>1, <4>1
    <3> QED
      BY <3>1, <3>2
  <2>2. n + 1 \notin WordStarts(more, seps)
    BY <1>1 DEF WordStarts
  <2> QED
    BY <1>1, <2>1, <2>2 DEF WordStarts
<1>4. ASSUME NEW word, NEW i, NEW j, Segment(text, seps, word, i, j)
      PROVE  Segment(more, seps, word, i, j)
  <2>1. /\ i \in WordStarts(text, seps) /\ j \in i .. n /\ i \in 1 .. n
        /\ word = [k \in 1 .. (j - i) + 1 |-> text[(i + k) - 1]]
        /\ \A k \in i .. j : text[k] \notin seps
        /\ j < n => text[j + 1] \in seps
    BY <1>4 DEF Segment, WordStarts
  <2>2. \A k \in 1 .. (j - i) + 1 : (i + k) - 1 \in 1 .. n
    BY <1>1, <2>1
  <2>3. word = [k \in 1 .. (j - i) + 1 |-> more[(i + k) - 1]]
    BY <1>1, <2>1, <2>2
  <2>4. \A k \in i .. j : k \in 1 .. n
    BY <1>1, <2>1
  <2>5. \A k \in i .. j : more[k] \notin seps
    BY <1>1, <2>1, <2>4
  <2>6. more[j + 1] \in seps
    <3>1. CASE j = n
      BY <1>1, <3>1
    <3>2. CASE j < n
      <4>1. j + 1 \in 1 .. n
        BY <1>1, <2>1, <3>2
      <4> QED
        BY <1>1, <2>1, <3>2, <4>1
    <3> QED
      BY <1>1, <2>1, <3>1, <3>2
  <2>7. j \in i .. Len(more)
    BY <1>1, <2>1
  <2> QED
    BY <1>3, <2>1, <2>3, <2>5, <2>6, <2>7 DEF Segment
<1>5. Segments(more, seps, words, at, to)
  BY <1>3, <1>4 DEF Segments
<1> QED
  BY <1>2, <1>5 DEF more

(* A segment that another character does not touch. *)
LEMMA SegmentKept ==
  ASSUME NEW C, NEW seps, NEW text \in Seq(C), NEW c \in C,
         NEW word, NEW i, NEW j, Segment(text, seps, word, i, j), j < Len(text)
  PROVE  Segment(Append(text, c), seps, word, i, j)
<1> DEFINE more == Append(text, c)
           n    == Len(text)
<1>1. /\ n \in Nat /\ Len(more) = n + 1
      /\ \A k \in 1 .. n : more[k] = text[k]
  OBVIOUS
<1> HIDE DEF more
<1>2. /\ i \in 1 .. n /\ j \in i .. n /\ j < n
      /\ text[i] \notin seps /\ (i = 1 \/ text[i - 1] \in seps)
      /\ word = [k \in 1 .. (j - i) + 1 |-> text[(i + k) - 1]]
      /\ \A k \in i .. j : text[k] \notin seps
      /\ text[j + 1] \in seps
  BY DEF Segment, WordStarts
<1>3. \A k \in 1 .. (j - i) + 1 : (i + k) - 1 \in 1 .. n
  BY <1>1, <1>2
<1>4. word = [k \in 1 .. (j - i) + 1 |-> more[(i + k) - 1]]
  BY <1>1, <1>2, <1>3
<1>5. \A k \in i .. j : more[k] \notin seps
  <2>1. \A k \in i .. j : k \in 1 .. n
    BY <1>1, <1>2
  <2> QED
    BY <1>1, <1>2, <2>1
<1>6. j + 1 \in 1 .. n /\ i \in 1 .. Len(more) /\ j \in i .. Len(more)
  BY <1>1, <1>2
<1>7. more[j + 1] \in seps /\ more[i] \notin seps
  BY <1>1, <1>2, <1>6
<1>8. i = 1 \/ more[i - 1] \in seps
  <2>1. i # 1 => i - 1 \in 1 .. n
    BY <1>1, <1>2
  <2> QED
    BY <1>1, <1>2, <2>1
<1>9. i \in WordStarts(more, seps)
  BY <1>6, <1>7, <1>8 DEF WordStarts
<1> QED
  BY <1>4, <1>5, <1>6, <1>7, <1>9 DEF Segment, more

(* Any other character begins a word, or makes one longer. *)
LEMMA StartsRead ==
  ASSUME NEW C, NEW seps, NEW text \in Seq(C), NEW c \in C, c \notin seps
  PROVE  /\ InWord(Append(text, c), seps)
         /\ WordStarts(Append(text, c), seps)
              = IF InWord(text, seps) THEN WordStarts(text, seps)
                ELSE WordStarts(text, seps) \cup {Len(text) + 1}
<1> DEFINE more == Append(text, c)
           n    == Len(text)
<1>1. /\ n \in Nat /\ Len(more) = n + 1 /\ more[n + 1] = c
      /\ \A k \in 1 .. n : more[k] = text[k]
  OBVIOUS
<1>2. InWord(more, seps)
  BY <1>1 DEF InWord
<1> HIDE DEF more
<1>3. ASSUME NEW i \in 1 .. n
      PROVE  i \in WordStarts(more, seps) <=> i \in WordStarts(text, seps)
  <2>1. i \in 1 .. Len(more) /\ more[i] = text[i]
    BY <1>1
  <2>2. i # 1 => more[i - 1] = text[i - 1]
    <3>1. i # 1 => i - 1 \in 1 .. n
      BY <1>1
    <3> QED
      BY <1>1, <3>1
  <2> QED
    BY <2>1, <2>2 DEF WordStarts
<1>4. n + 1 \in WordStarts(more, seps) <=> ~InWord(text, seps)
  <2>1. n + 1 \in 1 .. Len(more) /\ (n + 1) - 1 = n
    BY <1>1
  <2>2. n # 0 => more[n] = text[n]
    BY <1>1
  <2>3. n + 1 = 1 <=> n = 0
    BY <1>1
  <2> QED
    BY <1>1, <2>1, <2>2, <2>3 DEF WordStarts, InWord
<1>5. /\ WordStarts(text, seps) \subseteq 1 .. n
      /\ WordStarts(more, seps) \subseteq (1 .. n) \cup {n + 1}
  BY <1>1 DEF WordStarts
<1>6. n + 1 \notin 1 .. n
  BY <1>1
<1>7. WordStarts(more, seps) = IF InWord(text, seps) THEN WordStarts(text, seps)
                ELSE WordStarts(text, seps) \cup {n + 1}
  <2> HIDE DEF n
  <2>1. CASE InWord(text, seps)
    <3>1. WordStarts(more, seps) = WordStarts(text, seps)
      BY <1>3, <1>4, <1>5, <2>1
    <3> QED
      BY <2>1, <3>1
  <2>2. CASE ~InWord(text, seps)
    <3>1. WordStarts(more, seps) = WordStarts(text, seps) \cup {n + 1}
      BY <1>3, <1>4, <1>5, <2>2
    <3> QED
      BY <2>2, <3>1
  <2> QED
    BY <2>1, <2>2
<1> QED
  BY <1>2, <1>7 DEF more

LEMMA WordBegun ==
  ASSUME NEW C, NEW seps, NEW text \in Seq(C), NEW c \in C, c \notin seps,
         ~InWord(text, seps),
         NEW words \in Seq(Seq(C)), NEW at, NEW to, Segments(text, seps, words, at, to)
  PROVE  \E at2, to2 :
           /\ Segments(Append(text, c), seps, Append(words, <<c>>), at2, to2)
           /\ to2[Len(words) + 1] = Len(text) + 1
<1> DEFINE more == Append(text, c)
           n    == Len(text)
           m    == Len(words)
           next == Append(words, <<c>>)
           at2  == [k \in 1 .. m + 1 |-> IF k = m + 1 THEN n + 1 ELSE at[k]]
           to2  == [k \in 1 .. m + 1 |-> IF k = m + 1 THEN n + 1 ELSE to[k]]
<1>1. /\ n \in Nat /\ Len(more) = n + 1 /\ more[n + 1] = c
      /\ \A k \in 1 .. n : more[k] = text[k]
  OBVIOUS
<1>2. /\ m \in Nat /\ Len(next) = m + 1 /\ next[m + 1] = <<c>>
      /\ \A k \in 1 .. m : next[k] = words[k]
  OBVIOUS
<1>3. WordStarts(more, seps) = WordStarts(text, seps) \cup {n + 1}
  BY StartsRead
<1>4. ASSUME NEW k \in 1 .. m
      PROVE  /\ Segment(text, seps, words[k], at[k], to[k])
             /\ at[k] \in 1 .. n /\ to[k] \in 1 .. n /\ to[k] < n
  <2>1. Segment(text, seps, words[k], at[k], to[k])
    BY DEF Segments
  <2>2. at[k] \in 1 .. n /\ to[k] \in at[k] .. n /\ text[to[k]] \notin seps
    <3>1. at[k] \in 1 .. n /\ to[k] \in at[k] .. n
          /\ \A l \in at[k] .. to[k] : text[l] \notin seps
      BY <2>1 DEF Segment, WordStarts
    <3>2. to[k] \in at[k] .. to[k]
      BY <1>1, <3>1
    <3> QED
      BY <3>1, <3>2
  <2>3. to[k] # n
    BY <1>1, <2>2 DEF InWord
  <2> QED
    BY <1>1, <2>1, <2>2, <2>3
<1>5. Segment(more, seps, <<c>>, n + 1, n + 1)
  <2>1. n + 1 \in WordStarts(more, seps) /\ n + 1 \in n + 1 .. Len(more)
    BY <1>1, <1>3
  <2>2. <<c>> = [k \in 1 .. ((n + 1) - (n + 1)) + 1 |-> more[((n + 1) + k) - 1]]
    <3>1. ((n + 1) - (n + 1)) + 1 = 1 /\ ((n + 1) + 1) - 1 = n + 1
      BY <1>1
    <3>2. \A k \in 1 .. 1 : k = 1
      OBVIOUS
    <3>3. <<c>> = [k \in 1 .. 1 |-> c]
      OBVIOUS
    <3> HIDE DEF n, more
    <3> QED
      BY <1>1, <3>1, <3>2, <3>3
  <2>3. \A k \in n + 1 .. n + 1 : k = n + 1
    BY <1>1
  <2>4. ~(n + 1 < Len(more))
    BY <1>1
  <2> HIDE DEF n, more
  <2> QED
    BY <1>1, <2>1, <2>2, <2>3, <2>4 DEF Segment
<1> HIDE DEF next, m
<1>6. ASSUME NEW k \in 1 .. m + 1 PROVE Segment(more, seps, next[k], at2[k], to2[k])
  <2>1. CASE k = m + 1
    BY <1>2, <1>5, <2>1
  <2>2. CASE k # m + 1
    <3>1. k \in 1 .. m
      BY <1>2, <2>2
    <3>2. Segment(more, seps, words[k], at[k], to[k])
      BY <1>4, <3>1, SegmentKept
    <3> QED
      BY <1>2, <2>2, <3>1, <3>2
  <2> QED
    BY <2>1, <2>2
<1>7. ASSUME NEW k \in 1 .. m + 1, NEW l \in 1 .. m + 1, k < l PROVE to2[k] < at2[l]
  <2>1. k \in 1 .. m
    BY <1>2, <1>7
  <2>2. CASE l = m + 1
    BY <1>1, <1>2, <1>4, <2>1, <2>2
  <2>3. CASE l # m + 1
    <3>1. l \in 1 .. m
      BY <1>2, <2>3
    <3>2. to[k] < at[l]
      BY <1>7, <2>1, <3>1 DEF Segments, m
    <3> QED
      BY <1>2, <2>1, <2>3, <3>2
  <2> QED
    BY <2>2, <2>3
<1>8. ASSUME NEW i \in WordStarts(more, seps) PROVE \E k \in 1 .. m + 1 : at2[k] = i
  <2>1. CASE i = n + 1
    <3>1. m + 1 \in 1 .. m + 1 /\ at2[m + 1] = n + 1
      BY <1>2
    <3> QED
      BY <2>1, <3>1
  <2>2. CASE i \in WordStarts(text, seps)
    <3>1. PICK k \in 1 .. m : at[k] = i
      BY <2>2 DEF Segments, m
    <3>2. k \in 1 .. m + 1 /\ k # m + 1
      BY <1>2
    <3> QED
      BY <3>1, <3>2
  <2> QED
    BY <1>3, <2>1, <2>2
<1>9. to2[m + 1] = n + 1
  BY <1>2
<1> HIDE DEF at2, to2, more
<1>10. Segments(more, seps, next, at2, to2)
  BY <1>2, <1>6, <1>7, <1>8 DEF Segments
<1> QED
  BY <1>9, <1>10 DEF more, next, m

LEMMA WordContinued ==
  ASSUME NEW C, NEW seps, NEW text \in Seq(C), NEW c \in C, c \notin seps,
         InWord(text, seps),
         NEW words \in Seq(Seq(C)), words # <<>>,
         NEW at, NEW to, Segments(text, seps, words, at, to), to[Len(words)] = Len(text)
  PROVE  \E to2 :
           /\ Segments(Append(text, c), seps,
                       Append(Front(words), Append(Last(words), c)), at, to2)
           /\ to2[Len(words)] = Len(text) + 1
<1> DEFINE more == Append(text, c)
           n    == Len(text)
           m    == Len(words)
           last == words[m]
           next == Append(Front(words), Append(last, c))
           to2  == [k \in 1 .. m |-> IF k = m THEN n + 1 ELSE to[k]]
<1>1. /\ n \in Nat /\ Len(more) = n + 1 /\ more[n + 1] = c
      /\ \A k \in 1 .. n : more[k] = text[k]
  OBVIOUS
<1>2. m \in Nat \ {0} /\ last \in Seq(C) /\ Last(words) = last
  <2>1. m \in Nat \ {0} /\ Last(words) \in Seq(C) /\ Last(words) = words[m]
    BY FrontAndLast
  <2> QED
    BY <2>1
<1>3. /\ Len(next) = m /\ next[m] = Append(last, c)
      /\ \A k \in 1 .. m - 1 : next[k] = words[k]
  <2> DEFINE front == Front(words)
             A     == Seq(C)
             x     == Append(last, c)
  <2>1. /\ front \in Seq(A) /\ Len(front) = m - 1 /\ x \in A
        /\ \A k \in 1 .. m - 1 : front[k] = words[k]
    BY <1>2, FrontAndLast
  <2> HIDE DEF front, A, x
  <2>2. Len(Append(front, x)) = (m - 1) + 1 /\ Append(front, x)[(m - 1) + 1] = x
        /\ \A k \in 1 .. m - 1 : Append(front, x)[k] = front[k]
    BY <2>1
  <2>3. (m - 1) + 1 = m
    BY <1>2
  <2> QED
    BY <2>1, <2>2, <2>3 DEF front, x
<1>4. WordStarts(more, seps) = WordStarts(text, seps)
  BY StartsRead
<1>5. ASSUME NEW k \in 1 .. m
      PROVE  /\ Segment(text, seps, words[k], at[k], to[k])
             /\ at[k] \in 1 .. n /\ to[k] \in at[k] .. n
             /\ k # m => to[k] < n
  <2>1. Segment(text, seps, words[k], at[k], to[k])
    BY DEF Segments
  <2>2. at[k] \in 1 .. n /\ to[k] \in at[k] .. n
    BY <2>1 DEF Segment, WordStarts
  <2>3. k # m => to[k] < n
    <3> SUFFICES ASSUME k # m PROVE to[k] < n
      OBVIOUS
    <3>1. m \in 1 .. m /\ k < m
      BY <1>2
    <3>2. to[k] < at[m]
      BY <3>1 DEF Segments
    <3>3. at[m] \in 1 .. n
      BY <3>1 DEF Segments, Segment, WordStarts
    <3> QED
      BY <1>1, <2>2, <3>2, <3>3
  <2> QED
    BY <2>1, <2>2, <2>3
<1>6. Segment(more, seps, Append(last, c), at[m], n + 1)
  <2> DEFINE i == at[m]
             w == Append(last, c)
  <2>1. m \in 1 .. m /\ to[m] = n
    BY <1>2
  <2>2. /\ i \in WordStarts(text, seps) /\ i \in 1 .. n
        /\ last = [k \in 1 .. (n - i) + 1 |-> text[(i + k) - 1]]
        /\ \A k \in i .. n : text[k] \notin seps
    BY <1>5, <2>1 DEF Segment
  <2> HIDE DEF i, last, n, more
  <2>3. (n - i) + 1 \in Nat /\ Len(last) = (n - i) + 1
    BY <1>1, <2>2
  <2>4. /\ w = [k \in 1 .. Len(last) + 1 |-> w[k]] /\ w[Len(last) + 1] = c
        /\ \A k \in 1 .. Len(last) : w[k] = last[k]
    <3>1. last \in Seq(C) /\ c \in C
      BY <1>2
    <3> QED
      BY ONLY <3>1, AppendParts
  <2> HIDE DEF w
  <2>5. ASSUME NEW k \in 1 .. ((n + 1) - i) + 1 PROVE w[k] = more[(i + k) - 1]
    <3>1. CASE k = (n - i) + 2
      <4>1. (i + k) - 1 = n + 1 /\ k = Len(last) + 1
        BY <1>1, <2>2, <2>3, <3>1
      <4> QED
        BY <1>1, <2>4, <4>1
    <3>2. CASE k # (n - i) + 2
      <4>1. k \in 1 .. Len(last) /\ (i + k) - 1 \in 1 .. n
        BY <1>1, <2>2, <2>3, <3>2
      <4>2. w[k] = last[k] /\ last[k] = text[(i + k) - 1]
        BY <2>2, <2>3, <2>4, <4>1
      <4> QED
        BY <1>1, <4>1, <4>2
    <3> QED
      BY <3>1, <3>2
  <2>6. Len(last) + 1 = ((n + 1) - i) + 1
    BY <1>1, <2>2, <2>3
  <2>7. w = [k \in 1 .. ((n + 1) - i) + 1 |-> more[(i + k) - 1]]
    BY <2>4, <2>5, <2>6
  <2>8. \A k \in i .. n + 1 : more[k] \notin seps
    <3>1. \A k \in i .. n + 1 : k = n + 1 \/ (k \in i .. n /\ k \in 1 .. n)
      BY <1>1, <2>2
    <3> QED
      BY <1>1, <2>2, <3>1
  <2>9. n + 1 \in i .. Len(more) /\ ~(n + 1 < Len(more))
    BY <1>1, <2>2
  <2> QED
    BY <1>4, <2>2, <2>7, <2>8, <2>9 DEF Segment, i, w
<1> HIDE DEF next, m, last
<1>7. ASSUME NEW k \in 1 .. m PROVE Segment(more, seps, next[k], at[k], to2[k])
  <2>1. CASE k = m
    BY <1>3, <1>6, <2>1
  <2>2. CASE k # m
    <3>1. k \in 1 .. m - 1
      BY <1>2, <2>2
    <3>2. Segment(text, seps, words[k], at[k], to[k]) /\ to[k] < n
      BY <1>5, <2>2
    <3>3. Segment(more, seps, words[k], at[k], to[k])
      BY <3>2, SegmentKept
    <3> QED
      BY <1>3, <2>2, <3>1, <3>3
  <2> QED
    BY <2>1, <2>2
<1>8. ASSUME NEW k \in 1 .. m, NEW l \in 1 .. m, k < l PROVE to2[k] < at[l]
  <2>1. k # m
    BY <1>2, <1>8
  <2>2. to[k] < at[l]
    BY <1>8 DEF Segments, m
  <2> QED
    BY <2>1, <2>2
<1>9. ASSUME NEW i \in WordStarts(more, seps) PROVE \E k \in 1 .. m : at[k] = i
  BY <1>4 DEF Segments, m
<1>10. to2[m] = n + 1
  BY <1>2
<1> HIDE DEF to2, more
<1>11. Segments(more, seps, next, at, to2)
  BY <1>3, <1>7, <1>8, <1>9 DEF Segments
<1> QED
  BY <1>2, <1>10, <1>11 DEF more, next, m

(* Reading a text word by word gives its words, in order and whole. *)
LEMMA WordsSegmented ==
  ASSUME NEW C, NEW seps, NEW text \in Seq(C)
  PROVE  /\ Words(text, seps) \in Seq(Seq(C))
         /\ \E at, to : Segments(text, seps, Words(text, seps), at, to)
<1> DEFINE op      == WordsMachine(seps, C)
           A       == ReadStates(C)
           start   == SoFar(<<>>, FALSE)
           Read(t) == Drive(op, start, t)
           S       == {t \in Seq(C) : Segmented(t, seps, Read(t))}
<1>1. op \in Machines(C, A) /\ \A c \in C, read \in A : op[c][read] = WordsStep(seps, read, c)
  BY WordsMachineType
<1>2. start \in A
  BY WordsDrive
<1>3. \A t \in Seq(C) : Words(t, seps) = Read(t).words
  BY WordsDrive
<1>4. /\ Read(<<>>) = start
      /\ \A t \in Seq(C) : Read(t) \in A
      /\ \A t \in Seq(C), c \in C : Read(Append(t, c)) = WordsStep(seps, Read(t), c)
  <2> HIDE DEF op, A, start
  <2>1. Read(<<>>) = start
    BY <1>1, <1>2, DriveEmpty
  <2>2. ASSUME NEW t \in Seq(C), NEW c \in C
        PROVE  Read(t) \in A /\ Read(Append(t, c)) = op[c][Read(t)]
    BY <1>1, <1>2, DriveAppend
  <2>3. ASSUME NEW t \in Seq(C) PROVE Read(t) \in A
    <3>1. PICK g \in [0 .. Len(t) -> A] : Drive(op, start, t) = g[Len(t)]
      BY <1>1, <1>2, DriveTrace
    <3>2. Len(t) \in 0 .. Len(t)
      OBVIOUS
    <3> QED
      BY <3>1, <3>2
  <2> QED
    BY <1>1, <2>1, <2>2, <2>3
<1> HIDE DEF Read, op
<1>5. <<>> \in S
  <2>1. Read(<<>>) = SoFar(<<>>, FALSE)
    BY <1>4
  <2>2. WordStarts(<<>>, seps) = {}
    BY DEF WordStarts
  <2>3. Segments(<<>>, seps, <<>>, <<>>, <<>>)
    BY <2>2 DEF Segments
  <2>4. ~InWord(<<>>, seps)
    BY DEF InWord
  <2>5. Segmented(<<>>, seps, SoFar(<<>>, FALSE))
    BY <2>3, <2>4 DEF Segmented, SoFar
  <2> QED
    <3>1. <<>> \in Seq(C)
      OBVIOUS
    <3> QED
      BY <2>1, <2>5, <3>1
<1>6. ASSUME NEW t \in Seq(C), NEW c \in C, t \in S PROVE Append(t, c) \in S
  <2>1. PICK words \in Seq(Seq(C)), open \in BOOLEAN :
          Read(t) = SoFar(words, open) /\ (open => words # <<>>)
    BY <1>4 DEF ReadStates, SoFar
  <2>2. /\ \E at, to : /\ Segments(t, seps, words, at, to)
                       /\ open => to[Len(words)] = Len(t)
        /\ open <=> InWord(t, seps)
    BY <1>6, <2>1 DEF Segmented, SoFar
  <2>3. PICK at, to : /\ Segments(t, seps, words, at, to)
                      /\ open => to[Len(words)] = Len(t)
    BY <2>2
  <2>4. Len(Append(t, c)) = Len(t) + 1 /\ Append(t, c) \in Seq(C)
    OBVIOUS
  <2>5. CASE c \in seps
    <3>1. Read(Append(t, c)) = SoFar(words, FALSE)
      BY <1>4, <2>1, <2>5 DEF WordsStep, SoFar
    <3>2. Segments(Append(t, c), seps, words, at, to) /\ ~InWord(Append(t, c), seps)
      BY <2>3, <2>5, SeparatorRead
    <3>3. Segmented(Append(t, c), seps, SoFar(words, FALSE))
      BY <3>2 DEF Segmented, SoFar
    <3> QED
      BY <2>4, <3>1, <3>3
  <2>6. CASE c \notin seps /\ open
    <3> DEFINE next == Append(Front(words), Append(Last(words), c))
    <3>1. Read(Append(t, c)) = SoFar(next, TRUE)
      BY <1>4, <2>1, <2>6 DEF WordsStep, SoFar
    <3>2. PICK to2 : /\ Segments(Append(t, c), seps, next, at, to2)
                     /\ to2[Len(words)] = Len(t) + 1
      BY <2>1, <2>2, <2>3, <2>6, WordContinued
    <3>3. Len(next) = Len(words)
      <4> DEFINE B     == Seq(C)
                 front == Front(words)
                 x     == Append(Last(words), c)
      <4>1. front \in Seq(B) /\ x \in B /\ Len(front) = Len(words) - 1 /\ Len(words) \in Nat
        BY <2>1, <2>6, FrontAndLast
      <4> HIDE DEF B, front, x
      <4>2. Len(Append(front, x)) = (Len(words) - 1) + 1
        BY <4>1
      <4> QED
        BY <4>1, <4>2 DEF front, x
    <3>4. InWord(Append(t, c), seps)
      BY <2>6, StartsRead
    <3> HIDE DEF next
    <3>5. Segmented(Append(t, c), seps, SoFar(next, TRUE))
      BY <2>4, <3>2, <3>3, <3>4 DEF Segmented, SoFar
    <3> QED
      BY <2>4, <3>1, <3>5
  <2>7. CASE c \notin seps /\ ~open
    <3> DEFINE next == Append(words, <<c>>)
    <3>1. Read(Append(t, c)) = SoFar(next, TRUE)
      <4>1. Read(Append(t, c)) = WordsStep(seps, SoFar(words, FALSE), c)
        BY <1>4, <2>1, <2>7
      <4> QED
        BY <2>7, <4>1 DEF WordsStep, SoFar
    <3>2. PICK at2, to2 : /\ Segments(Append(t, c), seps, next, at2, to2)
                          /\ to2[Len(words) + 1] = Len(t) + 1
      BY <2>2, <2>3, <2>7, WordBegun
    <3>3. Len(next) = Len(words) + 1
      OBVIOUS
    <3>4. InWord(Append(t, c), seps)
      BY <2>7, StartsRead
    <3> HIDE DEF next
    <3>5. Segmented(Append(t, c), seps, SoFar(next, TRUE))
      BY <2>4, <3>2, <3>3, <3>4 DEF Segmented, SoFar
    <3> QED
      BY <2>4, <3>1, <3>5
  <2> QED
    BY <2>5, <2>6, <2>7
<1>7. Seq(C) \subseteq S
  <2> HIDE DEF S
  <2> QED
    BY <1>5, <1>6, TextInduction
<1>8. Read(text) \in A /\ Segmented(text, seps, Read(text))
  BY <1>4, <1>7
<1> QED
  BY <1>3, <1>8 DEF Segmented, ReadStates

(* A sequence mapped by a function into texts, laid end to end. *)
Mappings(C, A) == [C -> A]
Parts(op, s) == [i \in DOMAIN s |-> op[s[i]]]
Spread(op, s) == FlattenSeq(Parts(op, s))

LEMMA PartsAppend ==
  ASSUME NEW C, NEW A, NEW op \in Mappings(C, A), NEW s \in Seq(C), NEW x \in C
  PROVE  /\ Parts(op, s) \in Seq(A)
         /\ Parts(op, Append(s, x)) = Append(Parts(op, s), op[x])
<1> DEFINE more == Append(s, x)
           n    == Len(s)
           old  == Parts(op, s)
           two  == Append(old, op[x])
<1>1. /\ n \in Nat /\ \A i \in 1 .. n : s[i] \in C
      /\ DOMAIN s = 1 .. n
  OBVIOUS
<1>2. /\ more = [i \in 1 .. n + 1 |-> more[i]]
      /\ more[n + 1] = x /\ \A i \in 1 .. n : more[i] = s[i]
  BY AppendParts
<1>3. /\ old = [i \in 1 .. n |-> op[s[i]]] /\ op[x] \in A
      /\ \A i \in 1 .. n : op[s[i]] \in A
  BY <1>1 DEF Parts, Mappings
<1>4. old \in Seq(A) /\ Len(old) = n
  BY <1>1, <1>3
<1>5. /\ two = [i \in 1 .. Len(old) + 1 |-> two[i]]
      /\ two[Len(old) + 1] = op[x] /\ \A i \in 1 .. Len(old) : two[i] = old[i]
  <2> HIDE DEF old
  <2> QED
    BY <1>3, <1>4, AppendParts
<1> HIDE DEF more, old, two, n
<1>6. \A i \in 1 .. n + 1 : i \in 1 .. n \/ i = n + 1
  BY <1>1
<1>7. \A i \in 1 .. n + 1 : two[i] = op[more[i]]
  BY <1>2, <1>3, <1>4, <1>5, <1>6
<1>8. DOMAIN more = 1 .. n + 1
  BY <1>2
<1>9. Parts(op, more) = [i \in 1 .. n + 1 |-> op[more[i]]]
  BY <1>8 DEF Parts
<1>10. two = [i \in 1 .. n + 1 |-> op[more[i]]]
  BY <1>4, <1>5, <1>7
<1> QED
  BY <1>4, <1>9, <1>10 DEF two, old, more

LEMMA SpreadEmpty ==
  ASSUME NEW op
  PROVE  Spread(op, <<>>) = <<>>
<1>1. Parts(op, <<>>) = <<>>
  BY DEF Parts
<1> QED
  BY <1>1, FlattenEmpty DEF Spread

LEMMA SpreadAppendIn ==
  ASSUME NEW C, NEW B, NEW A, A = Seq(B), NEW op \in Mappings(C, A), NEW s \in Seq(C), NEW x \in C
  PROVE  /\ Spread(op, s) \in A /\ op[x] \in A
         /\ Spread(op, Append(s, x)) = Spread(op, s) \o op[x]
<1> DEFINE old == Parts(op, s)
           y   == op[x]
<1>1. old \in Seq(A) /\ Parts(op, Append(s, x)) = Append(old, y)
  BY ONLY PartsAppend
<1>2. y \in A
  BY DEF Mappings
<1> HIDE DEF old, y
<1>3. FlattenSeq(old) \in A /\ FlattenSeq(Append(old, y)) = FlattenSeq(old) \o y
  BY <1>1, <1>2, FlattenAppend
<1> QED
  BY <1>1, <1>2, <1>3 DEF Spread, old, y

LEMMA SpreadAppend ==
  ASSUME NEW C, NEW B, NEW op \in Mappings(C, Seq(B)), NEW s \in Seq(C), NEW x \in C
  PROVE  /\ Spread(op, s) \in Seq(B) /\ op[x] \in Seq(B)
         /\ Spread(op, Append(s, x)) = Spread(op, s) \o op[x]
<1> DEFINE A == Seq(B)
<1>1. A = Seq(B) /\ op \in Mappings(C, A)
  OBVIOUS
<1> HIDE DEF A
<1>2. /\ Spread(op, s) \in A /\ op[x] \in A
      /\ Spread(op, Append(s, x)) = Spread(op, s) \o op[x]
  BY <1>1, SpreadAppendIn
<1> QED
  BY <1>1, <1>2

LEMMA SpreadTyped ==
  ASSUME NEW C, NEW B, NEW op \in Mappings(C, Seq(B)), NEW s \in Seq(C)
  PROVE  Spread(op, s) \in Seq(B)
<1> DEFINE A == Seq(B)
<1>1. op \in Mappings(C, A)
  OBVIOUS
<1> HIDE DEF A
<1>2. \A i \in DOMAIN s : op[s[i]] \in A
  BY <1>1 DEF Mappings
<1>3. Parts(op, s) \in Seq(A)
  BY <1>2 DEF Parts
<1>4. FlattenSeq(Parts(op, s)) \in Seq(B)
  BY <1>3, FlattenTyped DEF A
<1> QED
  BY <1>4 DEF Spread

(* A machine driven by the first element, then by the others. *)
LEMMA DriveHead ==
  ASSUME NEW C, NEW A, NEW op \in Machines(C, A), NEW start \in A, NEW text \in Seq(C),
         text # <<>>
  PROVE  Drive(op, start, text) = Drive(op, op[Head(text)][start], Tail(text))
<1> DEFINE c    == Head(text)
           rest == Tail(text)
           one  == <<c>>
<1>1. c \in C /\ rest \in Seq(C) /\ text = one \o rest
  BY HeadAndTail
<1> HIDE DEF c, rest
<1>2. one \in Seq(C) /\ Drive(op, start, one) = op[c][start]
  BY <1>1, DriveOne
<1> HIDE DEF one
<1>3. Drive(op, start, one \o rest) = Drive(op, Drive(op, start, one), rest)
  BY <1>1, <1>2, DriveConcat
<1> QED
  BY <1>1, <1>2, <1>3 DEF c, rest
==============================================================================
