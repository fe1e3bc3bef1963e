------------------------ MODULE MconfSequenceProofs -------------------------
(***************************************************************************)
(* Facts about sequences and loops that the proofs about the encodings     *)
(* share: counting up, running a loop that is written as a recursive       *)
(* function, and where the sequences lie that FlattenSeq joins.            *)
(***************************************************************************)
EXTENDS Integers, SequencesExt, SequenceTheorems, WellFoundedInduction, TLAPS

-----------------------------------------------------------------------------
(* Counting and loops.                                                     *)

(* Counting up from 0 reaches every number.                                *)
LEMMA CountingUp ==
  ASSUME NEW S, 0 \in S, \A k \in Nat : k \in S => k + 1 \in S
  PROVE  Nat \subseteq S
<1> DEFINE Z == Nat \ S
<1> SUFFICES ASSUME Z # {} PROVE FALSE
  OBVIOUS
<1>1. PICK i \in Z : \A j \in Z : ~ (<<j, i>> \in OpToRel(<, Nat))
  BY NatLessThanWellFounded, WFMin
<1>2. \A j \in Z : ~ (j < i)
  BY <1>1 DEF OpToRel
<1>3. i \in Nat /\ i # 0
  BY <1>1
<1>a. i - 1 \in Nat /\ i - 1 < i /\ i = (i - 1) + 1
  BY <1>3
<1>4. i - 1 \notin Z
  BY <1>2, <1>a
<1> QED
  BY <1>1, <1>a, <1>4

(* A loop of n turns: g[k] is what it has computed after k of them, F[k]   *)
(* what turn k does.                                                       *)
Loop(g, S, x, F, n) ==
  /\ g \in [0 .. n -> S] /\ g[0] = x
  /\ \A k \in 1 .. n : g[k] = F[k][g[k - 1]]

(* Every loop of steps from S to S can be run.                             *)
LEMMA LoopRuns ==
  ASSUME NEW S, NEW x \in S, NEW n \in Nat, NEW F \in [1 .. n -> [S -> S]]
  PROVE  \E g : Loop(g, S, x, F, n)
<1> DEFINE T == {k \in Nat : k <= n => \E g : Loop(g, S, x, F, k)}
<1>1. 0 \in T
  <2>1. Loop([i \in 0 .. 0 |-> x], S, x, F, 0)
    BY DEF Loop
  <2> QED BY <2>1
<1>2. ASSUME NEW k \in Nat, k \in T PROVE k + 1 \in T
  <2> SUFFICES ASSUME k + 1 <= n PROVE \E g : Loop(g, S, x, F, k + 1)
    OBVIOUS
  <2>1. PICK g : Loop(g, S, x, F, k)
    BY <1>2
  <2> DEFINE h == [i \in 0 .. k + 1 |-> IF i = k + 1 THEN F[i][g[k]] ELSE g[i]]
  <2>2. F[k + 1] \in [S -> S] /\ g[k] \in S
    BY <2>1 DEF Loop
  <2>3. \A i \in 0 .. k + 1 : i # k + 1 => i \in 0 .. k
    OBVIOUS
  <2>4. h \in [0 .. k + 1 -> S]
    BY <2>1, <2>2, <2>3 DEF Loop
  <2>5. ASSUME NEW i \in 1 .. k + 1 PROVE h[i] = F[i][h[i - 1]]
    <3>1. i - 1 \in 0 .. k /\ i - 1 # k + 1 /\ h[i - 1] = g[i - 1] /\ i \in 0 .. k + 1
      OBVIOUS
    <3>2. CASE i = k + 1
      <4>1. i - 1 = k
        BY <3>2
      <4> QED BY <3>1, <3>2, <4>1
    <3>3. CASE i # k + 1
      <4>1. i \in 1 .. k
        BY <3>3
      <4>2. g[i] = F[i][g[i - 1]]
        BY <2>1, <4>1 DEF Loop
      <4> QED BY <3>1, <3>3, <4>2
    <3> QED BY <3>2, <3>3
  <2>6. h[0] = x
    BY <2>1 DEF Loop
  <2>7. Loop(h, S, x, F, k + 1)
    BY <2>4, <2>5, <2>6 DEF Loop
  <2> QED BY <2>7
<1>3. n \in T
  BY <1>1, <1>2, CountingUp
<1> QED BY <1>3

(* Counting up to n.                                                       *)
LEMMA CountingTo ==
  ASSUME NEW n \in Nat, NEW S, 0 \in S, \A k \in 0 .. n - 1 : k \in S => k + 1 \in S
  PROVE  \A k \in 0 .. n : k \in S
<1> DEFINE T == {k \in Nat : k <= n => k \in S}
<1>1. 0 \in T
  OBVIOUS
<1>2. \A k \in Nat : k \in T => k + 1 \in T
  OBVIOUS
<1>3. Nat \subseteq T
  BY <1>1, <1>2, CountingUp
<1> QED BY <1>3

-----------------------------------------------------------------------------
(* Joining sequences.                                                      *)

(* c is a and then b; x is the beginning of y.                             *)
Appended(a, b, c) ==
  /\ Len(c) = Len(a) + Len(b)
  /\ \A k \in 1 .. Len(a) : c[k] = a[k]
  /\ \A k \in 1 .. Len(b) : c[Len(a) + k] = b[k]
Begins(x, y) == Len(x) <= Len(y) /\ \A k \in 1 .. Len(x) : y[k] = x[k]

(* Concatenation appends.                                                  *)
LEMMA Concatenated ==
  ASSUME NEW T, NEW a \in Seq(T), NEW b \in Seq(T)
  PROVE  Appended(a, b, a \o b)
BY DEF Appended

(* Concatenations of equally long beginnings are equal part by part.       *)
LEMMA Cancelled ==
  ASSUME NEW T, NEW a \in Seq(T), NEW b \in Seq(T), NEW c \in Seq(T), NEW d \in Seq(T),
         Len(a) = Len(c), a \o b = c \o d
  PROVE  a = c /\ b = d
<1>1. Appended(a, b, a \o b) /\ Appended(c, d, a \o b)
  BY Concatenated
<1>2. Len(a) \in Nat /\ Len(b) \in Nat /\ Len(d) \in Nat
  BY LenProperties
<1>3. Len(b) = Len(d)
  BY <1>1, <1>2 DEF Appended
<1>4. \A k \in 1 .. Len(a) : a[k] = c[k]
  BY <1>1 DEF Appended
<1>5. \A k \in 1 .. Len(b) : b[k] = d[k]
  BY <1>1, <1>3 DEF Appended
<1>6. a = c
  BY <1>4, SeqEqual
<1> QED BY <1>3, <1>5, <1>6, SeqEqual

(* Appending keeps the beginning.                                          *)
LEMMA StillBegins ==
  ASSUME NEW T, NEW x \in Seq(T), NEW y \in Seq(T), NEW b \in Seq(T), NEW z,
         Begins(x, y), Appended(y, b, z)
  PROVE  Begins(x, z)
<1>1. Len(x) \in Nat /\ Len(y) \in Nat /\ Len(b) \in Nat
  BY LenProperties
<1>2. \A k \in 1 .. Len(x) : k \in 1 .. Len(y)
  BY <1>1 DEF Begins
<1> QED BY <1>1, <1>2 DEF Begins, Appended

(* f joins the first k of the sequences s.                                 *)
Joins(f, s, k) ==
  f = [i \in 1 .. k |-> IF i = 1 THEN s[i] ELSE f[i - 1] \o s[i]]

(* There is such an f for every k.                                         *)
LEMMA JoinsExists ==
  ASSUME NEW s, NEW n \in Nat
  PROVE  \E f : Joins(f, s, n)
<1> DEFINE S == {k \in Nat : \E f : Joins(f, s, k)}
<1>1. 0 \in S
  <2>1. Joins([i \in 1 .. 0 |-> s], s, 0)
    BY DEF Joins
  <2> QED BY <2>1
<1>2. ASSUME NEW k \in S PROVE k + 1 \in S
  <2>1. PICK f : Joins(f, s, k)
    OBVIOUS
  <2> DEFINE g == [i \in 1 .. k + 1 |-> IF i \in 1 .. k THEN f[i]
                                        ELSE IF i = 1 THEN s[i] ELSE f[i - 1] \o s[i]]
  <2>2. ASSUME NEW i \in 1 .. k + 1
        PROVE  g[i] = IF i = 1 THEN s[i] ELSE g[i - 1] \o s[i]
    <3>0. k \in Nat
      OBVIOUS
    <3>1. CASE i \in 1 .. k
      <4>1. f[i] = IF i = 1 THEN s[i] ELSE f[i - 1] \o s[i]
        BY <2>1, <3>1 DEF Joins
      <4>2. i # 1 => i - 1 \in 1 .. k /\ i - 1 \in 1 .. k + 1
        BY <3>0, <3>1
      <4> QED BY <3>1, <4>1, <4>2
    <3>2. CASE i = k + 1
      <4>1. i \notin 1 .. k /\ (i # 1 => i - 1 \in 1 .. k /\ i - 1 \in 1 .. k + 1)
        BY <3>0, <3>2
      <4> QED BY <4>1
    <3> QED BY <3>0, <3>1, <3>2
  <2>3. Joins(g, s, k + 1)
    BY <2>2 DEF Joins
  <2> QED BY <2>3
<1>3. Nat \subseteq S
  BY <1>1, <1>2, CountingUp
<1> QED BY <1>3

(* Where the first i of the sequences s end when they are joined.          *)
Parts(s)  == CHOOSE f : Joins(f, s, Len(s))
End(s, i) == IF i = 0 THEN 0 ELSE Len(Parts(s)[i])

(* FlattenSeq joins them all.                                              *)
LEMMA FlattenedParts ==
  ASSUME NEW s, Len(s) \in Nat \ {0}
  PROVE  Joins(Parts(s), s, Len(s)) /\ FlattenSeq(s) = Parts(s)[Len(s)]
<1>1. Joins(Parts(s), s, Len(s))
  BY JoinsExists DEF Parts
<1>2. FlattenSeq(s) = Parts(s)[Len(s)]
  BY DEF FlattenSeq, Joins, Parts
<1> QED BY <1>1, <1>2

(* The parts grow by one sequence at a time.                               *)
LEMMA PartsGrow ==
  ASSUME NEW T, NEW s \in Seq(Seq(T)), Len(s) \in Nat \ {0}, NEW f, Joins(f, s, Len(s))
  PROVE  \A i \in 1 .. Len(s) :
           /\ f[i] \in Seq(T)
           /\ i = 1 => f[i] = s[i]
           /\ i # 1 => f[i] = f[i - 1] \o s[i] /\ f[i - 1] \in Seq(T)
<1> DEFINE n == Len(s)
           S == {k \in Nat : k + 1 \in 1 .. n => f[k + 1] \in Seq(T)}
<1>1. \A i \in 1 .. n : s[i] \in Seq(T) /\ (f[i] = IF i = 1 THEN s[i] ELSE f[i - 1] \o s[i])
  BY ElementOfSeq DEF Joins
<1> HIDE DEF n
<1>2. n \in Nat \ {0}
  BY DEF n
<1>3. 0 \in S
  BY <1>1, <1>2
<1>4. ASSUME NEW k \in Nat, k \in S PROVE k + 1 \in S
  <2> SUFFICES ASSUME k + 2 \in 1 .. n PROVE f[k + 2] \in Seq(T)
    OBVIOUS
  <2>1. k + 1 \in 1 .. n /\ k + 2 # 1 /\ (k + 2) - 1 = k + 1
    BY <1>2
  <2>2. f[k + 2] = f[k + 1] \o s[k + 2] /\ s[k + 2] \in Seq(T)
    BY <1>1, <2>1
  <2> QED BY <1>4, <2>1, <2>2, ConcatProperties
<1>5. Nat \subseteq S
  BY <1>3, <1>4, CountingUp
<1>6. ASSUME NEW i \in 1 .. n PROVE f[i] \in Seq(T)
  <2>1. i - 1 \in Nat /\ (i - 1) + 1 = i
    BY <1>2
  <2> QED BY <1>5, <2>1
<1>7. \A i \in 1 .. n : i # 1 => i - 1 \in 1 .. n
  BY <1>2
<1> QED BY <1>1, <1>6, <1>7 DEF n

(* Each part is the beginning of every later one.                          *)
LEMMA PartsArePrefixes ==
  ASSUME NEW T, NEW s \in Seq(Seq(T)), Len(s) \in Nat \ {0}, NEW f, Joins(f, s, Len(s)),
         NEW i \in 1 .. Len(s)
  PROVE  Begins(f[i], f[Len(s)])
<1> DEFINE n == Len(s)
           S == {m \in Nat : i + m \in 1 .. n => Begins(f[i], f[i + m])}
<1>1. /\ \A j \in 1 .. n : f[j] \in Seq(T) /\ s[j] \in Seq(T)
      /\ \A j \in 1 .. n : j # 1 => f[j] = f[j - 1] \o s[j]
  <2>1. \A j \in 1 .. n : s[j] \in Seq(T)
    BY ElementOfSeq
  <2>2. \A j \in 1 .. n : f[j] \in Seq(T) /\ (j # 1 => f[j] = f[j - 1] \o s[j])
    <3>1. \A j \in 1 .. Len(s) :
            /\ f[j] \in Seq(T)
            /\ j = 1 => f[j] = s[j]
            /\ j # 1 => f[j] = f[j - 1] \o s[j] /\ f[j - 1] \in Seq(T)
      BY PartsGrow
    <3> QED BY <3>1
  <2> QED BY <2>1, <2>2
<1>2. n \in Nat \ {0} /\ i \in 1 .. n
  OBVIOUS
<1> HIDE DEF n
<1>3. 0 \in S
  <2>1. i + 0 = i /\ Len(f[i]) \in Nat
    BY <1>1, <1>2, LenProperties
  <2>2. Begins(f[i], f[i])
    BY <2>1 DEF Begins
  <2> QED BY <2>1, <2>2
<1>4. ASSUME NEW m \in Nat, m \in S PROVE m + 1 \in S
  <2> SUFFICES ASSUME i + (m + 1) \in 1 .. n PROVE Begins(f[i], f[i + (m + 1)])
    OBVIOUS
  <2> DEFINE j == i + m
  <2>1. j \in 1 .. n /\ j + 1 \in 1 .. n /\ j + 1 # 1 /\ (j + 1) - 1 = j /\ i + (m + 1) = j + 1
    BY <1>2
  <2>2. Begins(f[i], f[j])
    BY <1>4, <2>1
  <2> HIDE DEF j
  <2>3. f[j + 1] = f[j] \o s[j + 1] /\ f[j] \in Seq(T) /\ s[j + 1] \in Seq(T)
    BY <1>1, <2>1
  <2>4. Appended(f[j], s[j + 1], f[j + 1])
    BY <2>3, Concatenated
  <2>5. Begins(f[i], f[j + 1])
    BY <1>1, <1>2, <2>2, <2>3, <2>4, StillBegins
  <2> QED BY <2>1, <2>5
<1>5. n - i \in Nat /\ i + (n - i) = n /\ n \in 1 .. n
  BY <1>2
<1>6. n - i \in S
  BY <1>3, <1>4, <1>5, CountingUp
<1> QED BY <1>5, <1>6 DEF n

(* Where the sequences lie in the flattened one.                           *)
LEMMA FlattenedEntry ==
  ASSUME NEW T, NEW s \in Seq(Seq(T)), Len(s) \in Nat \ {0}
  PROVE  /\ FlattenSeq(s) \in Seq(T) /\ Len(FlattenSeq(s)) = End(s, Len(s))
         /\ \A i \in 1 .. Len(s) :
              /\ End(s, i - 1) \in Nat /\ End(s, i) \in Nat /\ End(s, i) <= End(s, Len(s))
              /\ End(s, i) = End(s, i - 1) + Len(s[i])
              /\ \A k \in 1 .. Len(s[i]) : FlattenSeq(s)[End(s, i - 1) + k] = s[i][k]
<1> DEFINE f == Parts(s)
<1>1. Joins(f, s, Len(s)) /\ FlattenSeq(s) = f[Len(s)]
  BY FlattenedParts
<1> HIDE DEF f
<1>2. \A i \in 1 .. Len(s) : End(s, i) = Len(f[i])
  BY DEF End, f
<1>3. End(s, 0) = 0
  BY DEF End
<1>a. \A i \in 1 .. Len(s) :
        /\ f[i] \in Seq(T)
        /\ i = 1 => f[i] = s[i]
        /\ i # 1 => f[i] = f[i - 1] \o s[i] /\ f[i - 1] \in Seq(T)
  BY <1>1, PartsGrow
<1>4. \A i \in 1 .. Len(s) : f[i] \in Seq(T) /\ Len(f[i]) \in Nat
  BY <1>a, LenProperties
<1>5. ASSUME NEW i \in 1 .. Len(s)
      PROVE  /\ End(s, i - 1) \in Nat /\ End(s, i) \in Nat /\ End(s, i) <= End(s, Len(s))
             /\ End(s, i) = End(s, i - 1) + Len(s[i])
             /\ \A k \in 1 .. Len(s[i]) : FlattenSeq(s)[End(s, i - 1) + k] = s[i][k]
  <2>0. s[i] \in Seq(T) /\ Len(s[i]) \in Nat
    BY LenProperties, ElementOfSeq
  <2>1. /\ End(s, i - 1) \in Nat /\ Len(f[i]) = End(s, i - 1) + Len(s[i])
        /\ \A k \in 1 .. Len(s[i]) : f[i][End(s, i - 1) + k] = s[i][k]
    <3>1. CASE i = 1
      <4>1. f[i] = s[i]
        BY <1>a, <3>1
      <4>2. End(s, i - 1) = 0
        BY <1>3, <3>1
      <4> QED BY <2>0, <4>1, <4>2
    <3>2. CASE i # 1
      <4>1. f[i] = f[i - 1] \o s[i] /\ f[i - 1] \in Seq(T)
        BY <1>a, <3>2
      <4>2. End(s, i - 1) = Len(f[i - 1])
        BY <1>2, <3>2
      <4>3. Len(f[i - 1]) \in Nat
        BY <4>1, LenProperties
      <4>4. Appended(f[i - 1], s[i], f[i])
        BY <2>0, <4>1, Concatenated
      <4> QED BY <4>2, <4>3, <4>4 DEF Appended
    <3> QED BY <3>1, <3>2
  <2>2. Len(s) \in 1 .. Len(s) /\ Begins(f[i], f[Len(s)])
    BY <1>1, PartsArePrefixes
  <2>3. ASSUME NEW k \in 1 .. Len(s[i])
        PROVE  FlattenSeq(s)[End(s, i - 1) + k] = s[i][k]
    <3>1. End(s, i - 1) + k \in 1 .. Len(f[i])
      BY <2>0, <2>1
    <3> QED BY <1>1, <2>1, <2>2, <3>1 DEF Begins
  <2> QED BY <1>2, <1>4, <2>1, <2>2, <2>3 DEF Begins
<1>6. FlattenSeq(s) \in Seq(T) /\ Len(FlattenSeq(s)) = End(s, Len(s))
  <2>1. Len(s) \in 1 .. Len(s)
    OBVIOUS
  <2> QED BY <1>1, <1>2, <1>4, <2>1
<1> QED BY <1>5, <1>6
=============================================================================
