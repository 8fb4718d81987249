---------------------------- MODULE SequenceFacts ----------------------------
(***************************************************************************)
(* What the proofs need of numbers and sequences: that a set of numbers    *)
(* has a least one, which their inductions are made of, and what           *)
(* FlattenSeq() and a sequence's elements are as one is appended.          *)
(***************************************************************************)
EXTENDS SequencesExt, NaturalsInduction, WellFoundedInduction, TLAPS

\* A set of numbers has a least one: what inductions are made of below.
LEMMA Least ==
    ASSUME NEW S \in SUBSET Nat, S # {}
    PROVE  \E x \in S : \A y \in S : x <= y
  <1>1. IsWellFoundedOn(OpToRel(<, Nat), Nat)
    BY NatLessThanWellFounded
  <1>2. PICK x \in S : \A y \in S : ~ (<<y, x>> \in OpToRel(<, Nat))
    BY <1>1, WFMin
  <1>3. \A y \in S : <<y, x>> \in OpToRel(<, Nat)
                       <=> <<y, x>> \in {ss \in Nat \X Nat : ss[1] < ss[2]}
    BY Zenon DEF OpToRel
  <1>4. \A y \in S : ~(<<y, x>> \in {ss \in Nat \X Nat : ss[1] < ss[2]})
    BY <1>2, <1>3, Zenon
  <1>5. ASSUME NEW y \in S PROVE x <= y
    <2>1. y \in Nat /\ x \in Nat
      OBVIOUS
    <2>2. ~(y < x)
      BY <1>4, <2>1
    <2>3. QED
      BY <2>1, <2>2
  <1>6. QED
    BY <1>5

\* Min() gives one of the set, and of two the lesser.
LEMMA MinIsIn == ASSUME NEW S \in SUBSET Nat, S # {} PROVE Min(S) \in S
  BY Least, Zenon DEF Min

\* Of two numbers it gives a number that is no more than either.
LEMMA LesserOf ==
    ASSUME NEW a \in Nat, NEW b \in Nat
    PROVE  Min({a, b}) \in Nat /\ Min({a, b}) <= a /\ Min({a, b}) <= b
  <1>1. {a, b} \in SUBSET Nat /\ {a, b} # {}
    OBVIOUS
  <1>2. \E x \in {a, b} : \A y \in {a, b} : x <= y
    BY <1>1, Least
  <1>3. Min({a, b}) \in {a, b} /\ \A y \in {a, b} : Min({a, b}) <= y
    BY <1>2, Zenon DEF Min
  <1>4. QED
    BY <1>3

-----------------------------------------------------------------------------

\* One after another.
LEMMA Pair == ASSUME NEW S, NEW a \in S, NEW b \in S PROVE <<a>> \o <<b>> = <<a, b>>
  <1> DEFINE c == <<a>> \o <<b>>
  <1>1. <<a>> \in Seq(S) /\ <<b>> \in Seq(S)
    OBVIOUS
  <1>2. Len(c) = 2 /\ c[1] = a /\ c[2] = b /\ c \in Seq(S)
    BY <1>1
  <1> HIDE DEF c
  <1>3. c = [i \in 1 .. 2 |-> c[i]]
    BY <1>2
  <1>4. c = [i \in 1 .. 2 |-> IF i = 1 THEN a ELSE b]
    BY <1>2, <1>3
  <1>5. <<a, b>> = [i \in 1 .. 2 |-> IF i = 1 THEN a ELSE b]
    OBVIOUS
  <1>6. QED
    BY <1>4, <1>5 DEF c

\* \o is associative.
Groups(a, b, c) == (a \o b) \o c = a \o (b \o c)

\* It is, of three.
LEMMA Associative ==
    ASSUME NEW S, NEW a \in Seq(S), NEW b \in Seq(S), NEW c \in Seq(S)
    PROVE  Groups(a, b, c)
  BY DEF Groups

\* So is it of four.
Regroups(a, b, c, d) == ((a \o b) \o c) \o d = a \o (b \o (c \o d))

\* It is.
LEMMA AssociativeOfFour ==
    ASSUME NEW S, NEW a \in Seq(S), NEW b \in Seq(S), NEW c \in Seq(S), NEW d \in Seq(S)
    PROVE  Regroups(a, b, c, d)
  <1> DEFINE ab == a \o b
             cd == c \o d
  <1>1. ab \in Seq(S) /\ cd \in Seq(S)
    OBVIOUS
  <1>2. (a \o b) \o cd = a \o (b \o cd)
    <2> HIDE DEF cd
    <2>1. QED
      BY <1>1
  <1>3. (ab \o c) \o d = ab \o (c \o d)
    <2> HIDE DEF ab
    <2>1. QED
      BY <1>1
  <1>4. QED
    BY <1>2, <1>3 DEF Regroups

\* What f gives for each element of s.
Mapped(s, f) == [i \in DOMAIN s |-> f[s[i]]]

\* f gives members of T for those of S.
Gives(f, S, T) == \A x \in S : f[x] \in T

\* As many, of what f gives.
LEMMA MappedType ==
    ASSUME NEW S, NEW T, NEW s \in Seq(S), NEW f, Gives(f, S, T)
    PROVE  Mapped(s, f) \in Seq(T) /\ Len(Mapped(s, f)) = Len(s)
  <1> DEFINE m == Mapped(s, f)
  <1>1. /\ Len(s) \in Nat
        /\ m = [i \in 1 .. Len(s) |-> m[i]]
        /\ \A i \in 1 .. Len(s) : m[i] \in T
    BY DEF Mapped, Gives
  <1> HIDE DEF m
  <1>2. m \in Seq(T) /\ Len(m) = Len(s)
    BY <1>1
  <1>3. QED
    BY <1>2 DEF m

\* One more gives one more.
MapsOneMore(s, x, f) == Mapped(Append(s, x), f) = Append(Mapped(s, f), f[x])

\* It does.
LEMMA MappedAppend ==
    ASSUME NEW S, NEW T, NEW s \in Seq(S), NEW x \in S, NEW f, Gives(f, S, T)
    PROVE  MapsOneMore(s, x, f)
  <1> DEFINE n == Len(s)
             m == Mapped(s, f)
             a == Append(s, x)
             b == Append(m, f[x])
  <1>1. n \in Nat /\ m \in Seq(T) /\ Len(m) = n
    BY MappedType
  <1>2. \A i \in 1 .. n : m[i] = f[s[i]]
    BY DEF Mapped
  <1>3. DOMAIN a = 1 .. (n + 1) /\ a[n + 1] = x /\ \A i \in 1 .. n : a[i] = s[i]
    OBVIOUS
  <1> HIDE DEF m, a, n
  <1>4. /\ b \in Seq(T) /\ Len(b) = n + 1 /\ b[n + 1] = f[x]
        /\ \A i \in 1 .. n : b[i] = m[i]
    BY <1>1 DEF Gives
  <1> HIDE DEF b
  <1>5. b = [i \in 1 .. (n + 1) |-> b[i]]
    BY <1>4
  <1>6. \A i \in 1 .. (n + 1) : b[i] = f[a[i]]
    <2> TAKE i \in 1 .. (n + 1)
    <2>1. CASE i = n + 1
      BY <1>3, <1>4, <2>1
    <2>2. CASE i # n + 1
      <3>1. i \in 1 .. n
        BY <1>1, <2>2
      <3>2. QED
        BY <1>2, <1>3, <1>4, <3>1
    <2>3. QED
      BY <2>1, <2>2
  <1>7. Mapped(a, f) = [i \in 1 .. (n + 1) |-> f[a[i]]]
    BY <1>3 DEF Mapped
  <1>8. QED
    BY <1>5, <1>6, <1>7 DEF a, b, m, MapsOneMore

-----------------------------------------------------------------------------

\* The pieces of s put together up to each of its first n.
Joins(s, n, f) == f = [i \in 1 .. n |-> IF i = 1 THEN s[i] ELSE f[i - 1] \o s[i]]

\* The first n of s are those of t.
SameTo(s, t, n) == \A i \in 1 .. n : s[i] = t[i]

\* They can be.
LEMMA JoinsExist == ASSUME NEW s, NEW n \in Nat PROVE \E f : Joins(s, n, f)
  <1> DEFINE Bad == {m \in Nat : ~\E f : Joins(s, m, f)}
  <1>1. Bad = {}
    <2> SUFFICES ASSUME Bad # {} PROVE FALSE
      OBVIOUS
    <2>1. PICK m \in Bad : \A l \in Bad : m <= l
      <3>1. Bad \in SUBSET Nat
        OBVIOUS
      <3>2. QED
        BY <3>1, Least
    <2>2. m \in Nat /\ ~\E f : Joins(s, m, f)
      BY <2>1
    <2>3. m # 0
      <3>1. Joins(s, 0, [i \in 1 .. 0 |-> s[i]])
        BY DEF Joins
      <3>2. QED
        BY <2>2, <3>1
    <2>4. PICK f : Joins(s, m - 1, f)
      BY <2>1, <2>2, <2>3
    <2> DEFINE last == IF m = 1 THEN s[m] ELSE f[m - 1] \o s[m]
               g == [i \in 1 .. m |-> IF i = m THEN last ELSE f[i]]
    <2>5. f = [i \in 1 .. (m - 1) |-> IF i = 1 THEN s[i] ELSE f[i - 1] \o s[i]]
      BY <2>4 DEF Joins
    <2>6. ASSUME NEW i \in 1 .. m PROVE g[i] = IF i = 1 THEN s[i] ELSE g[i - 1] \o s[i]
      <3>1. CASE i = m
        <4>1. g[i] = last
          BY <3>1
        <4>2. m # 1 => g[m - 1] = f[m - 1]
          BY <2>2, <2>3
        <4>3. QED
          BY <3>1, <4>1, <4>2
      <3>2. CASE i # m
        <4>1. i \in 1 .. (m - 1) /\ g[i] = f[i]
          BY <2>2, <3>2
        <4>2. i # 1 => g[i - 1] = f[i - 1]
          BY <2>2, <3>2
        <4>3. f[i] = IF i = 1 THEN s[i] ELSE f[i - 1] \o s[i]
          BY <2>5, <4>1
        <4> HIDE DEF g
        <4>4. QED
          BY <4>1, <4>2, <4>3
      <3>3. QED
        BY <3>1, <3>2
    <2>7. g = [i \in 1 .. m |-> g[i]]
      OBVIOUS
    <2> HIDE DEF g
    <2>8. Joins(s, m, g)
      BY <2>6, <2>7 DEF Joins
    <2>9. QED
      BY <2>2, <2>8
  <1>2. QED
    BY <1>1

\* In one way.
LEMMA JoinsAgree ==
    ASSUME NEW s, NEW t, NEW n \in Nat, NEW m \in Nat, NEW f, NEW g, Joins(s, n, f), Joins(t, m, g),
           n <= m, SameTo(s, t, n)
    PROVE  SameTo(f, g, n)
  <1> USE DEF SameTo
  <1> DEFINE Bad == {i \in 1 .. n : f[i] # g[i]}
  <1> SUFFICES ASSUME Bad # {} PROVE FALSE
    OBVIOUS
  <1>1. PICK i \in Bad : \A l \in Bad : i <= l
    <2>1. Bad \in SUBSET Nat
      OBVIOUS
    <2>2. QED
      BY <2>1, Least
  <1>2. i \in 1 .. n /\ i \in 1 .. m /\ f[i] # g[i] /\ s[i] = t[i]
    BY <1>1
  <1>3. /\ f[i] = IF i = 1 THEN s[i] ELSE f[i - 1] \o s[i]
        /\ g[i] = IF i = 1 THEN t[i] ELSE g[i - 1] \o t[i]
    <2>1. f = [j \in 1 .. n |-> IF j = 1 THEN s[j] ELSE f[j - 1] \o s[j]]
      BY DEF Joins
    <2>2. g = [j \in 1 .. m |-> IF j = 1 THEN t[j] ELSE g[j - 1] \o t[j]]
      BY DEF Joins
    <2>3. f[i] = IF i = 1 THEN s[i] ELSE f[i - 1] \o s[i]
      BY <1>2, <2>1
    <2>4. g[i] = IF i = 1 THEN t[i] ELSE g[i - 1] \o t[i]
      BY <1>2, <2>2
    <2>5. QED
      BY <2>3, <2>4
  <1>4. i # 1 => i - 1 \in 1 .. n /\ f[i - 1] = g[i - 1]
    BY <1>1, <1>2
  <1>5. QED
    BY <1>2, <1>3, <1>4

\* FlattenSeq() is the last of them.
LEMMA FlattenJoins ==
    ASSUME NEW S, NEW s \in Seq(Seq(S)), s # <<>>
    PROVE  \E f : /\ Joins(s, Len(s), f) /\ FlattenSeq(s) = f[Len(s)]
                  /\ \A i \in 1 .. Len(s) : f[i] \in Seq(S)
  <1> DEFINE n == Len(s)
             F == CHOOSE f : Joins(s, n, f)
  <1>1. n \in Nat /\ n # 0
    OBVIOUS
  <1>2. FlattenSeq(s) = F[n]
    BY <1>1 DEF FlattenSeq, Joins
  <1>3. \E f : Joins(s, n, f)
    BY <1>1, JoinsExist
  <1> HIDE DEF n
  <1>4. Joins(s, n, F)
    BY <1>3, Zenon
  <1> HIDE DEF F
  <1>5. \A i \in 1 .. n : F[i] \in Seq(S)
    <2> DEFINE Bad == {i \in 1 .. n : F[i] \notin Seq(S)}
    <2> SUFFICES ASSUME Bad # {} PROVE FALSE
      OBVIOUS
    <2>1. PICK i \in Bad : \A l \in Bad : i <= l
      <3>1. Bad \in SUBSET Nat
        BY <1>1
      <3>2. QED
        BY <3>1, Least
    <2>2. F[i] = IF i = 1 THEN s[i] ELSE F[i - 1] \o s[i]
      BY <1>4, <2>1 DEF Joins
    <2>3. s[i] \in Seq(S)
      BY <2>1 DEF n
    <2>4. i # 1 => F[i - 1] \in Seq(S)
      BY <1>1, <2>1
    <2>5. CASE i = 1
      BY <2>1, <2>2, <2>3, <2>5
    <2>6. CASE i # 1
      <3>1. F[i - 1] \in Seq(S) /\ F[i] = F[i - 1] \o s[i]
        BY <2>2, <2>4, <2>6
      <3>2. F[i] \in Seq(S)
        BY <2>3, <3>1
      <3>3. QED
        BY <2>1, <3>2
    <2>7. QED
      BY <2>5, <2>6
  <1>6. QED
    BY <1>2, <1>4, <1>5 DEF n

\* Nothing flattened is nothing.
LEMMA FlattenEmpty == FlattenSeq(<<>>) = <<>>
  BY DEF FlattenSeq

\* What is flattened is a sequence.
LEMMA FlattenType == ASSUME NEW S, NEW s \in Seq(Seq(S)) PROVE FlattenSeq(s) \in Seq(S)
  <1>1. CASE s = <<>>
    <2>1. FlattenSeq(s) = <<>>
      BY <1>1, FlattenEmpty
    <2>2. QED
      BY <2>1
  <1>2. CASE s # <<>>
    <2>1. Len(s) \in 1 .. Len(s)
      BY <1>2
    <2>2. QED
      BY <1>2, <2>1, FlattenJoins
  <1>3. QED
    BY <1>1, <1>2

\* One more sequence comes after the others.
LEMMA FlattenAppend ==
    ASSUME NEW S, NEW s \in Seq(Seq(S)), NEW x \in Seq(S)
    PROVE  FlattenSeq(Append(s, x)) = FlattenSeq(s) \o x
  <1> DEFINE t == Append(s, x)
             n == Len(s)
  <1>1. /\ t \in Seq(Seq(S)) /\ t # <<>> /\ Len(t) = n + 1 /\ n \in Nat /\ t[n + 1] = x
        /\ \A i \in 1 .. n : s[i] = t[i]
    <2>1. t \in Seq(Seq(S)) /\ Len(t) = n + 1 /\ n \in Nat /\ t[n + 1] = x
      OBVIOUS
    <2>2. \A i \in 1 .. n : s[i] = t[i]
      OBVIOUS
    <2>3. t # <<>>
      <3> HIDE DEF t
      <3>1. Len(t) # 0 /\ Len(<<>>) = 0
        BY <2>1
      <3>2. QED
        BY <3>1
    <2>4. QED
      BY <2>1, <2>2, <2>3
  <1>2. PICK g : Joins(t, Len(t), g) /\ FlattenSeq(t) = g[Len(t)]
    BY <1>1, FlattenJoins
  <1>3. g[n + 1] = IF n + 1 = 1 THEN t[n + 1] ELSE g[n] \o t[n + 1]
    <2> HIDE DEF t, n
    <2>1. Joins(t, n + 1, g)
      BY <1>1, <1>2
    <2>2. n + 1 \in 1 .. (n + 1) /\ (n + 1) - 1 = n
      BY <1>1
    <2>3. g[n + 1] = IF n + 1 = 1 THEN t[n + 1] ELSE g[(n + 1) - 1] \o t[n + 1]
      BY <2>1, <2>2 DEF Joins
    <2>4. QED
      BY <2>2, <2>3
  <1>4. CASE s = <<>>
    <2>1. FlattenSeq(t) = x /\ FlattenSeq(s) = <<>>
      BY <1>1, <1>2, <1>3, <1>4, FlattenEmpty
    <2>2. QED
      BY <2>1
  <1>5. CASE s # <<>>
    <2>1. PICK f : Joins(s, n, f) /\ FlattenSeq(s) = f[n]
      BY <1>5, FlattenJoins
    <2>2. n \in 1 .. n /\ n + 1 # 1
      BY <1>5
    <2>3. Joins(t, n + 1, g) /\ FlattenSeq(t) = g[n + 1]
      BY <1>1, <1>2
    <2> HIDE DEF t, n
    <2>4. f[n] = g[n]
      <3>1. n + 1 \in Nat /\ n <= n + 1
        BY <1>1
      <3>2. n \in Nat /\ (\A i \in 1 .. n : s[i] = t[i]) /\ Joins(s, n, f) /\ Joins(t, n + 1, g)
        BY <1>1, <2>1, <2>3
      <3> DEFINE m == n + 1
      <3>4. m \in Nat /\ n <= m /\ Joins(t, m, g)
        BY <3>1, <3>2
      <3> HIDE DEF m
      <3>3. SameTo(s, t, n)
        BY <3>2 DEF SameTo
      <3>5. SameTo(f, g, n)
        BY <3>2, <3>3, <3>4, JoinsAgree, Zenon
      <3>6. QED
        BY <2>2, <3>5 DEF SameTo
    <2>5. FlattenSeq(t) = g[n] \o x
      BY <1>1, <1>3, <2>2, <2>3
    <2>6. QED
      BY <2>1, <2>4, <2>5 DEF t
  <1>6. QED
    BY <1>4, <1>5

-----------------------------------------------------------------------------

\* The first n that g gives.
First(g, n) == [i \in 1 .. n |-> g[i]]

\* The first of a function's values are a sequence.
LEMMA FirstType ==
    ASSUME NEW T, NEW n \in Nat, NEW g, \A i \in 1 .. n : g[i] \in T
    PROVE  First(g, n) \in Seq(T) /\ Len(First(g, n)) = n
  <1> DEFINE f == First(g, n)
  <1>1. f = [i \in 1 .. n |-> f[i]] /\ \A i \in 1 .. n : f[i] \in T
    BY DEF First
  <1> HIDE DEF f
  <1>2. QED
    BY <1>1 DEF f

\* One more of them is appended.
LEMMA FirstOneMore ==
    ASSUME NEW T, NEW n \in Nat, NEW g, \A i \in 1 .. (n + 1) : g[i] \in T
    PROVE  First(g, n + 1) = Append(First(g, n), g[n + 1])
  <1> DEFINE f == First(g, n)
             a == Append(f, g[n + 1])
  <1>1. f \in Seq(T) /\ Len(f) = n /\ g[n + 1] \in T
    BY FirstType
  <1>2. \A i \in 1 .. n : f[i] = g[i]
    BY DEF First
  <1> HIDE DEF f
  <1>3. a \in Seq(T) /\ Len(a) = n + 1 /\ a[n + 1] = g[n + 1] /\ \A i \in 1 .. n : a[i] = g[i]
    BY <1>1, <1>2
  <1> HIDE DEF a
  <1>4. a = [i \in 1 .. (n + 1) |-> a[i]]
    BY <1>3
  <1>5. \A i \in 1 .. (n + 1) : a[i] = g[i]
    <2> TAKE i \in 1 .. (n + 1)
    <2>1. i = n + 1 \/ i \in 1 .. n
      OBVIOUS
    <2>2. QED
      BY <1>3, <2>1
  <1>6. a = First(g, n + 1)
    BY <1>4, <1>5 DEF First
  <1>7. QED
    BY <1>6 DEF a, f

-----------------------------------------------------------------------------
(* Prefixes.                                                               *)

\* t starts with s, one by one.
Starts(s, t) == Len(s) <= Len(t) /\ SameTo(s, t, Len(s))

\* It is what IsPrefix() says.
LEMMA StartsIsPrefix ==
    ASSUME NEW S, NEW s \in Seq(S), NEW t \in Seq(S)
    PROVE  IsPrefix(s, t) <=> Starts(s, t)
  <1> DEFINE n == Len(s)
             a == SubSeq(s, 1, n)
             b == SubSeq(t, 1, n)
  <1>1. n \in Nat /\ Len(t) \in Nat
    OBVIOUS
  <1>2. CASE n <= Len(t)
    <2>1. a \in Seq(S) /\ Len(a) = n /\ \A i \in 1 .. n : a[i] = s[i]
      BY <1>1
    <2>2. b \in Seq(S) /\ Len(b) = n /\ \A i \in 1 .. n : b[i] = t[i]
      BY <1>1, <1>2
    <2> HIDE DEF a, b
    <2>3. a = [i \in 1 .. n |-> a[i]] /\ b = [i \in 1 .. n |-> b[i]]
      BY <2>1, <2>2
    <2>4. a = b <=> \A i \in 1 .. n : s[i] = t[i]
      <3>1. ASSUME a = b PROVE \A i \in 1 .. n : s[i] = t[i]
        BY <2>1, <2>2, <3>1
      <3>2. ASSUME \A i \in 1 .. n : s[i] = t[i] PROVE a = b
        <4>1. \A i \in 1 .. n : a[i] = b[i]
          BY <2>1, <2>2, <3>2
        <4>2. QED
          BY <2>3, <4>1
      <3>3. QED
        BY <3>1, <3>2
    <2>5. QED
      BY <1>2, <2>4 DEF IsPrefix, Starts, SameTo, a, b
  <1>3. CASE ~(n <= Len(t))
    BY <1>3 DEF IsPrefix, Starts
  <1>4. QED
    BY <1>2, <1>3

\* A sequence starts with itself.
LEMMA StartsItself == ASSUME NEW S, NEW s \in Seq(S) PROVE Starts(s, s)
  BY DEF Starts, SameTo

\* And with nothing.
LEMMA StartsNothing == ASSUME NEW S, NEW s \in Seq(S) PROVE Starts(<<>>, s)
  BY DEF Starts, SameTo

\* The start of a start is one.
LEMMA StartsThrough ==
    ASSUME NEW S, NEW s \in Seq(S), NEW t \in Seq(S), NEW u \in Seq(S),
           Starts(s, t), Starts(t, u)
    PROVE  Starts(s, u)
  BY DEF Starts, SameTo

\* What comes after doesn't matter, and what comes before neither.
LEMMA StartsJoined ==
    ASSUME NEW S, NEW s \in Seq(S), NEW t \in Seq(S)
    PROVE  Starts(s, s \o t)
  BY DEF Starts, SameTo

\* Put after the same, one is still the start of the other.
LEMMA StartsAfter ==
    ASSUME NEW S, NEW a \in Seq(S), NEW s \in Seq(S), NEW t \in Seq(S), Starts(s, t)
    PROVE  Starts(a \o s, a \o t)
  <1> DEFINE b == a \o s
             c == a \o t
  <1>1. /\ Len(b) = Len(a) + Len(s) /\ Len(c) = Len(a) + Len(t)
        /\ Len(a) \in Nat /\ Len(s) \in Nat /\ Len(t) \in Nat /\ Len(s) <= Len(t)
    BY DEF Starts
  <1>2. ASSUME NEW i \in 1 .. Len(b) PROVE b[i] = c[i]
    <2>1. CASE i <= Len(a)
      BY <1>1, <2>1
    <2>2. CASE ~(i <= Len(a))
      <3>1. i - Len(a) \in 1 .. Len(s) /\ b[i] = s[i - Len(a)] /\ c[i] = t[i - Len(a)]
        BY <1>1, <2>2
      <3>2. s[i - Len(a)] = t[i - Len(a)]
        BY <3>1 DEF Starts, SameTo
      <3>3. QED
        BY <3>1, <3>2
    <2>3. QED
      BY <2>1, <2>2
  <1>3. QED
    BY <1>1, <1>2 DEF Starts, SameTo

\* The first n of a sequence.
LEMMA FirstPartType ==
    ASSUME NEW S, NEW s \in Seq(S), NEW n \in 0 .. Len(s)
    PROVE  /\ SubSeq(s, 1, n) \in Seq(S) /\ Len(SubSeq(s, 1, n)) = n
           /\ \A i \in 1 .. n : SubSeq(s, 1, n)[i] = s[i]
  OBVIOUS

\* They are its start.
LEMMA StartsPart ==
    ASSUME NEW S, NEW s \in Seq(S), NEW n \in 0 .. Len(s)
    PROVE  Starts(SubSeq(s, 1, n), s)
  BY DEF Starts, SameTo

\* Two parts of a sequence, one after the other.
MadeOfParts(s, m, n) == SubSeq(s, 1, m) \o SubSeq(s, m + 1, n) = SubSeq(s, 1, n)

\* A sequence cut in two is made of both.
LEMMA PartsJoined ==
    ASSUME NEW S, NEW s \in Seq(S), NEW m \in Nat, NEW n \in Nat, m <= n, n <= Len(s)
    PROVE  MadeOfParts(s, m, n)
  <1> DEFINE old == SubSeq(s, 1, m)
             new == SubSeq(s, m + 1, n)
             all == SubSeq(s, 1, n)
             both == old \o new
  <1>1. /\ old \in Seq(S) /\ Len(old) = m /\ \A i \in 1 .. m : old[i] = s[i]
        /\ new \in Seq(S) /\ Len(new) = n - m /\ \A i \in 1 .. (n - m) : new[i] = s[m + i]
        /\ all \in Seq(S) /\ Len(all) = n /\ \A i \in 1 .. n : all[i] = s[i]
    OBVIOUS
  <1> HIDE DEF old, new, all
  <1>2. both \in Seq(S) /\ Len(both) = Len(old) + Len(new)
    BY <1>1
  <1>3. ASSUME NEW i \in 1 .. m PROVE both[i] = s[i]
    <2>1. i \in 1 .. (Len(old) + Len(new)) /\ i <= Len(old)
      BY <1>1
    <2>2. QED
      BY <1>1, <2>1
  <1>4. ASSUME NEW i \in 1 .. (n - m) PROVE both[m + i] = s[m + i]
    <2>1. m + i \in 1 .. (Len(old) + Len(new)) /\ m + i > Len(old) /\ (m + i) - Len(old) = i
      BY <1>1
    <2>2. QED
      BY <1>1, <2>1
  <1> HIDE DEF both
  <1>5. \A i \in 1 .. n : both[i] = all[i]
    <2> TAKE i \in 1 .. n
    <2>1. CASE i <= m
      BY <1>1, <1>3, <2>1
    <2>2. CASE ~(i <= m)
      <3>1. i - m \in 1 .. (n - m) /\ m + (i - m) = i
        BY <2>2
      <3>2. QED
        BY <1>1, <1>4, <3>1, ZenonT(30)
    <2>3. QED
      BY <2>1, <2>2
  <1>6. Len(both) = n
    BY <1>1, <1>2
  <1>7. both = [i \in 1 .. n |-> both[i]] /\ all = [i \in 1 .. n |-> all[i]]
    BY <1>1, <1>2, <1>6
  <1>8. both = all
    BY <1>5, <1>7
  <1>9. QED
    BY <1>8 DEF both, old, new, all, MadeOfParts

-----------------------------------------------------------------------------
(* The first n of the sequences that g gives, flattened.                   *)

Flat(g, n) == FlattenSeq(First(g, n))

\* The first pieces joined are a sequence.
LEMMA FlatType ==
    ASSUME NEW S, NEW n \in Nat, NEW g, \A i \in 1 .. n : g[i] \in Seq(S)
    PROVE  Flat(g, n) \in Seq(S)
  <1>1. First(g, n) \in Seq(Seq(S))
    BY FirstType
  <1>2. QED
    BY <1>1, FlattenType DEF Flat

\* No pieces joined are nothing.
LEMMA FlatNothing == ASSUME NEW g PROVE Flat(g, 0) = <<>>
  <1>1. First(g, 0) = <<>>
    BY DEF First
  <1>2. QED
    BY <1>1, FlattenEmpty DEF Flat

\* One more of them comes after.
LEMMA FlatNext ==
    ASSUME NEW S, NEW n \in Nat, NEW g, \A i \in 1 .. (n + 1) : g[i] \in Seq(S)
    PROVE  Flat(g, n + 1) = Flat(g, n) \o g[n + 1]
  <1>1. First(g, n + 1) = Append(First(g, n), g[n + 1])
    BY FirstOneMore
  <1>2. First(g, n) \in Seq(Seq(S)) /\ g[n + 1] \in Seq(S)
    BY FirstType
  <1>3. FlattenSeq(Append(First(g, n), g[n + 1])) = FlattenSeq(First(g, n)) \o g[n + 1]
    BY <1>2, FlattenAppend
  <1>4. QED
    BY <1>1, <1>3 DEF Flat

\* All of them start with the first of them.
LEMMA FlatStarts ==
    ASSUME NEW S, NEW n \in Nat, NEW g, \A i \in 1 .. n : g[i] \in Seq(S),
           NEW m \in Nat, m <= n
    PROVE  Starts(Flat(g, m), Flat(g, n))
  <1> DEFINE Bad == {i \in Nat : i <= n /\ ~Starts(Flat(g, n - i), Flat(g, n))}
  <1>1. ASSUME NEW i \in Nat, i <= n PROVE Flat(g, i) \in Seq(S)
    <2>1. \A j \in 1 .. i : g[j] \in Seq(S)
      BY <1>1
    <2>2. QED
      BY <2>1, FlatType
  <1>2. Bad = {}
    <2> SUFFICES ASSUME Bad # {} PROVE FALSE
      OBVIOUS
    <2>1. PICK i \in Bad : \A l \in Bad : i <= l
      <3>1. Bad \in SUBSET Nat
        OBVIOUS
      <3>2. QED
        BY <3>1, Least
    <2>2. i \in Nat /\ i <= n /\ ~Starts(Flat(g, n - i), Flat(g, n))
      BY <2>1
    <2>3. Flat(g, n) \in Seq(S)
      BY <1>1
    <2>4. i # 0
      <3>1. Starts(Flat(g, n), Flat(g, n)) /\ n - 0 = n
        BY <2>3, StartsItself
      <3>2. QED
        BY <2>2, <3>1
    <2> DEFINE k == n - i
    <2>5. /\ k \in Nat /\ k <= n /\ k + 1 \in 1 .. n /\ k + 1 = n - (i - 1)
          /\ k + 1 \in Nat /\ k + 1 <= n
      BY <2>2, <2>4
    <2>6. Starts(Flat(g, n - (i - 1)), Flat(g, n))
      <3>1. i - 1 \in Nat /\ i - 1 <= n /\ ~(i <= i - 1)
        BY <2>2, <2>4
      <3>2. i - 1 \notin Bad
        BY <2>1, <3>1, Zenon
      <3>3. QED
        BY <3>1, <3>2
    <2> HIDE DEF k, Bad
    <2>7. Flat(g, k + 1) = Flat(g, k) \o g[k + 1]
      <3>1. \A j \in 1 .. (k + 1) : g[j] \in Seq(S)
        BY <2>5
      <3>2. QED
        BY <2>5, <3>1, FlatNext
    <2> DEFINE x == Flat(g, k)
               y == Flat(g, k + 1)
               z == Flat(g, n)
               w == g[k + 1]
    <2>8. /\ x \in Seq(S) /\ y \in Seq(S) /\ z \in Seq(S) /\ w \in Seq(S) /\ y = x \o w
          /\ Starts(y, z)
      BY <1>1, <2>3, <2>5, <2>6, <2>7
    <2>9. ~Starts(x, z)
      BY <2>2 DEF k
    <2> HIDE DEF x, y, z, w
    <2>10. Starts(x, y)
      BY <2>8, StartsJoined
    <2>11. QED
      BY <2>8, <2>9, <2>10, StartsThrough
  <1>3. n - m \in Nat /\ n - m <= n /\ n - (n - m) = m
    OBVIOUS
  <1>4. QED
    BY <1>2, <1>3

-----------------------------------------------------------------------------
(* What is left of a sequence.                                             *)

Rest(s, n) == SubSeq(s, n + 1, Len(s))

\* What is left after n.
LEMMA RestType ==
    ASSUME NEW S, NEW s \in Seq(S), NEW n \in Nat, n <= Len(s)
    PROVE  /\ Rest(s, n) \in Seq(S) /\ Len(Rest(s, n)) = Len(s) - n
           /\ \A i \in 1 .. (Len(s) - n) : Rest(s, n)[i] = s[n + i]
  BY DEF Rest

\* The same of two sequences that are the same from there on.
LEMMA SameElements ==
    ASSUME NEW S, NEW s \in Seq(S), NEW t \in Seq(S), Len(s) = Len(t), SameTo(s, t, Len(s))
    PROVE  s = t
  <1>1. s = [i \in 1 .. Len(s) |-> s[i]] /\ t = [i \in 1 .. Len(t) |-> t[i]]
    OBVIOUS
  <1>2. QED
    BY <1>1 DEF SameTo

\* Rest some and then some more.
AddsUp(s, m, n) == Rest(Rest(s, m), n) = Rest(s, m + n)

\* That is as much as at once.
LEMMA RestTwice ==
    ASSUME NEW S, NEW s \in Seq(S), NEW m \in Nat, NEW n \in Nat, m + n <= Len(s)
    PROVE  AddsUp(s, m, n)
  <1> DEFINE a == Rest(s, m)
             b == Rest(a, n)
             c == Rest(s, m + n)
  <1>1. a \in Seq(S) /\ Len(a) = Len(s) - m /\ \A i \in 1 .. (Len(s) - m) : a[i] = s[m + i]
    BY RestType, SMTT(30)
  <1> HIDE DEF a
  <1>2. b \in Seq(S) /\ Len(b) = Len(a) - n /\ \A i \in 1 .. (Len(a) - n) : b[i] = a[n + i]
    <2>1. n <= Len(a)
      BY <1>1
    <2>2. a \in Seq(S)
      BY <1>1
    <2>3. QED
      BY <2>1, <2>2, RestType, Zenon
  <1>3. /\ c \in Seq(S) /\ Len(c) = Len(s) - (m + n)
        /\ \A i \in 1 .. (Len(s) - (m + n)) : c[i] = s[(m + n) + i]
    BY RestType
  <1> HIDE DEF b, c
  <1>4. Len(b) = Len(c)
    BY <1>1, <1>2, <1>3
  <1>5. ASSUME NEW i \in 1 .. Len(b) PROVE b[i] = c[i]
    <2>1. /\ i \in 1 .. (Len(a) - n) /\ n + i \in 1 .. (Len(s) - m)
          /\ i \in 1 .. (Len(s) - (m + n)) /\ m + (n + i) = (m + n) + i
      BY <1>1, <1>2
    <2>2. QED
      BY <1>1, <1>2, <1>3, <2>1
  <1>6. b = c
    BY <1>2, <1>3, <1>4, <1>5, SameElements DEF SameTo
  <1>7. QED
    BY <1>6 DEF AddsUp, a, b, c

\* What is left of the first of two.
LeavesBoth(s, t, n) == Rest(s \o t, n) = Rest(s, n) \o t

\* What is put after s stays after what is left of it.
LEMMA RestJoined ==
    ASSUME NEW S, NEW s \in Seq(S), NEW t \in Seq(S), NEW n \in Nat, n <= Len(s)
    PROVE  LeavesBoth(s, t, n)
  <1> DEFINE u == s \o t
             a == Rest(u, n)
             b == Rest(s, n)
             c == b \o t
  <1>1. /\ u \in Seq(S) /\ Len(u) = Len(s) + Len(t) /\ Len(s) \in Nat /\ Len(t) \in Nat
        /\ \A i \in 1 .. Len(u) : u[i] = IF i <= Len(s) THEN s[i] ELSE t[i - Len(s)]
    OBVIOUS
  <1>2. b \in Seq(S) /\ Len(b) = Len(s) - n /\ \A i \in 1 .. (Len(s) - n) : b[i] = s[n + i]
    BY RestType
  <1> HIDE DEF u, b
  <1>3. a \in Seq(S) /\ Len(a) = Len(u) - n /\ \A i \in 1 .. (Len(u) - n) : a[i] = u[n + i]
    <2>1. n <= Len(u)
      BY <1>1
    <2>2. QED
      BY <1>1, <2>1, RestType
  <1>4. c \in Seq(S) /\ Len(c) = Len(b) + Len(t)
    <2>1. b \in Seq(S)
      BY <1>2
    <2>2. QED
      BY <2>1
  <1>5. \A i \in 1 .. Len(c) : c[i] = IF i <= Len(b) THEN b[i] ELSE t[i - Len(b)]
    BY <1>2, <1>4
  <1> HIDE DEF a, c
  <1>6. Len(a) = Len(c)
    BY <1>1, <1>2, <1>3, <1>4
  <1>7. ASSUME NEW i \in 1 .. Len(a) PROVE a[i] = c[i]
    <2>1. n + i \in 1 .. Len(u) /\ i \in 1 .. Len(c) /\ i \in 1 .. (Len(u) - n)
      BY <1>1, <1>3, <1>6
    <2>2. CASE i <= Len(b)
      <3>1. n + i <= Len(s) /\ i \in 1 .. (Len(s) - n)
        BY <1>1, <1>2, <2>2
      <3>2. QED
        BY <1>1, <1>2, <1>3, <1>5, <2>1, <2>2, <3>1
    <2>3. CASE ~(i <= Len(b))
      <3>1. ~(n + i <= Len(s)) /\ (n + i) - Len(s) = i - Len(b)
        BY <1>1, <1>2, <2>3
      <3>2. QED
        BY <1>1, <1>3, <1>5, <2>1, <2>3, <3>1
    <2>4. QED
      BY <2>2, <2>3
  <1>8. a = c
    BY <1>3, <1>4, <1>6, <1>7, SameElements DEF SameTo
  <1>9. QED
    BY <1>8 DEF LeavesBoth, a, b, c, u

\* Some of t goes over to s.
GoesOver(s, t, n) == (s \o SubSeq(t, 1, n)) \o Rest(t, n) = s \o t

\* Some of t goes over to s, and both are together what they were.
LEMMA PartGoesOver ==
    ASSUME NEW S, NEW s \in Seq(S), NEW t \in Seq(S), NEW n \in Nat, n <= Len(t)
    PROVE  GoesOver(s, t, n)
  <1> DEFINE part == SubSeq(t, 1, n)
             rest == SubSeq(t, n + 1, Len(t))
  <1>1. part \in Seq(S) /\ rest \in Seq(S)
    OBVIOUS
  <1>2. part \o rest = t
    <2>1. MadeOfParts(t, n, Len(t))
      BY PartsJoined
    <2>2. SubSeq(t, 1, Len(t)) = t
      OBVIOUS
    <2>3. QED
      BY <2>1, <2>2, Zenon DEF MadeOfParts
  <1> HIDE DEF part, rest
  <1>3. Groups(s, part, rest)
    BY <1>1, Associative
  <1>4. (s \o part) \o rest = s \o t
    BY <1>2, <1>3, Zenon DEF Groups
  <1>5. QED
    BY <1>4, Zenon DEF GoesOver, Rest, part, rest

\* One appended is a sequence of one joined on.
LEMMA AppendIs ==
    ASSUME NEW S, NEW s \in Seq(S), NEW x \in S
    PROVE  Append(s, x) = s \o <<x>>
  OBVIOUS

\* One more of what is joined on is one more of the whole.
LEMMA OneMoreJoined ==
    ASSUME NEW S, NEW a \in Seq(S), NEW s \in Seq(S), NEW i \in 1 .. Len(s)
    PROVE  Append(a \o SubSeq(s, 1, i - 1), s[i]) = a \o SubSeq(s, 1, i)
  <1> DEFINE b == SubSeq(s, 1, i - 1)
             c == SubSeq(s, 1, i)
             d == a \o b
             e == Append(d, s[i])
             f == a \o c
             n == Len(a)
  <1>1. n \in Nat /\ s[i] \in S
    OBVIOUS
  <1>2. b \in Seq(S) /\ Len(b) = i - 1 /\ \A j \in 1 .. i - 1 : b[j] = s[j]
    OBVIOUS
  <1>3. c \in Seq(S) /\ Len(c) = i /\ \A j \in 1 .. i : c[j] = s[j]
    OBVIOUS
  <1> HIDE DEF b, c
  <1>4. /\ d \in Seq(S) /\ Len(d) = n + (i - 1)
        /\ \A j \in 1 .. n : d[j] = a[j]
        /\ \A j \in n + 1 .. n + (i - 1) : d[j] = b[j - n]
    BY <1>2, SMTT(30)
  <1>5. /\ f \in Seq(S) /\ Len(f) = n + i
        /\ \A j \in 1 .. n : f[j] = a[j]
        /\ \A j \in n + 1 .. n + i : f[j] = c[j - n]
    BY <1>3
  <1> HIDE DEF d, f
  <1>6. /\ e \in Seq(S) /\ Len(e) = n + i /\ e[n + i] = s[i]
        /\ \A j \in 1 .. n + (i - 1) : e[j] = d[j]
    BY <1>1, <1>4
  <1> HIDE DEF e
  <1> HIDE DEF n
  <1>7. \A j \in 1 .. n + i : e[j] = f[j]
    <2> TAKE j \in 1 .. n + i
    <2>1. CASE j = n + i
      <3>1. j \in n + 1 .. n + i /\ j - n = i
        BY <1>1, <2>1
      <3>2. QED
        BY <1>3, <1>5, <1>6, <2>1, <3>1
    <2>2. CASE j # n + i /\ j <= n
      <3>1. j \in 1 .. n /\ j \in 1 .. n + (i - 1)
        BY <1>1, <2>2
      <3>2. QED
        BY <1>4, <1>5, <1>6, <3>1
    <2>3. CASE j # n + i /\ j > n
      <3>1. /\ j \in n + 1 .. n + (i - 1) /\ j \in n + 1 .. n + i /\ j \in 1 .. n + (i - 1)
            /\ j - n \in 1 .. i - 1 /\ j - n \in 1 .. i
        BY <1>1, <2>3
      <3>2. e[j] = b[j - n] /\ f[j] = c[j - n]
        BY <1>4, <1>5, <1>6, <3>1
      <3>3. QED
        BY <1>2, <1>3, <3>1, <3>2
    <2>4. QED
      BY <1>1, <2>1, <2>2, <2>3
  <1>8. e = f
    BY <1>5, <1>6, <1>7, SameElements, Zenon DEF SameTo
  <1>9. QED
    BY <1>8 DEF e, d, f, b, c

\* None of the set is less than it.
LEMMA MinIsLeast == ASSUME NEW S \in SUBSET Nat, NEW x \in S PROVE Min(S) <= x
  <1>1. \E y \in S : \A z \in S : y <= z
    BY Least
  <1>2. Min(S) \in S /\ \A z \in S : Min(S) <= z
    BY <1>1, Zenon DEF Min
  <1>3. QED
    BY <1>2

-----------------------------------------------------------------------------
(* Cutting a sequence.                                                     *)

\* Cut after n, it is made of both parts.
CutAt(s, n) == SubSeq(s, 1, n) \o Rest(s, n) = s

\* It is.
LEMMA CutInTwo ==
    ASSUME NEW S, NEW s \in Seq(S), NEW n \in Nat, n <= Len(s)
    PROVE  CutAt(s, n)
  <1>1. MadeOfParts(s, n, Len(s))
    BY PartsJoined
  <1>2. SubSeq(s, 1, Len(s)) = s
    OBVIOUS
  <1>3. QED
    BY <1>1, <1>2, Zenon DEF MadeOfParts, CutAt, Rest

\* Two joined are as long as both.
LEMMA JoinedType ==
    ASSUME NEW S, NEW s \in Seq(S), NEW t \in Seq(S)
    PROVE  /\ s \o t \in Seq(S) /\ Len(s \o t) = Len(s) + Len(t)
           /\ \A i \in 1 .. Len(s) : (s \o t)[i] = s[i]
  OBVIOUS

\* What is left after the first of two is the second.
LEMMA RestOfJoined ==
    ASSUME NEW S, NEW s \in Seq(S), NEW t \in Seq(S)
    PROVE  Rest(s \o t, Len(s)) = t
  <1>1. LeavesBoth(s, t, Len(s))
    BY RestJoined
  <1>2. Rest(s, Len(s)) = <<>>
    BY DEF Rest
  <1>3. <<>> \o t = t
    OBVIOUS
  <1>4. QED
    BY <1>1, <1>2, <1>3, Zenon DEF LeavesBoth

\* Two that are the same with the same first part have the same second part.
LEMMA SameSecond ==
    ASSUME NEW S, NEW s \in Seq(S), NEW t \in Seq(S), NEW u \in Seq(S), s \o t = s \o u
    PROVE  t = u
  BY RestOfJoined, Zenon

\* One cut in two ways: what is in the longer first part and not in the shorter starts the
\* second part of the other.
CutsTwice(a, b, c, d) ==
    a \o b = c \o d /\ Len(a) <= Len(c) =>
        c = a \o Rest(c, Len(a)) /\ b = Rest(c, Len(a)) \o d

\* It does.
LEMMA CutTwice ==
    ASSUME NEW S, NEW a \in Seq(S), NEW b \in Seq(S), NEW c \in Seq(S), NEW d \in Seq(S)
    PROVE  CutsTwice(a, b, c, d)
  <1> SUFFICES ASSUME a \o b = c \o d, Len(a) <= Len(c)
               PROVE  c = a \o Rest(c, Len(a)) /\ b = Rest(c, Len(a)) \o d
    BY DEF CutsTwice
  <1> DEFINE n == Len(a)
             x == a \o b
             y == c \o d
             p == SubSeq(c, 1, n)
  <1>1. n \in Nat /\ n <= Len(c) /\ Len(c) \in Nat
    OBVIOUS
  <1>2. LeavesBoth(c, d, n)
    BY <1>1, RestJoined
  <1>3. Rest(x, n) = b
    BY RestOfJoined
  <1>4. b = Rest(c, n) \o d
    BY <1>2, <1>3, Zenon DEF LeavesBoth
  <1>5. p \in Seq(S) /\ Len(p) = n /\ \A i \in 1 .. n : p[i] = c[i]
    BY <1>1
  <1>6. \A i \in 1 .. n : x[i] = a[i] /\ y[i] = c[i]
    BY <1>1
  <1>7. x = y
    OBVIOUS
  <1> HIDE DEF x, y, p
  <1>8. SameTo(p, a, n)
    BY <1>5, <1>6, <1>7, Zenon DEF SameTo
  <1>9. p = a
    BY <1>5, <1>8, SameElements
  <1>10. CutAt(c, n)
    BY <1>1, CutInTwo
  <1>11. QED
    BY <1>4, <1>9, <1>10, Zenon DEF CutAt, p

-----------------------------------------------------------------------------
(* What is left of a sequence after the first n of the pieces it is of.    *)

From(w, g, n) == Rest(w, Len(Flat(g, n)))

\* After m of n pieces it starts with the next, and after all of them it is t.
LeftAfter(S, w, g, n, t, m) ==
    /\ From(w, g, m) \in Seq(S)
    /\ m = 0 => From(w, g, m) = w
    /\ m = n => From(w, g, m) = t
    /\ m < n => From(w, g, m) = g[m + 1] \o From(w, g, m + 1)

\* It does.
LEMMA PiecesLeft ==
    ASSUME NEW S, NEW n \in Nat, NEW g, \A i \in 1 .. n : g[i] \in Seq(S),
           NEW w \in Seq(S), NEW t \in Seq(S), w = Flat(g, n) \o t, NEW m \in Nat, m <= n
    PROVE  LeftAfter(S, w, g, n, t, m)
  <1>1. ASSUME NEW i \in Nat, i <= n
        PROVE  /\ Flat(g, i) \in Seq(S) /\ From(w, g, i) \in Seq(S)
               /\ w = Flat(g, i) \o From(w, g, i)
    <2> DEFINE f == Flat(g, i)
               all == Flat(g, n)
    <2>1. f \in Seq(S)
      <3>1. \A j \in 1 .. i : g[j] \in Seq(S)
        BY <1>1
      <3>2. QED
        BY <3>1, FlatType
    <2>2. all \in Seq(S)
      BY FlatType
    <2>3. Starts(f, all)
      BY <1>1, FlatStarts
    <2>4. w = all \o t
      OBVIOUS
    <2> HIDE DEF f, all
    <2>5. Starts(all, all \o t)
      BY <2>2, StartsJoined
    <2>6. Starts(all, w)
      BY <2>4, <2>5, Zenon
    <2>7. Starts(f, w)
      BY <2>1, <2>2, <2>3, <2>6, StartsThrough
    <2> DEFINE k == Len(f)
               p == SubSeq(w, 1, k)
    <2>8. k \in Nat /\ k <= Len(w)
      BY <2>1, <2>7 DEF Starts
    <2>9. p \in Seq(S) /\ Len(p) = k /\ \A j \in 1 .. k : p[j] = w[j]
      BY <2>8
    <2>10. \A j \in 1 .. k : f[j] = w[j]
      BY <2>7 DEF Starts, SameTo
    <2> HIDE DEF p
    <2>11. SameTo(p, f, k)
      BY <2>9, <2>10 DEF SameTo
    <2>12. p = f
      BY <2>1, <2>9, <2>11, SameElements
    <2>13. CutAt(w, k) /\ Rest(w, k) \in Seq(S)
      BY <2>8, CutInTwo, RestType
    <2>14. QED
      BY <2>1, <2>12, <2>13, Zenon DEF CutAt, From, p, f
  <1>2. ASSUME m = 0 PROVE From(w, g, m) = w
    <2>1. Flat(g, 0) = <<>> /\ Len(<<>>) = 0
      BY FlatNothing
    <2>2. Rest(w, 0) = w
      BY DEF Rest
    <2>3. From(w, g, 0) = w
      BY <2>1, <2>2, Zenon DEF From
    <2>4. QED
      BY <1>2, <2>3
  <1>3. ASSUME m = n PROVE From(w, g, m) = t
    <2>1. w = Flat(g, n) \o From(w, g, n) /\ From(w, g, n) \in Seq(S) /\ Flat(g, n) \in Seq(S)
      <3>1. n <= n
        OBVIOUS
      <3>2. QED
        BY <1>1, <3>1, Zenon
    <2>2. From(w, g, n) = t
      BY <2>1, SameSecond, Zenon
    <2>3. QED
      BY <1>3, <2>2
  <1>4. ASSUME m < n PROVE From(w, g, m) = g[m + 1] \o From(w, g, m + 1)
    <2> DEFINE a == Flat(g, m)
               x == g[m + 1]
               b == Flat(g, m + 1)
               u == From(w, g, m)
               v == From(w, g, m + 1)
    <2>1. m + 1 \in Nat /\ m + 1 <= n /\ m + 1 \in 1 .. n
      BY <1>4
    <2>2. a \in Seq(S) /\ u \in Seq(S) /\ w = a \o u
      BY <1>1
    <2>3. b \in Seq(S) /\ v \in Seq(S) /\ w = b \o v
      BY <1>1, <2>1
    <2>4. b = a \o x /\ x \in Seq(S)
      <3>1. \A i \in 1 .. (m + 1) : g[i] \in Seq(S)
        BY <2>1
      <3>2. QED
        BY <2>1, <3>1, FlatNext
    <2> HIDE DEF a, x, b, u, v
    <2>5. Groups(a, x, v)
      BY <2>2, <2>3, <2>4, Associative
    <2>6. a \o u = a \o (x \o v)
      BY <2>2, <2>3, <2>4, <2>5, Zenon DEF Groups
    <2>7. x \o v \in Seq(S)
      BY <2>3, <2>4
    <2>8. u = x \o v
      BY <2>2, <2>6, <2>7, SameSecond
    <2>9. QED
      BY <2>8, Zenon DEF u, x, v
  <1>5. QED
    BY <1>1, <1>2, <1>3, <1>4 DEF LeftAfter

=============================================================================
