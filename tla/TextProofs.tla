----------------------------- MODULE TextProofs -----------------------------
(***************************************************************************)
(* Facts about the operators the layouts of Render are built from, for all *)
(* texts: flattening, replacing one character, and what the escapes of csv *)
(* and json leave of a text.                                               *)
(*                                                                         *)
(* The inductions are over sets: CountingUp takes the set of the numbers *)
(* for which a claim holds, where the library's theorem takes an operator. *)
(***************************************************************************)
EXTENDS Render, SequenceTheorems, FiniteSetTheorems, WellFoundedInduction, TLAPS

\* Induction on the naturals, over a set instead of a predicate.
LEMMA CountingUp ==
  ASSUME NEW S, 0 \in S, \A n \in Nat : n \in S => n + 1 \in S
  PROVE  \A n \in Nat : n \in S
<1>1. ASSUME Nat \ S # {} PROVE FALSE
  <2>1. PICK n \in Nat \ S : \A m \in Nat \ S : ~(<<m, n>> \in OpToRel(<, Nat))
    BY <1>1, NatLessThanWellFounded, WFMin
  <2>2. n \in Nat /\ n \notin S
    OBVIOUS
  <2>3. \A m \in Nat \ S : ~(m < n)
    BY <2>1 DEF OpToRel
  <2>4. n # 0
    BY <2>2
  <2>5. n - 1 \in Nat /\ n - 1 < n /\ (n - 1) + 1 = n
    BY <2>2, <2>4
  <2>6. n - 1 \in S
    BY <2>3, <2>5
  <2>7. (n - 1) + 1 \in S
    BY <2>5, <2>6
  <2> QED BY <2>2, <2>5, <2>7
<1> QED BY <1>1

\* Induction over sequences that grow at the end, and at the beginning.
LEMMA Appending ==
  ASSUME NEW S, NEW T, <<>> \in T,
         \A s \in Seq(S), e \in S : s \in T => Append(s, e) \in T
  PROVE  \A s \in Seq(S) : s \in T
<1> DEFINE N == {n \in Nat : \A s \in Seq(S) : Len(s) = n => s \in T}
<1>1. 0 \in N
  <2>1. \A s \in Seq(S) : Len(s) = 0 => s = <<>>
    OBVIOUS
  <2> QED BY <2>1
<1>2. ASSUME NEW n \in Nat, n \in N PROVE n + 1 \in N
  <2> SUFFICES ASSUME NEW s \in Seq(S), Len(s) = n + 1 PROVE s \in T
    OBVIOUS
  <2>1. s # <<>>
    OBVIOUS
  <2>2. PICK r \in Seq(S), e \in S : s = Append(r, e)
    BY <2>1, SequenceEmptyOrAppend
  <2>3. Len(r) = n
    BY <2>2
  <2> QED BY <1>2, <2>2, <2>3
<1>3. \A n \in Nat : n \in N => n + 1 \in N
  BY <1>2
<1> HIDE DEF N
<1>4. \A n \in Nat : n \in N
  BY <1>1, <1>3, CountingUp
<1> SUFFICES ASSUME NEW s \in Seq(S) PROVE s \in T
  OBVIOUS
<1>5. Len(s) \in N
  BY <1>4
<1> QED BY <1>5 DEF N

\* Every sequence is reached from the empty one by putting characters in
\* front: induction from the left.
LEMMA Prepending ==
  ASSUME NEW S, NEW T, <<>> \in T,
         \A s \in Seq(S), e \in S : s \in T => Cons(e, s) \in T
  PROVE  \A s \in Seq(S) : s \in T
<1> DEFINE N == {n \in Nat : \A s \in Seq(S) : Len(s) = n => s \in T}
<1>1. 0 \in N
  <2>1. \A s \in Seq(S) : Len(s) = 0 => s = <<>>
    OBVIOUS
  <2> QED BY <2>1
<1>2. ASSUME NEW n \in Nat, n \in N PROVE n + 1 \in N
  <2> SUFFICES ASSUME NEW s \in Seq(S), Len(s) = n + 1 PROVE s \in T
    OBVIOUS
  <2>1. s[1] \in S /\ Tail(s) \in Seq(S) /\ Len(Tail(s)) = n
    OBVIOUS
  <2>2. s = Cons(s[1], Tail(s))
    BY <2>1 DEF Cons
  <2>3. Tail(s) \in T
    BY <1>2, <2>1
  <2> QED BY <2>1, <2>2, <2>3
<1>3. \A n \in Nat : n \in N => n + 1 \in N
  BY <1>2
<1> HIDE DEF N
<1>4. \A n \in Nat : n \in N
  BY <1>1, <1>3, CountingUp
<1> SUFFICES ASSUME NEW s \in Seq(S) PROVE s \in T
  OBVIOUS
<1>5. Len(s) \in N
  BY <1>4
<1> QED BY <1>5 DEF N
\* s is what follows the first element of r.
Follows(r, s) == \A i \in 1 .. Len(s) : r[i + 1] = s[i]

\* A sequence with an element put in front of it, index by index.
LEMMA ConsProperties ==
  ASSUME NEW S, NEW e \in S, NEW s \in Seq(S)
  PROVE  /\ Cons(e, s) \in Seq(S) /\ Cons(e, s) # <<>>
         /\ Len(Cons(e, s)) = Len(s) + 1 /\ Cons(e, s)[1] = e
         /\ Follows(Cons(e, s), s)
<1> DEFINE r == <<e>> \o s
<1>1. <<e>> \in Seq(S) /\ Len(<<e>>) = 1 /\ <<e>>[1] = e /\ Len(s) \in Nat
  OBVIOUS
<1>2. /\ r \in Seq(S) /\ Len(r) = 1 + Len(s)
      /\ \A i \in 1 .. 1 + Len(s) : r[i] = IF i <= 1 THEN <<e>>[i] ELSE s[i - 1]
  BY <1>1, ConcatProperties
<1> HIDE DEF r
<1>3. \A i \in 1 .. Len(s) : r[i + 1] = s[i]
  BY <1>1, <1>2
<1>4. r[1] = e
  BY <1>1, <1>2
<1>5. Cons(e, s) = r
  BY DEF Cons, r
<1>6. Follows(Cons(e, s), s)
  BY <1>3, <1>5 DEF Follows
<1> QED BY <1>1, <1>2, <1>4, <1>5, <1>6

\* A sequence that is not empty has a first element and a rest.
LEMMA Uncons ==
  ASSUME NEW S, NEW u \in Seq(S), u # <<>>
  PROVE  \E a \in S, v \in Seq(S) : u = Cons(a, v)
<1>1. u[1] \in S /\ Tail(u) \in Seq(S)
  OBVIOUS
<1>2. u = <<u[1]>> \o Tail(u)
  BY <1>1
<1> QED BY <1>1, <1>2 DEF Cons
-----------------------------------------------------------------------------
(***************************************************************************)
(* FlattenSeq.                                                             *)
(***************************************************************************)
\* g holds what the first n parts of q are flattened to, one by one.
PartsOf(q, n, g) ==
  g = [i \in 1 .. n |-> IF i = 1 THEN q[i] ELSE g[i - 1] \o q[i]]

\* z is x followed by y.
Joins(x, y, z) == z = x \o y

\* Two sequences begin with the same n elements.
Alike(q, p, n) == \A i \in 1 .. n : q[i] = p[i]

\* The concatenation of the first i texts, from that of the first i - 1.
LEMMA PartsAt ==
  ASSUME NEW q, NEW n \in Nat, NEW g, PartsOf(q, n, g), NEW i \in 1 .. n
  PROVE  (i = 1 => g[i] = q[i]) /\ (i # 1 => g[i] = g[i - 1] \o q[i])
<1> DEFINE H == [k \in 1 .. n |-> IF k = 1 THEN q[k] ELSE g[k - 1] \o q[k]]
<1>1. g = H
  BY Zenon DEF PartsOf
<1>2. (i = 1 => H[i] = q[i]) /\ (i # 1 => H[i] = g[i - 1] \o q[i])
  OBVIOUS
<1> HIDE DEF H
<1> QED BY <1>1, <1>2

\* The concatenation of one text is that text.
LEMMA PartsFirst ==
  ASSUME NEW q, NEW n \in Nat, n # 0, NEW g, PartsOf(q, n, g)
  PROVE  g[1] = q[1]
<1>1. \A k \in 1 .. n : k = 1 => g[k] = q[k]
  BY PartsAt
<1> QED BY <1>1

\* The concatenations of all prefixes exist: they can be built one by one.
LEMMA PartsExist ==
  ASSUME NEW q
  PROVE  \A n \in Nat : \E g : PartsOf(q, n, g)
<1> DEFINE N == {n \in Nat : \E g : PartsOf(q, n, g)}
<1>1. 0 \in N
  <2>1. PartsOf(q, 0, <<>>)
    BY DEF PartsOf
  <2> QED BY <2>1
<1>2. ASSUME NEW n \in Nat, n \in N PROVE n + 1 \in N
  <2>1. PICK g : PartsOf(q, n, g)
    BY <1>2
  <2> DEFINE h == [i \in 1 .. n + 1 |->
                     IF i <= n THEN g[i] ELSE IF i = 1 THEN q[i] ELSE g[i - 1] \o q[i]]
  <2>2. PartsOf(q, n + 1, h)
    <3>1. ASSUME NEW i \in 1 .. n + 1
          PROVE  h[i] = IF i = 1 THEN q[i] ELSE h[i - 1] \o q[i]
      <4>1. CASE i <= n
        <5>0. h[i] = g[i] /\ i \in 1 .. n
          BY <4>1
        <5>1. (i = 1 => g[i] = q[i]) /\ (i # 1 => g[i] = g[i - 1] \o q[i])
          BY <2>1, <5>0, PartsAt
        <5>2. i # 1 => h[i - 1] = g[i - 1]
          BY <4>1
        <5> QED BY <5>0, <5>1, <5>2
      <4>2. CASE i = n + 1
        <5>1. i # 1 => i - 1 \in 1 .. n + 1 /\ i - 1 <= n /\ ~(i <= n)
          BY <4>2
        <5>2. i # 1 => h[i - 1] = g[i - 1] /\ h[i] = g[i - 1] \o q[i]
          BY <5>1
        <5>3. i = 1 => h[i] = q[i]
          BY <4>2
        <5> QED BY <5>2, <5>3
      <4> QED BY <4>1, <4>2
    <3>2. h = [i \in 1 .. n + 1 |-> h[i]]
      OBVIOUS
    <3> HIDE DEF h
    <3>3. [i \in 1 .. n + 1 |-> h[i]] =
            [i \in 1 .. n + 1 |-> IF i = 1 THEN q[i] ELSE h[i - 1] \o q[i]]
      BY <3>1
    <3> QED BY <3>2, <3>3, Zenon DEF PartsOf
  <2> HIDE DEF h
  <2> QED BY <2>2
<1>3. \A n \in Nat : n \in N => n + 1 \in N
  BY <1>2
<1> HIDE DEF N
<1>4. \A n \in Nat : n \in N
  BY <1>1, <1>3, CountingUp
<1> QED BY <1>4 DEF N

\* Parts of sequences that begin alike are alike.
LEMMA PartsAgree ==
  ASSUME NEW q, NEW p, NEW n \in Nat, NEW g, NEW h,
         PartsOf(q, n, g), PartsOf(p, n + 1, h), Alike(q, p, n)
  PROVE  \A i \in 1 .. n : g[i] = h[i]
<1> DEFINE N == {k \in Nat : k \in 1 .. n => g[k] = h[k]}
<1>1. 0 \in N
  OBVIOUS
<1>2. ASSUME NEW k \in Nat, k \in N PROVE k + 1 \in N
  <2> SUFFICES ASSUME k + 1 \in 1 .. n PROVE g[k + 1] = h[k + 1]
    OBVIOUS
  <2>1. /\ k + 1 = 1 => g[k + 1] = q[k + 1]
        /\ k + 1 # 1 => g[k + 1] = g[(k + 1) - 1] \o q[k + 1]
    BY PartsAt
  <2>2. /\ k + 1 = 1 => h[k + 1] = p[k + 1]
        /\ k + 1 # 1 => h[k + 1] = h[(k + 1) - 1] \o p[k + 1]
    <3>1. n + 1 \in Nat /\ k + 1 \in 1 .. n + 1
      OBVIOUS
    <3> QED BY <3>1, PartsAt
  <2>3. (k + 1) - 1 = k /\ (k + 1 # 1 => g[k] = h[k]) /\ q[k + 1] = p[k + 1]
    BY <1>2 DEF Alike
  <2> QED BY <2>1, <2>2, <2>3
<1>3. \A k \in Nat : k \in N => k + 1 \in N
  BY <1>2
<1> HIDE DEF N
<1>4. \A k \in Nat : k \in N
  BY <1>1, <1>3, CountingUp
<1> QED BY <1>4 DEF N

\* One more text lengthens the concatenation by that text.
LEMMA PartsNext ==
  ASSUME NEW q, NEW p, NEW n \in Nat, n # 0, NEW m \in Nat, m = n + 1,
         NEW g, NEW h, PartsOf(q, n, g), PartsOf(p, m, h),
         Alike(q, p, n)
  PROVE  Joins(g[n], p[m], h[m])
<1>1. g[n] = h[n]
  BY PartsAgree
<1>2. PICK k \in 1 .. m : k = m
  OBVIOUS
<1>3. k # 1 /\ k - 1 = n
  BY <1>2
<1>4. h[k] = h[k - 1] \o p[k]
  BY <1>3, PartsAt, Zenon
<1>5. h[m] = g[n] \o p[m]
  BY <1>1, <1>2, <1>3, <1>4, Zenon
<1> QED BY <1>5 DEF Joins

\* FlattenSeq is the last of the concatenations of the prefixes.
LEMMA FlattenParts ==
  ASSUME NEW S, NEW q \in Seq(Seq(S)), q # <<>>
  PROVE  \E g : PartsOf(q, Len(q), g) /\ FlattenSeq(q) = g[Len(q)]
<1> DEFINE g == CHOOSE x : PartsOf(q, Len(q), x)
<1>1. Len(q) \in Nat /\ Len(q) # 0
  OBVIOUS
<1>2. PartsOf(q, Len(q), g)
  BY <1>1, PartsExist
<1>3. FlattenSeq(q) = g[Len(q)]
  BY <1>1 DEF FlattenSeq, PartsOf
<1> HIDE DEF g
<1> QED BY <1>2, <1>3

\* Nothing concatenated is the empty text.
LEMMA FlattenEmpty == FlattenSeq(<<>>) = <<>>
BY DEF FlattenSeq

\* One text concatenated is that text.
LEMMA FlattenOne ==
  ASSUME NEW S, NEW x \in Seq(S)
  PROVE  FlattenSeq(<<x>>) = x
<1>1. <<x>> \in Seq(Seq(S)) /\ <<x>> # <<>> /\ Len(<<x>>) = 1 /\ <<x>>[1] = x
  OBVIOUS
<1>2. PICK g : PartsOf(<<x>>, 1, g) /\ FlattenSeq(<<x>>) = g[1]
  BY <1>1, FlattenParts
<1>3. g[1] = <<x>>[1]
  BY <1>2, PartsFirst
<1> QED BY <1>1, <1>2, <1>3

\* What is appended is flattened last.
LEMMA FlattenLonger ==
  ASSUME NEW S, NEW q \in Seq(Seq(S)), NEW p \in Seq(Seq(S)),
         NEW n \in Nat, n # 0, NEW m \in Nat, m = n + 1, Alike(q, p, n)
  PROVE  Len(q) = n /\ Len(p) = m => FlattenSeq(p) = FlattenSeq(q) \o p[m]
<1>6. ASSUME NEW g, NEW h, PartsOf(q, n, g), PartsOf(p, m, h)
      PROVE  Joins(g[n], p[m], h[m])
  BY <1>6, PartsNext
<1>0. SUFFICES ASSUME Len(q) = n, Len(p) = m
               PROVE  FlattenSeq(p) = FlattenSeq(q) \o p[m]
  OBVIOUS
<1>1. p # <<>> /\ q # <<>>
  BY <1>0
<1>2. \E g : PartsOf(q, n, g) /\ FlattenSeq(q) = g[n]
  BY <1>0, <1>1, FlattenParts
<1>3. PICK g : PartsOf(q, n, g) /\ FlattenSeq(q) = g[n]
  BY <1>2
<1>4. \E h : PartsOf(p, m, h) /\ FlattenSeq(p) = h[m]
  BY <1>0, <1>1, FlattenParts
<1>5. PICK h : PartsOf(p, m, h) /\ FlattenSeq(p) = h[m]
  BY <1>4
<1>7. Joins(g[n], p[m], h[m])
  BY <1>3, <1>5, <1>6
<1> QED BY <1>3, <1>5, <1>7 DEF Joins

\* FlattenSeq of a sequence of texts with one more at its end.
LEMMA FlattenAppend ==
  ASSUME NEW S, NEW q \in Seq(Seq(S)), NEW x \in Seq(S)
  PROVE  FlattenSeq(Append(q, x)) = FlattenSeq(q) \o x
<1>1. CASE q = <<>>
  <2>1. Append(q, x) = <<x>> /\ <<>> \o x = x
    BY <1>1
  <2> QED BY <1>1, <2>1, FlattenEmpty, FlattenOne
<1>2. CASE q # <<>>
  <2>2. /\ Append(q, x) \in Seq(Seq(S)) /\ Len(Append(q, x)) = Len(q) + 1
        /\ Append(q, x)[Len(q) + 1] = x
        /\ \A i \in 1 .. Len(q) : q[i] = Append(q, x)[i]
    BY AppendProperties
  <2>3. \A n, m \in Nat : n # 0 /\ m = n + 1 /\ Len(q) = n =>
          FlattenSeq(Append(q, x)) = FlattenSeq(q) \o Append(q, x)[m]
    <3> SUFFICES ASSUME NEW n \in Nat, NEW m \in Nat,
                        n # 0, m = n + 1, Len(q) = n
                 PROVE  FlattenSeq(Append(q, x)) = FlattenSeq(q) \o Append(q, x)[m]
      OBVIOUS
    <3>1. Len(Append(q, x)) = m /\ Alike(q, Append(q, x), n)
      BY <2>2 DEF Alike
    <3> QED BY <2>2, <3>1, FlattenLonger, Zenon
  <2>4. Len(q) \in Nat /\ Len(q) # 0
    BY <1>2
  <2> QED BY <2>2, <2>3, <2>4
<1> QED BY <1>1, <1>2

\* FlattenSeq keeps to the alphabet of the texts.
LEMMA FlattenType ==
  ASSUME NEW S
  PROVE  \A q \in Seq(Seq(S)) : FlattenSeq(q) \in Seq(S)
<1> DEFINE T == {q \in Seq(Seq(S)) : FlattenSeq(q) \in Seq(S)}
<1>1. <<>> \in T
  <2>1. <<>> \in Seq(Seq(S)) /\ <<>> \in Seq(S)
    OBVIOUS
  <2> QED BY <2>1, FlattenEmpty
<1>2. ASSUME NEW q \in Seq(Seq(S)), NEW x \in Seq(S), q \in T
      PROVE  Append(q, x) \in T
  <2>1. FlattenSeq(Append(q, x)) = FlattenSeq(q) \o x
    BY FlattenAppend
  <2>2. Append(q, x) \in Seq(Seq(S))
    BY AppendProperties
  <2>3. FlattenSeq(q) \o x \in Seq(S)
    BY <1>2, ConcatProperties
  <2> QED BY <2>1, <2>2, <2>3
<1>3. \A q \in Seq(Seq(S)), x \in Seq(S) : q \in T => Append(q, x) \in T
  BY <1>2
<1> HIDE DEF T
<1>4. \A q \in Seq(Seq(S)) : q \in T
  BY <1>1, <1>3, Appending
<1> QED BY <1>4 DEF T

\* What is put in front is flattened first.
LEMMA FlattenCons ==
  ASSUME NEW S, NEW x \in Seq(S)
  PROVE  \A q \in Seq(Seq(S)) : FlattenSeq(Cons(x, q)) = x \o FlattenSeq(q)
<1> DEFINE T == {q \in Seq(Seq(S)) : FlattenSeq(Cons(x, q)) = x \o FlattenSeq(q)}
<1>1. <<>> \in T
  <2>1. <<x>> \o <<>> = <<x>> /\ x \o <<>> = x
    OBVIOUS
  <2> QED BY <2>1, FlattenEmpty, FlattenOne DEF Cons
<1>2. ASSUME NEW q \in Seq(Seq(S)), NEW y \in Seq(S), q \in T
      PROVE  Append(q, y) \in T
  <2>1. FlattenSeq(q) \in Seq(S) /\ FlattenSeq(Append(q, y)) = FlattenSeq(q) \o y
    BY FlattenAppend, FlattenType
  <2>2. Cons(x, q) \in Seq(Seq(S)) /\ Append(q, y) \in Seq(Seq(S))
    BY ConsProperties, AppendProperties
  <2>3. Cons(x, Append(q, y)) = Append(Cons(x, q), y)
    <3>1. Append(q, y) = q \o <<y>> /\ Append(Cons(x, q), y) = Cons(x, q) \o <<y>>
      BY <2>2, AppendIsConcat
    <3>2. <<x>> \in Seq(Seq(S)) /\ <<y>> \in Seq(Seq(S))
      OBVIOUS
    <3>3. (<<x>> \o q) \o <<y>> = <<x>> \o (q \o <<y>>)
      BY <3>2, ConcatAssociative
    <3> QED BY <3>1, <3>3 DEF Cons
  <2>4. FlattenSeq(Append(Cons(x, q), y)) = FlattenSeq(Cons(x, q)) \o y
    BY <2>2, FlattenAppend
  <2>5. (x \o FlattenSeq(q)) \o y = x \o (FlattenSeq(q) \o y)
    BY <2>1, ConcatAssociative
  <2> QED BY <1>2, <2>1, <2>2, <2>3, <2>4, <2>5
<1>3. \A q \in Seq(Seq(S)), y \in Seq(S) : q \in T => Append(q, y) \in T
  BY <1>2
<1> HIDE DEF T
<1>4. \A q \in Seq(Seq(S)) : q \in T
  BY <1>1, <1>3, Appending
<1> QED BY <1>4 DEF T
-----------------------------------------------------------------------------
(***************************************************************************)
(* Replace.                                                                *)
(***************************************************************************)
\* What Replace leaves of one character.
Swap(e, ch, by) == IF e = ch THEN by ELSE <<e>>

Swaps(s, ch, by) == [i \in DOMAIN s |-> Swap(s[i], ch, by)]

\* What one character is replaced by keeps to the alphabet.
LEMMA SwapType ==
  ASSUME NEW S, NEW e \in S, NEW ch, NEW by \in Seq(S)
  PROVE  Swap(e, ch, by) \in Seq(S)
BY DEF Swap

\* One replacement for each character, in order.
LEMMA SwapsType ==
  ASSUME NEW S, NEW s \in Seq(S), NEW ch, NEW by \in Seq(S)
  PROVE  /\ Swaps(s, ch, by) \in Seq(Seq(S))
         /\ Len(Swaps(s, ch, by)) = Len(s)
         /\ \A i \in 1 .. Len(s) : Swaps(s, ch, by)[i] = Swap(s[i], ch, by)
<1>1. \A i \in 1 .. Len(s) : Swap(s[i], ch, by) \in Seq(S)
  BY SwapType
<1> QED BY <1>1 DEF Swaps

\* Replace concatenates the replacements of the characters.
LEMMA ReplaceSwaps ==
  ASSUME NEW s, NEW ch, NEW by
  PROVE  Replace(s, ch, by) = FlattenSeq(Swaps(s, ch, by))
BY DEF Replace, Swaps, Swap

\* Nothing is replaced in the empty text.
LEMMA ReplaceEmpty ==
  ASSUME NEW ch, NEW by
  PROVE  Replace(<<>>, ch, by) = <<>>
<1>1. Swaps(<<>>, ch, by) = <<>>
  BY DEF Swaps
<1> QED BY <1>1, ReplaceSwaps, FlattenEmpty

\* Replace keeps to the alphabet.
LEMMA ReplaceType ==
  ASSUME NEW S, NEW s \in Seq(S), NEW ch, NEW by \in Seq(S)
  PROVE  Replace(s, ch, by) \in Seq(S)
<1>1. Swaps(s, ch, by) \in Seq(Seq(S))
  BY SwapsType
<1>2. FlattenSeq(Swaps(s, ch, by)) \in Seq(S)
  BY <1>1, FlattenType
<1> QED BY <1>2, ReplaceSwaps

\* A text is replaced character by character, from either end.
LEMMA ReplaceAppend ==
  ASSUME NEW S, NEW s \in Seq(S), NEW e \in S, NEW ch, NEW by \in Seq(S)
  PROVE  Replace(Append(s, e), ch, by) = Replace(s, ch, by) \o Swap(e, ch, by)
<1> DEFINE r == Append(s, e)
           q == Swaps(s, ch, by)
           p == Swaps(r, ch, by)
           x == Swap(e, ch, by)
           u == Append(q, x)
<1>1. /\ r \in Seq(S) /\ Len(r) = Len(s) + 1 /\ Len(s) \in Nat
      /\ r[Len(s) + 1] = e /\ \A i \in 1 .. Len(s) : r[i] = s[i]
  BY AppendProperties
<1> HIDE DEF r
<1>2. /\ q \in Seq(Seq(S)) /\ p \in Seq(Seq(S)) /\ x \in Seq(S)
      /\ Len(q) = Len(s) /\ Len(p) = Len(r)
      /\ \A i \in 1 .. Len(s) : q[i] = Swap(s[i], ch, by)
      /\ \A i \in 1 .. Len(r) : p[i] = Swap(r[i], ch, by)
  BY <1>1, SwapsType, SwapType
<1> HIDE DEF q, p
<1>3. /\ u \in Seq(Seq(S)) /\ Len(u) = Len(q) + 1 /\ u[Len(q) + 1] = x
      /\ \A i \in 1 .. Len(q) : u[i] = q[i]
  BY <1>2, AppendProperties
<1> HIDE DEF u
<1>4. p = u
  <2>1. Len(p) = Len(u)
    BY <1>1, <1>2, <1>3
  <2>2. ASSUME NEW i \in 1 .. Len(p) PROVE p[i] = u[i]
    <3>1. i \in 1 .. Len(s) \/ i = Len(s) + 1
      BY <1>1, <1>2
    <3>2. p[i] = Swap(r[i], ch, by)
      BY <1>2
    <3>3. CASE i \in 1 .. Len(s)
      <4>1. r[i] = s[i] /\ u[i] = q[i] /\ q[i] = Swap(s[i], ch, by)
        BY <1>1, <1>2, <1>3, <3>3
      <4> QED BY <3>2, <4>1
    <3>4. CASE i = Len(s) + 1
      <4>1. r[i] = e /\ u[i] = x
        BY <1>1, <1>2, <1>3, <3>4
      <4> QED BY <3>2, <4>1
    <3> QED BY <3>1, <3>3, <3>4
  <2> QED BY <1>2, <1>3, <2>1, <2>2, SeqEqual
<1> HIDE DEF x
<1>5. FlattenSeq(Append(q, x)) = FlattenSeq(q) \o x
  BY <1>2, FlattenAppend
<1>6. FlattenSeq(p) = FlattenSeq(q) \o x
  BY <1>4, <1>5 DEF u
<1> QED BY <1>6, ReplaceSwaps DEF p, q, r, x

\* Replace works a character at a time, from the left.
LEMMA ReplaceCons ==
  ASSUME NEW S, NEW e \in S, NEW s \in Seq(S), NEW ch, NEW by \in Seq(S)
  PROVE  Replace(Cons(e, s), ch, by) = Swap(e, ch, by) \o Replace(s, ch, by)
<1> DEFINE r == Cons(e, s)
           q == Swaps(s, ch, by)
           p == Swaps(r, ch, by)
           x == Swap(e, ch, by)
           u == Cons(x, q)
<1>1. /\ r \in Seq(S) /\ Len(r) = Len(s) + 1 /\ Len(s) \in Nat
      /\ r[1] = e /\ Follows(r, s)
  BY ConsProperties
<1> HIDE DEF r
<1>2. /\ q \in Seq(Seq(S)) /\ p \in Seq(Seq(S)) /\ x \in Seq(S)
      /\ Len(q) = Len(s) /\ Len(p) = Len(r)
      /\ \A i \in 1 .. Len(s) : q[i] = Swap(s[i], ch, by)
      /\ \A i \in 1 .. Len(r) : p[i] = Swap(r[i], ch, by)
  BY <1>1, SwapsType, SwapType
<1> HIDE DEF q, p
<1>3. /\ u \in Seq(Seq(S)) /\ Len(u) = Len(q) + 1 /\ u[1] = x
      /\ Follows(u, q)
  BY <1>2, ConsProperties
<1> HIDE DEF u
<1>4. p = u
  <2>1. Len(p) = Len(u)
    BY <1>1, <1>2, <1>3
  <2>2. ASSUME NEW i \in 1 .. Len(p) PROVE p[i] = u[i]
    <3>2. p[i] = Swap(r[i], ch, by)
      BY <1>2
    <3>3. CASE i = 1
      BY <1>1, <1>3, <3>2, <3>3
    <3>4. CASE i # 1
      <4>1. PICK k \in 1 .. Len(s) : i = k + 1
        <5>1. i - 1 \in 1 .. Len(s) /\ i = (i - 1) + 1
          BY <1>1, <1>2, <3>4
        <5> QED BY <5>1
      <4>2. r[k + 1] = s[k] /\ u[k + 1] = q[k] /\ q[k] = Swap(s[k], ch, by)
        BY <1>1, <1>2, <1>3 DEF Follows
      <4> QED BY <3>2, <4>1, <4>2
    <3> QED BY <3>3, <3>4
  <2>3. \A i \in 1 .. Len(p) : p[i] = u[i]
    BY <2>2
  <2>4. p \in Seq(Seq(S)) /\ u \in Seq(Seq(S))
    BY <1>2, <1>3
  <2> QED BY <2>1, <2>3, <2>4, SeqEqual
<1> HIDE DEF x
<1>5. FlattenSeq(Cons(x, q)) = x \o FlattenSeq(q)
  BY <1>2, FlattenCons
<1>6. FlattenSeq(p) = x \o FlattenSeq(q)
  BY <1>4, <1>5 DEF u
<1> QED BY <1>6, ReplaceSwaps DEF p, q, r, x
-----------------------------------------------------------------------------
(***************************************************************************)
(* The fields of csv.                                                      *)
(***************************************************************************)
LEMMA FirstOfConcat ==
  ASSUME NEW S, NEW x \in Seq(S), NEW y \in Seq(S), x # <<>>
  PROVE  x \o y # <<>> /\ (x \o y)[1] = x[1]
<1>1. Len(x) \in Nat /\ Len(x) >= 1 /\ Len(y) \in Nat
  OBVIOUS
<1>2. /\ Len(x \o y) = Len(x) + Len(y)
      /\ \A i \in 1 .. Len(x) + Len(y) :
           (x \o y)[i] = IF i <= Len(x) THEN x[i] ELSE y[i - Len(x)]
  BY ConcatProperties
<1>3. (x \o y)[1] = x[1]
  BY <1>1, <1>2
<1> QED BY <1>1, <1>2, <1>3

Doubled(s) == Replace(s, Quote, <<Quote, Quote>>)

\* A text with its quotes doubled begins with the first character of the
\* text, followed by a second quote if that is one.
LEMMA DoubledCons ==
  ASSUME NEW S, Quote \in S, NEW e \in S, NEW s \in Seq(S)
  PROVE  /\ Doubled(Cons(e, s)) = Swap(e, Quote, <<Quote, Quote>>) \o Doubled(s)
         /\ Doubled(s) \in Seq(S) /\ Swap(e, Quote, <<Quote, Quote>>) \in Seq(S)
         /\ Swap(e, Quote, <<Quote, Quote>>) # <<>>
         /\ Swap(e, Quote, <<Quote, Quote>>)[1] = e
         /\ Doubled(Cons(e, s)) # <<>> /\ Doubled(Cons(e, s))[1] = e
<1> DEFINE by == <<Quote, Quote>>
           x == Swap(e, Quote, by)
<1>1. by \in Seq(S) /\ by # <<>> /\ by[1] = Quote
  OBVIOUS
<1> HIDE DEF by
<1>2. x \in Seq(S) /\ x # <<>> /\ x[1] = e
  BY <1>1 DEF Swap
<1>3. Replace(Cons(e, s), Quote, by) = x \o Replace(s, Quote, by)
  BY <1>1, ReplaceCons
<1> HIDE DEF x
<1>4. Replace(s, Quote, by) \in Seq(S)
  BY <1>1, ReplaceType
<1>5. /\ x \o Replace(s, Quote, by) # <<>>
      /\ (x \o Replace(s, Quote, by))[1] = x[1]
  BY <1>2, <1>4, FirstOfConcat
<1> QED BY <1>2, <1>3, <1>4, <1>5 DEF Doubled, x, by

\* No two texts are doubled to the same.
LEMMA DoubledInjective ==
  ASSUME NEW S, Quote \in S
  PROVE  \A s, u \in Seq(S) : Doubled(s) = Doubled(u) => s = u
<1> DEFINE T == {s \in Seq(S) : \A u \in Seq(S) : Doubled(s) = Doubled(u) => s = u}
<1>1. Doubled(<<>>) = <<>>
  BY ReplaceEmpty DEF Doubled
<1>2. <<>> \in T
  <2>1. ASSUME NEW u \in Seq(S), Doubled(<<>>) = Doubled(u) PROVE <<>> = u
    <3>1. ASSUME u # <<>> PROVE FALSE
      <4>1. PICK a \in S, v \in Seq(S) : u = Cons(a, v)
        BY <3>1, Uncons
      <4>2. Doubled(u) # <<>>
        BY <4>1, DoubledCons
      <4> QED BY <1>1, <2>1, <4>2
    <3> QED BY <3>1
  <2> QED BY <2>1
<1>3. ASSUME NEW s \in Seq(S), NEW e \in S, s \in T PROVE Cons(e, s) \in T
  <2>0. Cons(e, s) \in Seq(S)
    BY ConsProperties
  <2>1. ASSUME NEW u \in Seq(S), Doubled(Cons(e, s)) = Doubled(u)
        PROVE  Cons(e, s) = u
    <3>1. Doubled(Cons(e, s)) # <<>> /\ Doubled(Cons(e, s))[1] = e
      BY DoubledCons
    <3>2. u # <<>>
      BY <1>1, <2>1, <3>1
    <3>3. PICK a \in S, v \in Seq(S) : u = Cons(a, v)
      BY <3>2, Uncons
    <3>4. Doubled(u)[1] = a
      BY <3>3, DoubledCons
    <3>5. a = e
      BY <2>1, <3>1, <3>4
    <3> DEFINE x == Swap(e, Quote, <<Quote, Quote>>)
    <3>6. /\ Doubled(Cons(e, s)) = x \o Doubled(s)
          /\ Doubled(Cons(e, v)) = x \o Doubled(v)
          /\ x \in Seq(S) /\ Doubled(s) \in Seq(S) /\ Doubled(v) \in Seq(S)
      BY DoubledCons
    <3> HIDE DEF x
    <3>7. Doubled(s) = Doubled(v)
      BY <2>1, <3>3, <3>5, <3>6, ConcatSimplifications
    <3>8. s = v
      BY <1>3, <3>7
    <3> QED BY <3>3, <3>5, <3>8
  <2> QED BY <2>0, <2>1
<1>4. \A s \in Seq(S), e \in S : s \in T => Cons(e, s) \in T
  BY <1>3
<1> HIDE DEF T
<1>5. \A s \in Seq(S) : s \in T
  BY <1>2, <1>4, Prepending
<1> QED BY <1>5 DEF T

\* No two texts are escaped to the same field.
LEMMA CsvEscapeInjective ==
  ASSUME NEW S, Quote \in S, NEW s \in Seq(S), NEW u \in Seq(S),
         csvEscape(s) = csvEscape(u)
  PROVE  s = u
<1> DEFINE Special(t) == HasAny(t, {Comma, Quote, Break})
           Quoted(t)  == <<Quote>> \o Doubled(t) \o <<Quote>>
<1>1. \A t \in Seq(S) : /\ Special(t) => csvEscape(t) = Quoted(t)
                        /\ ~Special(t) => csvEscape(t) = t
  BY DEF csvEscape, Doubled
<1>2. <<Quote, Quote>> \in Seq(S) /\ <<Quote>> \in Seq(S)
  OBVIOUS
<1>3. \A t \in Seq(S) : Doubled(t) \in Seq(S)
  BY <1>2, ReplaceType DEF Doubled
<1>4. ASSUME NEW t \in Seq(S) PROVE Special(Quoted(t))
  <2>1. Doubled(t) \o <<Quote>> \in Seq(S)
    BY <1>2, <1>3
  <2>2. Quoted(t) = <<Quote>> \o (Doubled(t) \o <<Quote>>)
    BY <1>2, <1>3, ConcatAssociative
  <2>3. Quoted(t) \in Seq(S) /\ Quoted(t) # <<>> /\ Quoted(t)[1] = Quote
    BY <2>1, <2>2, ConsProperties DEF Cons
  <2>4. 1 \in DOMAIN Quoted(t)
    BY <2>3
  <2> QED BY <2>3, <2>4 DEF HasAny
<1>5. ASSUME NEW t \in Seq(S), NEW v \in Seq(S), Quoted(t) = Quoted(v) PROVE t = v
  <2>1. /\ <<Quote>> \o Doubled(t) \in Seq(S) /\ <<Quote>> \o Doubled(v) \in Seq(S)
        /\ Doubled(t) \in Seq(S) /\ Doubled(v) \in Seq(S)
    BY <1>2, <1>3
  <2>2. <<Quote>> \o Doubled(t) = <<Quote>> \o Doubled(v)
    BY <1>2, <1>5, <2>1, ConcatSimplifications
  <2>3. Doubled(t) = Doubled(v)
    BY <1>2, <2>1, <2>2, ConcatSimplifications
  <2> QED BY <2>3, DoubledInjective
<1> HIDE DEF Special, Quoted
<1>6. CASE Special(s) /\ Special(u)
  BY <1>1, <1>5, <1>6
<1>7. CASE Special(s) /\ ~Special(u)
  BY <1>1, <1>4, <1>7
<1>8. CASE ~Special(s) /\ Special(u)
  BY <1>1, <1>4, <1>8
<1>9. CASE ~Special(s) /\ ~Special(u)
  BY <1>1, <1>9
<1> QED BY <1>6, <1>7, <1>8, <1>9

\* Counting the quotes of a text a character at a time.
LEMMA QuotesNext ==
  ASSUME NEW f, NEW j \in Nat, NEW k \in Nat, k = j + 1
  PROVE  /\ Quotes(f, j) \in Nat
         /\ f[k] = Quote => Quotes(f, k) = Quotes(f, j) + 1
         /\ f[k] # Quote => Quotes(f, k) = Quotes(f, j)
<1> DEFINE A == {i \in 1 .. j : f[i] = Quote}
           D == {i \in 1 .. k : f[i] = Quote}
<1>1. IsFiniteSet(A)
  <2>1. IsFiniteSet(1 .. j) /\ A \in SUBSET (1 .. j)
    BY FS_Interval
  <2> QED BY <2>1, FS_Subset
<1>2. Cardinality(A) \in Nat
  BY <1>1, FS_CardinalityType
<1>3. k \notin A
  OBVIOUS
<1>4. f[k] = Quote => D = A \cup {k}
  OBVIOUS
<1>5. f[k] # Quote => D = A
  OBVIOUS
<1>6. Quotes(f, j) = Cardinality(A) /\ Quotes(f, k) = Cardinality(D)
  BY DEF Quotes
<1> HIDE DEF A, D
<1>7. Cardinality(A \cup {k}) = Cardinality(A) + 1
  BY <1>1, <1>3, FS_AddElement
<1> QED BY <1>2, <1>4, <1>5, <1>6, <1>7

\* Texts with a common prefix have the same quotes in it.
LEMMA QuotesSame ==
  ASSUME NEW f, NEW g, NEW j \in Nat, Alike(f, g, j)
  PROVE  Quotes(f, j) = Quotes(g, j)
<1>1. {i \in 1 .. j : f[i] = Quote} = {i \in 1 .. j : g[i] = Quote}
  BY DEF Alike
<1> QED BY <1>1 DEF Quotes

\* A field as it is written so far: it began with a quote, and for a reader
\* it has not ended.
Unclosed(g) ==
  /\ g # <<>> /\ g[1] = Quote
  /\ Quotes(g, Len(g)) % 2 = 1
  /\ \A j \in 1 .. Len(g) : ~Closes(g, j)

\* Odd numbers of quotes and even ones.
LEMMA Parity ==
  ASSUME NEW n \in Nat
  PROVE  /\ n % 2 = 1 => (n + 1) % 2 = 0
         /\ n % 2 = 0 => (n + 1) % 2 = 1
OBVIOUS

\* The elements of g, and the quotes among them, are those f begins with.
Kept(f, g) == \A j \in 1 .. Len(g) : f[j] = g[j] /\ Quotes(f, j) = Quotes(g, j)

\* f is g and one more character.
Lengthens(f, g, e) ==
  /\ f # <<>> /\ f[1] = g[1] /\ Len(f) = Len(g) + 1
  /\ f[Len(f)] = e /\ Len(g) \in Nat \ {0} /\ Len(f) \in Nat
  /\ Quotes(g, Len(g)) \in Nat
  /\ e = Quote => Quotes(f, Len(f)) = Quotes(g, Len(g)) + 1
  /\ e # Quote => Quotes(f, Len(f)) = Quotes(g, Len(g))
  /\ Kept(f, g)

\* A character at the end of a text leaves the characters and the quotes
\* before it as they are.
LEMMA AppendQuotes ==
  ASSUME NEW S, NEW g \in Seq(S), g # <<>>, NEW e \in S, NEW f, f = Append(g, e)
  PROVE  f \in Seq(S) /\ Lengthens(f, g, e)
<1>1. /\ f \in Seq(S) /\ f # <<>> /\ Len(f) = Len(g) + 1 /\ Len(g) \in Nat \ {0}
      /\ f[Len(g) + 1] = e /\ \A j \in 1 .. Len(g) : f[j] = g[j]
  BY AppendProperties
<1>2. f[1] = g[1] /\ f[Len(f)] = e /\ Len(f) \in Nat
  BY <1>1
<1>3. ASSUME NEW j \in 1 .. Len(g) PROVE Quotes(f, j) = Quotes(g, j)
  <2>1. j \in Nat /\ Alike(f, g, j)
    BY <1>1 DEF Alike
  <2> QED BY <2>1, QuotesSame
<1> DEFINE n == Len(g)
           k == Len(f)
<1>4. n \in Nat /\ k \in Nat /\ k = n + 1 /\ f[k] = e /\ n \in 1 .. n
  BY <1>1, <1>2
<1>5. Quotes(f, n) = Quotes(g, n)
  BY <1>3, <1>4
<1> HIDE DEF n, k
<1>6. /\ Quotes(f, n) \in Nat
      /\ f[k] = Quote => Quotes(f, k) = Quotes(f, n) + 1
      /\ f[k] # Quote => Quotes(f, k) = Quotes(f, n)
  BY <1>4, QuotesNext
<1>7. /\ e = Quote => Quotes(f, k) = Quotes(g, n) + 1
      /\ e # Quote => Quotes(f, k) = Quotes(g, n)
      /\ Quotes(g, n) \in Nat
  BY <1>4, <1>5, <1>6
<1> QED BY <1>1, <1>2, <1>3, <1>7 DEF n, k, Kept, Lengthens

\* Any character but a quote leaves a field unclosed, and so do two quotes.
LEMMA UnclosedOther ==
  ASSUME NEW S, NEW g \in Seq(S), NEW e \in S, Unclosed(g), e # Quote,
         NEW f, f = Append(g, e)
  PROVE  Unclosed(f)
<1>1. /\ f \in Seq(S) /\ f # <<>> /\ f[1] = g[1] /\ Len(f) = Len(g) + 1
      /\ f[Len(f)] = e /\ Len(g) \in Nat \ {0}
      /\ Quotes(g, Len(g)) \in Nat
      /\ Quotes(f, Len(f)) = Quotes(g, Len(g))
      /\ Kept(f, g)
  <2>1. g # <<>>
    BY DEF Unclosed
  <2>2. f \in Seq(S) /\ Lengthens(f, g, e)
    BY <2>1, AppendQuotes
  <2> QED BY <2>2 DEF Lengthens
<1>2. Quotes(f, Len(f)) % 2 = 1
  BY <1>1 DEF Unclosed
<1>3. ASSUME NEW j \in 1 .. Len(f) PROVE ~Closes(f, j)
  <2>1. CASE j = Len(f)
    BY <1>1, <2>1 DEF Closes
  <2>2. CASE j = Len(g)
    <3>1. Quotes(f, j) = Quotes(g, Len(g)) /\ Quotes(g, Len(g)) % 2 = 1
      BY <1>1, <2>2 DEF Unclosed, Kept
    <3> QED BY <3>1 DEF Closes
  <2>3. CASE j \in 1 .. Len(g) /\ j # Len(g)
    <3>1. j + 1 \in 1 .. Len(g) /\ j < Len(g) /\ j < Len(f)
      BY <1>1, <2>3
    <3>2. f[j] = g[j] /\ Quotes(f, j) = Quotes(g, j) /\ f[j + 1] = g[j + 1]
      BY <1>1, <2>3, <3>1 DEF Kept
    <3>3. ~Closes(g, j)
      BY <2>3 DEF Unclosed
    <3> QED BY <3>1, <3>2, <3>3 DEF Closes
  <2> QED BY <1>1, <2>1, <2>2, <2>3
<1> QED BY <1>1, <1>2, <1>3 DEF Unclosed

\* A quote closes a field where it stands, and nowhere before.
LEMMA ClosedAtEnd ==
  ASSUME NEW S, Quote \in S, NEW g \in Seq(S), Unclosed(g),
         NEW f, f = Append(g, Quote)
  PROVE  /\ f \in Seq(S) /\ f[1] = Quote
         /\ \A j \in 1 .. Len(f) : Closes(f, j) <=> j = Len(f)
<1>1. /\ f \in Seq(S) /\ f # <<>> /\ f[1] = g[1] /\ Len(f) = Len(g) + 1
      /\ f[Len(f)] = Quote /\ Len(g) \in Nat \ {0}
      /\ Quotes(g, Len(g)) \in Nat
      /\ Quotes(f, Len(f)) = Quotes(g, Len(g)) + 1
      /\ Kept(f, g)
  <2>1. g # <<>>
    BY DEF Unclosed
  <2>2. f \in Seq(S) /\ Lengthens(f, g, Quote)
    BY <2>1, AppendQuotes
  <2> QED BY <2>2 DEF Lengthens
<1>2. Quotes(f, Len(f)) % 2 = 0
  BY <1>1, Parity DEF Unclosed
<1>3. Closes(f, Len(f))
  BY <1>1, <1>2 DEF Closes
<1>4. ASSUME NEW j \in 1 .. Len(f), j # Len(f) PROVE ~Closes(f, j)
  <2>2. CASE j = Len(g)
    <3>1. Quotes(f, j) = Quotes(g, Len(g)) /\ Quotes(g, Len(g)) % 2 = 1
      BY <1>1, <2>2 DEF Unclosed, Kept
    <3> QED BY <3>1 DEF Closes
  <2>3. CASE j \in 1 .. Len(g) /\ j # Len(g)
    <3>1. j + 1 \in 1 .. Len(g) /\ j < Len(g) /\ j < Len(f)
      BY <1>1, <2>3
    <3>2. f[j] = g[j] /\ Quotes(f, j) = Quotes(g, j) /\ f[j + 1] = g[j + 1]
      BY <1>1, <2>3, <3>1 DEF Kept
    <3>3. ~Closes(g, j)
      BY <2>3 DEF Unclosed
    <3> QED BY <3>1, <3>2, <3>3 DEF Closes
  <2> QED BY <1>1, <1>4, <2>2, <2>3
<1>5. f[1] = Quote
  BY <1>1 DEF Unclosed
<1> QED BY <1>1, <1>3, <1>4, <1>5

\* A pair of quotes inside a field does not close it.
LEMMA UnclosedPair ==
  ASSUME NEW S, Quote \in S, NEW g \in Seq(S), Unclosed(g),
         NEW f, f = Append(g, Quote), NEW h, h = Append(f, Quote)
  PROVE  Unclosed(h)
<1>1. /\ f \in Seq(S) /\ f[1] = Quote
      /\ \A j \in 1 .. Len(f) : Closes(f, j) <=> j = Len(f)
  BY ClosedAtEnd
<1>2. f # <<>> /\ Quotes(f, Len(f)) = Quotes(g, Len(g)) + 1 /\ Quotes(g, Len(g)) \in Nat
  <2>1. g # <<>>
    BY DEF Unclosed
  <2>2. f \in Seq(S) /\ Lengthens(f, g, Quote)
    BY <2>1, AppendQuotes
  <2> QED BY <2>2 DEF Lengthens
<1>3. /\ h \in Seq(S) /\ h # <<>> /\ h[1] = f[1] /\ Len(h) = Len(f) + 1
      /\ h[Len(h)] = Quote /\ Len(f) \in Nat \ {0} /\ Quotes(f, Len(f)) \in Nat
      /\ Quotes(h, Len(h)) = Quotes(f, Len(f)) + 1
      /\ Kept(h, f)
  <2>1. h \in Seq(S) /\ Lengthens(h, f, Quote)
    BY <1>1, <1>2, AppendQuotes
  <2> QED BY <2>1 DEF Lengthens
<1>4. Quotes(h, Len(h)) % 2 = 1
  BY <1>2, <1>3, Parity DEF Unclosed
<1>5. ASSUME NEW j \in 1 .. Len(h) PROVE ~Closes(h, j)
  <2>1. CASE j = Len(h)
    BY <1>4, <2>1 DEF Closes
  <2>2. CASE j = Len(f)
    <3>1. j + 1 = Len(h) /\ j < Len(h)
      BY <1>3, <2>2
    <3>2. h[j + 1] = Quote
      BY <1>3, <3>1
    <3> QED BY <3>1, <3>2 DEF Closes
  <2>3. CASE j \in 1 .. Len(f) /\ j # Len(f)
    <3>1. j + 1 \in 1 .. Len(f) /\ j < Len(f) /\ j < Len(h)
      BY <1>3, <2>3
    <3>2. h[j] = f[j] /\ Quotes(h, j) = Quotes(f, j) /\ h[j + 1] = f[j + 1]
      BY <1>3, <2>3, <3>1 DEF Kept
    <3>3. ~Closes(f, j)
      BY <1>1, <2>3
    <3> QED BY <3>1, <3>2, <3>3 DEF Closes
  <2> QED BY <1>3, <2>1, <2>2, <2>3
<1> QED BY <1>1, <1>3, <1>4, <1>5 DEF Unclosed

\* Doubling quotes works a character at a time, from the right.
LEMMA DoubledAppend ==
  ASSUME NEW S, Quote \in S, NEW e \in S, NEW s \in Seq(S)
  PROVE  Doubled(Append(s, e)) = Doubled(s) \o Swap(e, Quote, <<Quote, Quote>>)
<1> DEFINE by == <<Quote, Quote>>
<1>1. by \in Seq(S)
  OBVIOUS
<1> HIDE DEF by
<1>2. Replace(Append(s, e), Quote, by) = Replace(s, Quote, by) \o Swap(e, Quote, by)
  BY <1>1, ReplaceAppend
<1> QED BY <1>2 DEF Doubled, by

\* However many quotes a text has, doubled behind an opening one they leave
\* the field unclosed.
LEMMA DoubledUnclosed ==
  ASSUME NEW S, Quote \in S
  PROVE  \A s \in Seq(S) : Unclosed(<<Quote>> \o Doubled(s))
<1> DEFINE Begun(s) == <<Quote>> \o Doubled(s)
           T == {s \in Seq(S) : Unclosed(Begun(s))}
<1>0. <<Quote>> \in Seq(S) /\ <<Quote, Quote>> \in Seq(S)
      /\ \A s \in Seq(S) : Doubled(s) \in Seq(S) /\ Begun(s) \in Seq(S)
  <2>1. <<Quote>> \in Seq(S) /\ <<Quote, Quote>> \in Seq(S)
    OBVIOUS
  <2>2. \A s \in Seq(S) : Doubled(s) \in Seq(S)
    BY <2>1, ReplaceType DEF Doubled
  <2> QED BY <2>1, <2>2, ConcatProperties
<1>1. <<>> \in T
  <2> DEFINE g == <<Quote>>
  <2>1. Begun(<<>>) = g
    <3>1. Doubled(<<>>) = <<>>
      BY ReplaceEmpty DEF Doubled
    <3>2. <<Quote>> \o <<>> = <<Quote>>
      OBVIOUS
    <3> QED BY <3>1, <3>2
  <2>2. g # <<>> /\ g[1] = Quote /\ Len(g) = 1
    OBVIOUS
  <2> HIDE DEF g
  <2>3. Quotes(g, 1) = 1
    <3>1. {i \in 1 .. 1 : g[i] = Quote} = {1}
      BY <2>2
    <3> QED BY <3>1, FS_Singleton DEF Quotes
  <2>4. \A j \in 1 .. Len(g) : ~Closes(g, j)
    BY <2>2, <2>3 DEF Closes
  <2>5. Quotes(g, Len(g)) % 2 = 1
    BY <2>2, <2>3
  <2>6. Unclosed(g)
    BY <2>2, <2>4, <2>5 DEF Unclosed
  <2>7. <<>> \in Seq(S)
    OBVIOUS
  <2> HIDE DEF Begun
  <2> QED BY <2>1, <2>6, <2>7
<1>2. ASSUME NEW s \in Seq(S), NEW e \in S, s \in T PROVE Append(s, e) \in T
  <2>0. Append(s, e) \in Seq(S)
    BY AppendProperties
  <2> DEFINE x == Swap(e, Quote, <<Quote, Quote>>)
  <2>1. x \in Seq(S)
    BY <1>0, SwapType
  <2>2. Doubled(Append(s, e)) = Doubled(s) \o x
    BY DoubledAppend
  <2> DEFINE g == Begun(s)
  <2>3. Begun(Append(s, e)) = g \o x
    <3>1. (<<Quote>> \o Doubled(s)) \o x = <<Quote>> \o (Doubled(s) \o x)
      BY <1>0, <2>1, ConcatAssociative
    <3> QED BY <2>2, <3>1
  <2>4. g \in Seq(S) /\ Unclosed(g)
    BY <1>0, <1>2
  <2>5. CASE e # Quote
    <3>1. x = <<e>>
      BY <2>5 DEF Swap
    <3> HIDE DEF g, x
    <3>2. g \o x = Append(g, e)
      BY <2>4, <3>1, AppendIsConcat
    <3>3. Unclosed(Append(g, e))
      BY <2>4, <2>5, UnclosedOther
    <3> QED BY <2>0, <2>3, <3>2, <3>3
  <2>6. CASE e = Quote
    <3>1. x = <<Quote, Quote>>
      BY <2>6 DEF Swap
    <3> HIDE DEF g, x
    <3>2. g \o x = Append(Append(g, Quote), Quote)
      BY <2>4, <3>1
    <3>3. Unclosed(Append(Append(g, Quote), Quote))
      BY <2>4, UnclosedPair
    <3> QED BY <2>0, <2>3, <3>2, <3>3
  <2> QED BY <2>5, <2>6
<1>3. \A s \in Seq(S), e \in S : s \in T => Append(s, e) \in T
  BY <1>2
<1> HIDE DEF T
<1>4. \A s \in Seq(S) : s \in T
  BY <1>1, <1>3, Appending
<1> QED BY <1>4 DEF T

\* A field with commas, newlines or quotes in it is quoted, and for a reader
\* of csv it ends at its last character and nowhere before; the others have
\* none of these.
LEMMA CsvFieldEnds ==
  ASSUME NEW S, Quote \in S, NEW s \in Seq(S), NEW f, f = csvEscape(s),
         HasAny(f, {Comma, Break, Quote})
  PROVE  f[1] = Quote /\ \A j \in DOMAIN f : Closes(f, j) <=> j = Len(f)
<1>1. HasAny(s, {Comma, Quote, Break})
  <2>1. CASE ~HasAny(s, {Comma, Quote, Break})
    <3>1. f = s
      BY <2>1 DEF csvEscape
    <3> QED BY <2>1, <3>1 DEF HasAny
  <2> QED BY <2>1
<1> DEFINE g == <<Quote>> \o Doubled(s)
<1>2. f = g \o <<Quote>>
  BY <1>1 DEF csvEscape, Doubled
<1>3. g \in Seq(S)
  <2>1. <<Quote>> \in Seq(S) /\ <<Quote, Quote>> \in Seq(S)
    OBVIOUS
  <2>2. Doubled(s) \in Seq(S)
    BY <2>1, ReplaceType DEF Doubled
  <2> QED BY <2>1, <2>2, ConcatProperties
<1>4. Unclosed(g)
  BY DoubledUnclosed
<1> HIDE DEF g
<1>5. f = Append(g, Quote)
  BY <1>2, <1>3, AppendIsConcat
<1>6. /\ f \in Seq(S) /\ f[1] = Quote
      /\ \A j \in 1 .. Len(f) : Closes(f, j) <=> j = Len(f)
  BY <1>3, <1>4, <1>5, ClosedAtEnd
<1> QED BY <1>6
-----------------------------------------------------------------------------
(***************************************************************************)
(* The strings of json.                                                    *)
(***************************************************************************)
LEMMA ConsInjective ==
  ASSUME NEW S, NEW a \in S, NEW b \in S, NEW x \in Seq(S), NEW y \in Seq(S),
         Cons(a, x) = Cons(b, y)
  PROVE  a = b /\ x = y
<1>1. a = b
  <2>1. Cons(a, x)[1] = a /\ Cons(b, y)[1] = b
    BY ConsProperties
  <2> QED BY <2>1
<1>2. <<a>> \o x = <<a>> \o y
  BY <1>1 DEF Cons
<1>3. <<a>> \in Seq(S)
  OBVIOUS
<1> QED BY <1>1, <1>2, <1>3, ConcatSimplifications

\* Putting a character in front and concatenating commute.
LEMMA ConsConcat ==
  ASSUME NEW S, NEW a \in S, NEW x \in Seq(S), NEW y \in Seq(S)
  PROVE  Cons(a, x) \o y = Cons(a, x \o y)
<1>1. <<a>> \in Seq(S)
  OBVIOUS
<1>2. (<<a>> \o x) \o y = <<a>> \o (x \o y)
  BY <1>1, ConcatAssociative
<1> QED BY <1>2 DEF Cons

\* A character other than the one replaced stays.
LEMMA ReplaceKeeps ==
  ASSUME NEW S, NEW e \in S, NEW s \in Seq(S), NEW ch, NEW by \in Seq(S), e # ch
  PROVE  Replace(Cons(e, s), ch, by) = Cons(e, Replace(s, ch, by))
<1>1. Replace(Cons(e, s), ch, by) = Swap(e, ch, by) \o Replace(s, ch, by)
  BY ReplaceCons
<1>2. Swap(e, ch, by) = <<e>>
  BY DEF Swap
<1> QED BY <1>1, <1>2 DEF Cons

\* The character replaced becomes two.
LEMMA ReplacePair ==
  ASSUME NEW S, NEW ch \in S, NEW s \in Seq(S), NEW a \in S, NEW b \in S
  PROVE  Replace(Cons(ch, s), ch, <<a, b>>) =
           Cons(a, Cons(b, Replace(s, ch, <<a, b>>)))
<1> DEFINE by == <<a, b>>
           r == Replace(s, ch, by)
<1>1. by \in Seq(S) /\ <<a>> \in Seq(S) /\ <<b>> \in Seq(S)
  OBVIOUS
<1>0. by = <<a>> \o <<b>>
  <2> DEFINE t == <<a>> \o <<b>>
  <2>1. t \in Seq(S) /\ Len(t) = 2 /\ t[1] = a /\ t[2] = b
    <3>1. /\ t \in Seq(S) /\ Len(t) = Len(<<a>>) + Len(<<b>>)
          /\ \A i \in 1 .. Len(<<a>>) + Len(<<b>>) :
               t[i] = IF i <= Len(<<a>>) THEN <<a>>[i] ELSE <<b>>[i - Len(<<a>>)]
      BY <1>1, ConcatProperties
    <3> QED BY <3>1
  <2>2. Len(by) = 2 /\ by[1] = a /\ by[2] = b
    OBVIOUS
  <2> HIDE DEF t, by
  <2>3. \A i \in 1 .. 2 : by[i] = t[i]
    BY <2>1, <2>2
  <2>4. by = t
    BY <1>1, <2>1, <2>2, <2>3, SeqEqual
  <2> QED BY <2>4 DEF t
<1> HIDE DEF by
<1>2. Replace(Cons(ch, s), ch, by) = Swap(ch, ch, by) \o r
  BY <1>1, ReplaceCons
<1>3. Swap(ch, ch, by) = by
  BY DEF Swap
<1>4. r \in Seq(S)
  BY <1>1, ReplaceType
<1> HIDE DEF r
<1>5. (<<a>> \o <<b>>) \o r = <<a>> \o (<<b>> \o r)
  BY <1>1, <1>4, ConcatAssociative
<1>6. by \o r = Cons(a, Cons(b, r))
  BY <1>0, <1>5 DEF Cons
<1> QED BY <1>2, <1>3, <1>6 DEF by, r

\* The characters json escapes, and what follows the backslash then.
Escapes == {Slash, Quote, Break}
After(e) == IF e = Break THEN "n" ELSE e
Alphabet(S) == Escapes \cup {"n"} \subseteq S

\* The empty text has nothing to escape (main.go:965-973).
LEMMA JsonEmpty == jsonEscapeStr(<<>>) = <<>>
BY ReplaceEmpty DEF jsonEscapeStr

\* Escaping keeps to an alphabet that has the escapes (main.go:965-973).
LEMMA JsonType ==
  ASSUME NEW S, Alphabet(S), NEW s \in Seq(S)
  PROVE  jsonEscapeStr(s) \in Seq(S)
<1>1. Slash \in S /\ Quote \in S /\ "n" \in S
  BY DEF Alphabet, Escapes
<1>2. <<Slash, Slash>> \in Seq(S) /\ <<Slash, Quote>> \in Seq(S) /\ <<Slash, "n">> \in Seq(S)
  BY <1>1
<1> DEFINE r == Replace(s, Slash, <<Slash, Slash>>)
           q == Replace(r, Quote, <<Slash, Quote>>)
<1>3. r \in Seq(S)
  BY <1>2, ReplaceType
<1> HIDE DEF r
<1>4. q \in Seq(S)
  BY <1>2, <1>3, ReplaceType
<1> HIDE DEF q
<1>5. Replace(q, Break, <<Slash, "n">>) \in Seq(S)
  BY <1>2, <1>4, ReplaceType
<1> QED BY <1>5 DEF jsonEscapeStr, r, q

\* The three replacements of jsonEscapeStr are one: none of them touches what
\* another has put in.
LEMMA JsonCons ==
  ASSUME NEW S, Alphabet(S), NEW e \in S, NEW s \in Seq(S)
  PROVE  /\ e \in Escapes => jsonEscapeStr(Cons(e, s)) =
                               Cons(Slash, Cons(After(e), jsonEscapeStr(s)))
         /\ e \notin Escapes => jsonEscapeStr(Cons(e, s)) = Cons(e, jsonEscapeStr(s))
<1> DEFINE b1 == <<Slash, Slash>>
           b2 == <<Slash, Quote>>
           b3 == <<Slash, "n">>
           R1(t) == Replace(t, Slash, b1)
           R2(t) == Replace(t, Quote, b2)
           R3(t) == Replace(t, Break, b3)
           r == R1(s)
           q == R2(r)
           p == R3(q)
<1>1. /\ Slash \in S /\ Quote \in S /\ Break \in S /\ "n" \in S
      /\ Slash # Quote /\ Slash # Break /\ Quote # Break
  BY DEF Alphabet, Escapes, Slash, Quote, Break
<1>2. b1 \in Seq(S) /\ b2 \in Seq(S) /\ b3 \in Seq(S)
  BY <1>1
<1>3. \A t \in Seq(S) : R1(t) \in Seq(S) /\ R2(t) \in Seq(S) /\ R3(t) \in Seq(S)
  BY <1>2, ReplaceType
<1>4. \A t \in Seq(S) : R1(Cons(Slash, t)) = Cons(Slash, Cons(Slash, R1(t)))
  BY <1>1, ReplacePair
<1>5. \A t \in Seq(S) : R2(Cons(Quote, t)) = Cons(Slash, Cons(Quote, R2(t)))
  BY <1>1, ReplacePair
<1>6. \A t \in Seq(S) : R3(Cons(Break, t)) = Cons(Slash, Cons("n", R3(t)))
  BY <1>1, ReplacePair
<1>7. \A x \in S, t \in Seq(S) :
        /\ x # Slash => R1(Cons(x, t)) = Cons(x, R1(t))
        /\ x # Quote => R2(Cons(x, t)) = Cons(x, R2(t))
        /\ x # Break => R3(Cons(x, t)) = Cons(x, R3(t))
  <2> SUFFICES ASSUME NEW x \in S, NEW t \in Seq(S)
               PROVE  /\ x # Slash => R1(Cons(x, t)) = Cons(x, R1(t))
                      /\ x # Quote => R2(Cons(x, t)) = Cons(x, R2(t))
                      /\ x # Break => R3(Cons(x, t)) = Cons(x, R3(t))
    OBVIOUS
  <2> HIDE DEF b1, b2, b3
  <2>1. x # Slash => R1(Cons(x, t)) = Cons(x, R1(t))
    BY <1>2, ReplaceKeeps
  <2>2. x # Quote => R2(Cons(x, t)) = Cons(x, R2(t))
    BY <1>2, ReplaceKeeps
  <2>3. x # Break => R3(Cons(x, t)) = Cons(x, R3(t))
    BY <1>2, ReplaceKeeps
  <2> QED BY <2>1, <2>2, <2>3
<1>8. \A x \in S, t \in Seq(S) : Cons(x, t) \in Seq(S)
  BY ConsProperties
<1>9. \A t : jsonEscapeStr(t) = R3(R2(R1(t)))
  BY DEF jsonEscapeStr
<1> HIDE DEF R1, R2, R3, b1, b2, b3
<1>10. r \in Seq(S) /\ q \in Seq(S) /\ p = jsonEscapeStr(s)
  BY <1>3, <1>9
<1>11. CASE e = Slash
  <2>1. R1(Cons(e, s)) = Cons(Slash, Cons(Slash, r))
    BY <1>4, <1>11
  <2>2. R2(Cons(Slash, Cons(Slash, r))) = Cons(Slash, Cons(Slash, q))
    BY <1>1, <1>7, <1>8, <1>10
  <2>3. R3(Cons(Slash, Cons(Slash, q))) = Cons(Slash, Cons(Slash, p))
    BY <1>1, <1>7, <1>8, <1>10
  <2>4. e \in Escapes /\ After(e) = Slash
    BY <1>1, <1>11 DEF Escapes, After
  <2> QED BY <1>9, <1>10, <2>1, <2>2, <2>3, <2>4
<1>12. CASE e = Quote
  <2>1. R1(Cons(e, s)) = Cons(Quote, r)
    BY <1>1, <1>7, <1>12
  <2>2. R2(Cons(Quote, r)) = Cons(Slash, Cons(Quote, q))
    BY <1>5, <1>10
  <2>3. R3(Cons(Slash, Cons(Quote, q))) = Cons(Slash, Cons(Quote, p))
    BY <1>1, <1>7, <1>8, <1>10
  <2>4. e \in Escapes /\ After(e) = Quote
    BY <1>1, <1>12 DEF Escapes, After
  <2> QED BY <1>9, <1>10, <2>1, <2>2, <2>3, <2>4
<1>13. CASE e = Break
  <2>1. R1(Cons(e, s)) = Cons(Break, r)
    BY <1>1, <1>7, <1>13
  <2>2. R2(Cons(Break, r)) = Cons(Break, q)
    BY <1>1, <1>7, <1>10
  <2>3. R3(Cons(Break, q)) = Cons(Slash, Cons("n", p))
    BY <1>6, <1>10
  <2>4. e \in Escapes /\ After(e) = "n"
    BY <1>13 DEF Escapes, After
  <2> QED BY <1>9, <1>10, <2>1, <2>2, <2>3, <2>4
<1>14. CASE e \notin Escapes
  <2>0. e # Slash /\ e # Quote /\ e # Break
    BY <1>14 DEF Escapes
  <2>1. R1(Cons(e, s)) = Cons(e, r)
    BY <1>7, <2>0
  <2>2. R2(Cons(e, r)) = Cons(e, q)
    BY <1>7, <1>10, <2>0
  <2>3. R3(Cons(e, q)) = Cons(e, p)
    BY <1>7, <1>10, <2>0
  <2> QED BY <1>9, <1>10, <1>14, <2>1, <2>2, <2>3
<1> QED BY <1>11, <1>12, <1>13, <1>14 DEF Escapes

\* What follows the opening quote of a json string, and the rest of the line.
Closing(s, x) == jsonEscapeStr(s) \o Cons(Quote, x)

\* A character in front of a text is in front of what it is joined to.
LEMMA ConsJoins ==
  ASSUME NEW S, NEW a \in S, NEW x \in Seq(S), NEW y \in Seq(S), NEW z,
         Joins(x, y, z)
  PROVE  Joins(Cons(a, x), y, Cons(a, z))
BY ConsConcat DEF Joins

\* An escaped text, its closing quote and what follows are the concatenation
\* of the three.
LEMMA ClosingType ==
  ASSUME NEW S, Alphabet(S), NEW s \in Seq(S), NEW x \in Seq(S)
  PROVE  /\ Closing(s, x) \in Seq(S) /\ Closing(<<>>, x) = Cons(Quote, x)
         /\ Joins(jsonEscapeStr(s), Cons(Quote, x), Closing(s, x))
<1>1. Quote \in S
  BY DEF Alphabet, Escapes
<1>2. jsonEscapeStr(s) \in Seq(S) /\ Cons(Quote, x) \in Seq(S)
  BY <1>1, JsonType, ConsProperties
<1>3. Closing(<<>>, x) = Cons(Quote, x)
  BY <1>2, JsonEmpty DEF Closing
<1>4. Closing(s, x) \in Seq(S)
  BY <1>2, ConcatProperties DEF Closing
<1> QED BY <1>3, <1>4 DEF Closing, Joins

\* A character without an escape is printed as it is.
LEMMA ClosingPlain ==
  ASSUME NEW S, Alphabet(S), NEW e \in S, NEW s \in Seq(S), NEW x \in Seq(S),
         e \notin Escapes
  PROVE  Closing(Cons(e, s), x) = Cons(e, Closing(s, x))
<1> DEFINE y == Cons(Quote, x)
<1>1. Quote \in S
  BY DEF Alphabet, Escapes
<1>2. jsonEscapeStr(s) \in Seq(S) /\ y \in Seq(S) /\ Cons(e, s) \in Seq(S)
  BY <1>1, JsonType, ConsProperties
<1>3. /\ Joins(jsonEscapeStr(s), y, Closing(s, x))
      /\ Joins(jsonEscapeStr(Cons(e, s)), y, Closing(Cons(e, s), x))
  BY <1>2, ClosingType
<1>4. jsonEscapeStr(Cons(e, s)) = Cons(e, jsonEscapeStr(s))
  BY JsonCons
<1> HIDE DEF y
<1>5. Joins(Cons(e, jsonEscapeStr(s)), y, Cons(e, Closing(s, x)))
  BY <1>2, <1>3, ConsJoins
<1> QED BY <1>3, <1>4, <1>5 DEF Joins

\* A character with an escape is printed as a backslash and one more.
LEMMA ClosingEscaped ==
  ASSUME NEW S, Alphabet(S), NEW e \in Escapes, NEW s \in Seq(S), NEW x \in Seq(S)
  PROVE  /\ e \in S /\ Slash \in S /\ After(e) \in S
         /\ Closing(Cons(e, s), x) = Cons(Slash, Cons(After(e), Closing(s, x)))
<1> DEFINE y == Cons(Quote, x)
           j == jsonEscapeStr(s)
<1>1. Quote \in S /\ Slash \in S /\ After(e) \in S /\ e \in S
  BY DEF Alphabet, Escapes, After
<1>2. j \in Seq(S) /\ y \in Seq(S) /\ Cons(e, s) \in Seq(S)
  BY <1>1, JsonType, ConsProperties
<1>3. /\ Joins(j, y, Closing(s, x))
      /\ Joins(jsonEscapeStr(Cons(e, s)), y, Closing(Cons(e, s), x))
  BY <1>2, ClosingType
<1>4. jsonEscapeStr(Cons(e, s)) = Cons(Slash, Cons(After(e), j))
  BY <1>1, JsonCons
<1> HIDE DEF y, j
<1>5. Joins(Cons(After(e), j), y, Cons(After(e), Closing(s, x)))
  BY <1>1, <1>2, <1>3, ConsJoins
<1>6. Cons(After(e), j) \in Seq(S)
  BY <1>1, <1>2, ConsProperties
<1>7. Joins(Cons(Slash, Cons(After(e), j)), y, Cons(Slash, Cons(After(e), Closing(s, x))))
  BY <1>1, <1>2, <1>5, <1>6, ConsJoins
<1> QED BY <1>1, <1>3, <1>4, <1>7 DEF Joins

\* Two texts that differ are escaped differently from the first character on
\* in which they differ.
LEMMA ClosingFirst ==
  ASSUME NEW S, Alphabet(S), NEW a \in S, NEW b \in S,
         NEW x \in Seq(S), NEW y \in Seq(S),
         NEW s \in Seq(S), NEW u \in Seq(S)
  PROVE  Closing(Cons(a, s), x) = Closing(Cons(b, u), y) =>
           a = b /\ Closing(s, x) = Closing(u, y)
<1> DEFINE p == Closing(s, x)
           q == Closing(u, y)
<1>2. /\ p \in Seq(S) /\ q \in Seq(S)
      /\ a \in Escapes => Closing(Cons(a, s), x) = Cons(Slash, Cons(After(a), p))
      /\ a \notin Escapes => Closing(Cons(a, s), x) = Cons(a, p)
      /\ b \in Escapes => Closing(Cons(b, u), y) = Cons(Slash, Cons(After(b), q))
      /\ b \notin Escapes => Closing(Cons(b, u), y) = Cons(b, q)
  <2>1. p \in Seq(S) /\ q \in Seq(S)
    BY ClosingType
  <2>2. a \in Escapes => Closing(Cons(a, s), x) = Cons(Slash, Cons(After(a), p))
    BY ClosingEscaped
  <2>3. b \in Escapes => Closing(Cons(b, u), y) = Cons(Slash, Cons(After(b), q))
    BY ClosingEscaped
  <2>4. a \notin Escapes => Closing(Cons(a, s), x) = Cons(a, p)
    BY ClosingPlain
  <2>5. b \notin Escapes => Closing(Cons(b, u), y) = Cons(b, q)
    BY ClosingPlain
  <2> QED BY <2>1, <2>2, <2>3, <2>4, <2>5
<1> SUFFICES ASSUME Closing(Cons(a, s), x) = Closing(Cons(b, u), y)
             PROVE  a = b /\ p = q
  OBVIOUS
<1>1. /\ Quote \in S /\ Slash \in S /\ After(a) \in S /\ After(b) \in S
      /\ a \notin Escapes => a # Slash
      /\ b \notin Escapes => b # Slash
  BY DEF Alphabet, Escapes, After
<1> HIDE DEF p, q
<1>3. Cons(After(a), p) \in Seq(S) /\ Cons(After(b), q) \in Seq(S)
  BY <1>1, <1>2, ConsProperties
<1>4. CASE a \in Escapes /\ b \in Escapes
  <2>1. Cons(Slash, Cons(After(a), p)) = Cons(Slash, Cons(After(b), q))
    BY <1>2, <1>4
  <2>2. Cons(After(a), p) = Cons(After(b), q)
    BY <1>1, <1>3, <2>1, ConsInjective
  <2>3. After(a) = After(b) /\ p = q
    BY <1>1, <1>2, <2>2, ConsInjective
  <2>4. a = b
    BY <1>4, <2>3 DEF After, Escapes, Slash, Quote, Break
  <2> QED BY <2>3, <2>4
<1>5. CASE a \in Escapes /\ b \notin Escapes
  <2>1. Cons(Slash, Cons(After(a), p)) = Cons(b, q)
    BY <1>2, <1>5
  <2>2. Slash = b
    BY <1>1, <1>2, <1>3, <2>1, ConsInjective
  <2> QED BY <1>1, <1>5, <2>2
<1>6. CASE a \notin Escapes /\ b \in Escapes
  <2>1. Cons(a, p) = Cons(Slash, Cons(After(b), q))
    BY <1>2, <1>6
  <2>2. a = Slash
    BY <1>1, <1>2, <1>3, <2>1, ConsInjective
  <2> QED BY <1>1, <1>6, <2>2
<1>7. CASE a \notin Escapes /\ b \notin Escapes
  <2>1. Cons(a, p) = Cons(b, q)
    BY <1>2, <1>7
  <2>2. a = b /\ p = q
    BY <1>2, <2>1, ConsInjective
  <2> QED BY <2>2
<1> QED BY <1>4, <1>5, <1>6, <1>7

\* An escaped character never begins with a quote, so it is not mistaken for
\* the end of the string.
LEMMA ClosingStarts ==
  ASSUME NEW S, Alphabet(S), NEW e \in S, NEW s \in Seq(S),
         NEW x \in Seq(S), NEW y \in Seq(S)
  PROVE  Closing(Cons(e, s), x) # Cons(Quote, y)
<1>1. /\ Quote \in S /\ Slash \in S /\ After(e) \in S /\ Slash # Quote
      /\ e \notin Escapes => e # Quote
  BY DEF Alphabet, Escapes, After, Slash, Quote, Break
<1>2. /\ Closing(s, x) \in Seq(S)
      /\ e \in Escapes =>
           Closing(Cons(e, s), x) = Cons(Slash, Cons(After(e), Closing(s, x)))
      /\ e \notin Escapes => Closing(Cons(e, s), x) = Cons(e, Closing(s, x))
  BY ClosingType, ClosingPlain, ClosingEscaped
<1>3. Cons(After(e), Closing(s, x)) \in Seq(S)
  BY <1>1, <1>2, ConsProperties
<1>4. Cons(Quote, y)[1] = Quote /\ Cons(e, Closing(s, x))[1] = e
      /\ Cons(Slash, Cons(After(e), Closing(s, x)))[1] = Slash
  BY <1>1, <1>2, <1>3, ConsProperties
<1> QED BY <1>1, <1>2, <1>4

\* A reader of json finds the end of a string, and the text it was made of.
LEMMA ClosingInjective ==
  ASSUME NEW S, Alphabet(S)
  PROVE  \A s \in Seq(S) : \A u, x, y \in Seq(S) :
           Closing(s, x) = Closing(u, y) => s = u /\ x = y
<1> DEFINE T == {s \in Seq(S) : \A u, x, y \in Seq(S) :
                   Closing(s, x) = Closing(u, y) => s = u /\ x = y}
<1>0. Quote \in S
  BY DEF Alphabet, Escapes
<1>1. <<>> \in T
  <2>1. ASSUME NEW u \in Seq(S), NEW x \in Seq(S), NEW y \in Seq(S),
               Closing(<<>>, x) = Closing(u, y)
        PROVE  <<>> = u /\ x = y
    <3>1. Closing(<<>>, x) = Cons(Quote, x) /\ Closing(<<>>, y) = Cons(Quote, y)
      <4>1. \A z \in Seq(S) : Closing(<<>>, z) = Cons(Quote, z)
        BY <1>0, ClosingType
      <4> QED BY <4>1
    <3>2. ASSUME u # <<>> PROVE FALSE
      <4>1. PICK a \in S, v \in Seq(S) : u = Cons(a, v)
        BY <3>2, Uncons
      <4>2. Closing(Cons(a, v), y) # Cons(Quote, x)
        BY ClosingStarts
      <4> QED BY <2>1, <3>1, <4>1, <4>2
    <3>3. Cons(Quote, x) = Cons(Quote, y)
      BY <2>1, <3>1, <3>2
    <3>4. x = y
      BY <1>0, <3>3, ConsInjective
    <3> QED BY <3>2, <3>4
  <2> QED BY <2>1
<1>2. ASSUME NEW s \in Seq(S), NEW e \in S, s \in T PROVE Cons(e, s) \in T
  <2>0. Cons(e, s) \in Seq(S)
    BY ConsProperties
  <2>1. ASSUME NEW u \in Seq(S), NEW x \in Seq(S), NEW y \in Seq(S),
               Closing(Cons(e, s), x) = Closing(u, y)
        PROVE  Cons(e, s) = u /\ x = y
    <3>1. ASSUME u = <<>> PROVE FALSE
      <4>1. Closing(<<>>, y) = Cons(Quote, y)
        BY <1>0, ClosingType
      <4>2. Closing(Cons(e, s), x) # Cons(Quote, y)
        BY ClosingStarts
      <4> QED BY <2>1, <3>1, <4>1, <4>2
    <3>2. PICK a \in S, v \in Seq(S) : u = Cons(a, v)
      BY <3>1, Uncons
    <3>3. e = a /\ Closing(s, x) = Closing(v, y)
      BY <2>1, <3>2, ClosingFirst
    <3>4. s = v /\ x = y
      BY <1>2, <3>3
    <3> QED BY <3>2, <3>3, <3>4
  <2> QED BY <2>0, <2>1
<1>3. \A s \in Seq(S), e \in S : s \in T => Cons(e, s) \in T
  BY <1>2
<1> HIDE DEF T
<1>4. \A s \in Seq(S) : s \in T
  BY <1>1, <1>3, Prepending
<1> QED BY <1>4 DEF T
-----------------------------------------------------------------------------
(***************************************************************************)
(* The values of a json row.                                               *)
(***************************************************************************)
Delimiters == {Comma, "}"}

\* w is the text t and what follows it, which begins with a delimiter.
Splits(S, w, t, r) ==
  /\ r \in Seq(S) /\ r # <<>> /\ r[1] \in Delimiters
  /\ Joins(t, r, w)

\* A number or truth value, or a json string.
Bare(t) == ~HasAny(t, Delimiters \cup {Quote})
Readable(S, t) == Bare(t) \/ \E s \in Seq(S) : t = JsonString(s)

\* The rest of a bare text is bare: it has neither quotes nor delimiters.
LEMMA BareCons ==
  ASSUME NEW S, NEW a \in S, NEW v \in Seq(S), Bare(Cons(a, v))
  PROVE  Bare(v) /\ a \notin Delimiters /\ a # Quote
<1>1. /\ Cons(a, v) \in Seq(S) /\ Len(Cons(a, v)) = Len(v) + 1
      /\ Cons(a, v)[1] = a /\ Follows(Cons(a, v), v)
  BY ConsProperties
<1>2. \A i \in 1 .. Len(v) + 1 : Cons(a, v)[i] \notin Delimiters \cup {Quote}
  BY <1>1 DEF Bare, HasAny
<1>3. a \notin Delimiters \cup {Quote}
  BY <1>1, <1>2
<1>4. ASSUME NEW i \in 1 .. Len(v) PROVE v[i] \notin Delimiters \cup {Quote}
  <2>1. i + 1 \in 1 .. Len(v) + 1 /\ Cons(a, v)[i + 1] = v[i]
    BY <1>1 DEF Follows
  <2> QED BY <1>2, <2>1
<1> QED BY <1>3, <1>4 DEF Bare, HasAny

\* How what is printed begins, by the text at its front.
LEMMA SplitsEmpty ==
  ASSUME NEW S, NEW w, NEW r, Splits(S, w, <<>>, r)
  PROVE  w = r /\ w \in Seq(S) /\ w # <<>> /\ w[1] \in Delimiters
<1>1. <<>> \o r = r
  BY ConcatEmptySeq DEF Splits
<1> QED BY <1>1 DEF Splits, Joins

\* A text that begins with a piece begins with that piece's first character,
\* and the rest with the rest of the piece.
LEMMA SplitsCons ==
  ASSUME NEW S, NEW a \in S, NEW v \in Seq(S), NEW w, NEW r,
         Splits(S, w, Cons(a, v), r)
  PROVE  \E z \in Seq(S) : w = Cons(a, z) /\ Splits(S, z, v, r)
<1> DEFINE z == v \o r
<1>1. r \in Seq(S)
  BY DEF Splits
<1>2. z \in Seq(S) /\ Joins(v, r, z)
  BY <1>1, ConcatProperties DEF Joins
<1> HIDE DEF z
<1>3. Joins(Cons(a, v), r, Cons(a, z))
  BY <1>1, <1>2, ConsJoins
<1>4. w = Cons(a, z)
  BY <1>3 DEF Splits, Joins
<1> QED BY <1>2, <1>4 DEF Splits

\* A bare text ends where the first delimiter is, so it is known from what is
\* printed.
LEMMA BareEnds ==
  ASSUME NEW S
  PROVE  \A t \in Seq(S) : \A u, w \in Seq(S) : \A r, q :
           Bare(t) /\ Bare(u) /\ Splits(S, w, t, r) /\ Splits(S, w, u, q)
             => t = u /\ r = q
<1> DEFINE T == {t \in Seq(S) : \A u, w \in Seq(S) : \A r, q :
                   Bare(t) /\ Bare(u) /\ Splits(S, w, t, r) /\ Splits(S, w, u, q)
                     => t = u /\ r = q}
<1>1. <<>> \in T
  <2>1. ASSUME NEW u \in Seq(S), NEW w \in Seq(S), NEW r, NEW q, Bare(u),
               Splits(S, w, <<>>, r), Splits(S, w, u, q)
        PROVE  <<>> = u /\ r = q
    <3>1. w = r /\ w[1] \in Delimiters
      BY <2>1, SplitsEmpty
    <3>2. ASSUME u # <<>> PROVE FALSE
      <4>1. PICK a \in S, v \in Seq(S) : u = Cons(a, v)
        BY <3>2, Uncons
      <4>2. PICK z \in Seq(S) : w = Cons(a, z)
        BY <2>1, <4>1, SplitsCons
      <4>3. w[1] = a
        BY <4>2, ConsProperties
      <4>4. a \notin Delimiters
        BY <2>1, <4>1, BareCons
      <4> QED BY <3>1, <4>3, <4>4
    <3>3. w = q
      BY <2>1, <3>2, SplitsEmpty
    <3> QED BY <3>1, <3>2, <3>3
  <2>2. <<>> \in Seq(S)
    OBVIOUS
  <2> QED BY <2>1, <2>2
<1>2. ASSUME NEW t \in Seq(S), NEW e \in S, t \in T PROVE Cons(e, t) \in T
  <2>0. Cons(e, t) \in Seq(S)
    BY ConsProperties
  <2>1. ASSUME NEW u \in Seq(S), NEW w \in Seq(S), NEW r, NEW q, Bare(Cons(e, t)),
               Bare(u), Splits(S, w, Cons(e, t), r), Splits(S, w, u, q)
        PROVE  Cons(e, t) = u /\ r = q
    <3>1. PICK z \in Seq(S) : w = Cons(e, z) /\ Splits(S, z, t, r)
      BY <2>1, SplitsCons
    <3>2. Bare(t) /\ e \notin Delimiters
      BY <2>1, BareCons
    <3>3. w[1] = e
      BY <3>1, ConsProperties
    <3>4. u # <<>>
      <4>1. ASSUME u = <<>> PROVE FALSE
        <5>1. w[1] \in Delimiters
          BY <2>1, <4>1, SplitsEmpty
        <5> QED BY <3>2, <3>3, <5>1
      <4> QED BY <4>1
    <3>5. PICK a \in S, v \in Seq(S) : u = Cons(a, v)
      BY <3>4, Uncons
    <3>6. PICK y \in Seq(S) : w = Cons(a, y) /\ Splits(S, y, v, q)
      BY <2>1, <3>5, SplitsCons
    <3>7. Bare(v)
      BY <2>1, <3>5, BareCons
    <3>8. a = e /\ y = z
      <4>1. Cons(a, y) = Cons(e, z)
        BY <3>1, <3>6
      <4> QED BY <4>1, ConsInjective
    <3>9. t = v /\ r = q
      BY <1>2, <3>1, <3>2, <3>6, <3>7, <3>8
    <3> QED BY <3>5, <3>8, <3>9
  <2> QED BY <2>0, <2>1
<1>3. \A t \in Seq(S), e \in S : t \in T => Cons(e, t) \in T
  BY <1>2
<1> HIDE DEF T
<1>4. \A t \in Seq(S) : t \in T
  BY <1>1, <1>3, Prepending
<1> QED BY <1>4 DEF T

\* What begins with a json string is a quote, the escaped text, the closing
\* quote and a rest.
LEMMA StringSplits ==
  ASSUME NEW S, Alphabet(S), NEW s \in Seq(S), NEW w, NEW r,
         Splits(S, w, JsonString(s), r)
  PROVE  r \in Seq(S) /\ Closing(s, r) \in Seq(S) /\ w = Cons(Quote, Closing(s, r))
<1> DEFINE j == jsonEscapeStr(s)
<1>1. Quote \in S /\ r \in Seq(S) /\ <<Quote>> \in Seq(S)
  BY DEF Alphabet, Escapes, Splits
<1>2. j \in Seq(S) /\ Closing(s, r) \in Seq(S) /\ Cons(Quote, r) \in Seq(S)
  BY <1>1, JsonType, ClosingType, ConsProperties
<1>3. w = (<<Quote>> \o j \o <<Quote>>) \o r
  BY DEF Splits, Joins, JsonString
<1> HIDE DEF j
<1>4. <<Quote>> \o j \in Seq(S) /\ <<Quote>> \o r \in Seq(S)
  BY <1>1, <1>2, ConcatProperties
<1>5. (<<Quote>> \o j \o <<Quote>>) \o r = (<<Quote>> \o j) \o (<<Quote>> \o r)
  BY <1>1, <1>4, ConcatAssociative
<1>6. (<<Quote>> \o j) \o (<<Quote>> \o r) = <<Quote>> \o (j \o (<<Quote>> \o r))
  BY <1>1, <1>2, <1>4, ConcatAssociative
<1>7. Closing(s, r) = j \o (<<Quote>> \o r)
  BY DEF Closing, Cons, j
<1>8. w = <<Quote>> \o Closing(s, r)
  BY <1>3, <1>5, <1>6, <1>7
<1> QED BY <1>1, <1>2, <1>8 DEF Cons

\* No text begins with a bare text and with a json string: the first
\* character tells which.
LEMMA BareStarts ==
  ASSUME NEW S, Alphabet(S), NEW t \in Seq(S), Bare(t), NEW w, NEW r, Splits(S, w, t, r),
         NEW s \in Seq(S), NEW q, Splits(S, w, JsonString(s), q)
  PROVE  FALSE
<1>0. Quote \in S /\ Quote \notin Delimiters
  BY DEF Alphabet, Escapes, Delimiters, Quote, Comma
<1>1. w[1] = Quote
  <2>1. Closing(s, q) \in Seq(S) /\ w = Cons(Quote, Closing(s, q))
    BY StringSplits
  <2> QED BY <1>0, <2>1, ConsProperties
<1>2. CASE t = <<>>
  BY <1>0, <1>1, <1>2, SplitsEmpty
<1>3. CASE t # <<>>
  <2>1. PICK a \in S, v \in Seq(S) : t = Cons(a, v)
    BY <1>3, Uncons
  <2>2. PICK z \in Seq(S) : w = Cons(a, z)
    BY <2>1, SplitsCons
  <2>3. w[1] = a
    BY <2>2, ConsProperties
  <2> QED BY <1>1, <2>1, <2>3, BareCons
<1> QED BY <1>2, <1>3

\* A reader of json finds the end of a value and its text.
LEMMA TextEnds ==
  ASSUME NEW S, Alphabet(S), NEW w \in Seq(S),
         NEW t \in Seq(S), NEW r, Readable(S, t), Splits(S, w, t, r),
         NEW u \in Seq(S), NEW q, Readable(S, u), Splits(S, w, u, q)
  PROVE  t = u /\ r = q
<1>1. CASE Bare(t) /\ Bare(u)
  BY <1>1, BareEnds
<1>2. CASE ~Bare(t) /\ ~Bare(u)
  <2>1. PICK s \in Seq(S) : t = JsonString(s)
    BY <1>2 DEF Readable
  <2>2. PICK v \in Seq(S) : u = JsonString(v)
    BY <1>2 DEF Readable
  <2>3. r \in Seq(S) /\ Closing(s, r) \in Seq(S) /\ w = Cons(Quote, Closing(s, r))
    BY <2>1, StringSplits
  <2>4. q \in Seq(S) /\ Closing(v, q) \in Seq(S) /\ w = Cons(Quote, Closing(v, q))
    BY <2>2, StringSplits
  <2>5. Cons(Quote, Closing(s, r)) = Cons(Quote, Closing(v, q)) /\ Quote \in S
    BY <2>3, <2>4 DEF Alphabet, Escapes
  <2>6. Closing(s, r) = Closing(v, q)
    BY <2>3, <2>4, <2>5, ConsInjective
  <2>7. s = v /\ r = q
    BY <2>3, <2>4, <2>6, ClosingInjective
  <2> QED BY <2>1, <2>2, <2>7
<1>3. CASE Bare(t) /\ ~Bare(u)
  <2>1. PICK v \in Seq(S) : u = JsonString(v)
    BY <1>3 DEF Readable
  <2>2. Splits(S, w, JsonString(v), q)
    BY <2>1
  <2> QED BY <1>3, <2>2, BareStarts
<1>4. CASE ~Bare(t) /\ Bare(u)
  <2>1. PICK v \in Seq(S) : t = JsonString(v)
    BY <1>4 DEF Readable
  <2>2. Splits(S, w, JsonString(v), r)
    BY <2>1
  <2> QED BY <1>4, <2>2, BareStarts
<1> QED BY <1>1, <1>2, <1>3, <1>4
-----------------------------------------------------------------------------
(***************************************************************************)
(* The lines.                                                              *)
(***************************************************************************)
FieldsOver(S) == [before : Seq(S), text : Seq(S), after : Seq(S)]

Piece(f) == f.before \o f.text \o f.after
Pieces(line) == [i \in DOMAIN line |-> Piece(line[i])]

\* A printed field keeps to the alphabet.
LEMMA PieceType ==
  ASSUME NEW S, NEW f \in FieldsOver(S)
  PROVE  Piece(f) \in Seq(S)
<1>1. f.before \in Seq(S) /\ f.text \in Seq(S) /\ f.after \in Seq(S)
  BY DEF FieldsOver
<1>2. f.before \o f.text \in Seq(S)
  BY <1>1, ConcatProperties
<1>3. (f.before \o f.text) \o f.after \in Seq(S)
  BY <1>1, <1>2, ConcatProperties
<1> QED BY <1>3 DEF Piece

\* One piece for each field of a line, in order.
LEMMA PiecesType ==
  ASSUME NEW S, NEW line \in Seq(FieldsOver(S))
  PROVE  /\ Pieces(line) \in Seq(Seq(S)) /\ Len(Pieces(line)) = Len(line)
         /\ \A i \in 1 .. Len(line) : Pieces(line)[i] = Piece(line[i])
<1>1. \A i \in 1 .. Len(line) : Piece(line[i]) \in Seq(S)
  BY PieceType
<1> QED BY <1>1 DEF Pieces

\* A line is printed field by field.
LEMMA PrintedPieces ==
  ASSUME NEW line
  PROVE  Printed(line) = FlattenSeq(Pieces(line))
BY DEF Printed, Pieces, Piece

\* A line without fields prints nothing.
LEMMA PrintedEmpty == Printed(<<>>) = <<>>
<1>1. Pieces(<<>>) = <<>>
  BY DEF Pieces
<1> QED BY <1>1, PrintedPieces, FlattenEmpty

\* A printed line keeps to the alphabet.
LEMMA PrintedType ==
  ASSUME NEW S, NEW line \in Seq(FieldsOver(S))
  PROVE  Printed(line) \in Seq(S)
<1>1. Pieces(line) \in Seq(Seq(S))
  BY PiecesType
<1>2. FlattenSeq(Pieces(line)) \in Seq(S)
  BY <1>1, FlattenType
<1> QED BY <1>2, PrintedPieces

\* A line is printed field by field.
LEMMA PrintedCons ==
  ASSUME NEW S, NEW f \in FieldsOver(S), NEW line \in Seq(FieldsOver(S))
  PROVE  Joins(Piece(f), Printed(line), Printed(Cons(f, line)))
<1> DEFINE r == Cons(f, line)
           q == Pieces(line)
           p == Pieces(r)
           x == Piece(f)
           u == Cons(x, q)
<1>1. /\ r \in Seq(FieldsOver(S)) /\ Len(r) = Len(line) + 1 /\ Len(line) \in Nat
      /\ r[1] = f /\ Follows(r, line)
  BY ConsProperties
<1> HIDE DEF r
<1>2. /\ q \in Seq(Seq(S)) /\ p \in Seq(Seq(S)) /\ x \in Seq(S)
      /\ Len(q) = Len(line) /\ Len(p) = Len(r)
      /\ \A i \in 1 .. Len(line) : q[i] = Piece(line[i])
      /\ \A i \in 1 .. Len(r) : p[i] = Piece(r[i])
  BY <1>1, PiecesType, PieceType
<1> HIDE DEF q, p, x
<1>3. /\ u \in Seq(Seq(S)) /\ Len(u) = Len(q) + 1 /\ u[1] = x /\ Follows(u, q)
  BY <1>2, ConsProperties
<1> HIDE DEF u
<1>4. p = u
  <2>1. Len(p) = Len(u)
    BY <1>1, <1>2, <1>3
  <2>2. ASSUME NEW i \in 1 .. Len(p) PROVE p[i] = u[i]
    <3>2. p[i] = Piece(r[i])
      BY <1>2
    <3>3. CASE i = 1
      BY <1>1, <1>3, <3>2, <3>3 DEF x
    <3>4. CASE i # 1
      <4>1. PICK k \in 1 .. Len(line) : i = k + 1
        <5>1. i - 1 \in 1 .. Len(line) /\ i = (i - 1) + 1
          BY <1>1, <1>2, <3>4
        <5> QED BY <5>1
      <4>2. r[k + 1] = line[k] /\ u[k + 1] = q[k] /\ q[k] = Piece(line[k])
        BY <1>1, <1>2, <1>3 DEF Follows
      <4> QED BY <3>2, <4>1, <4>2
    <3> QED BY <3>3, <3>4
  <2>3. \A i \in 1 .. Len(p) : p[i] = u[i]
    BY <2>2
  <2>4. p \in Seq(Seq(S)) /\ u \in Seq(Seq(S))
    BY <1>2, <1>3
  <2> QED BY <2>1, <2>3, <2>4, SeqEqual
<1>5. FlattenSeq(Cons(x, q)) = x \o FlattenSeq(q)
  BY <1>2, FlattenCons
<1>6. FlattenSeq(p) = x \o FlattenSeq(q)
  BY <1>4, <1>5 DEF u
<1>7. Printed(r) = FlattenSeq(p) /\ Printed(line) = FlattenSeq(q)
  BY PrintedPieces DEF p, q
<1> QED BY <1>6, <1>7 DEF Joins, x, r

\* The values of a line, and what stands between them: a value is followed by
\* a delimiter, the one its field ends with or the one the next begins with.
Delimited(S, line) ==
  \A i \in 1 .. Len(line) :
    /\ Readable(S, line[i].text)
    /\ i = Len(line) => line[i].after # <<>> /\ line[i].after[1] \in Delimiters
    /\ i < Len(line) => /\ line[i].after = <<>> /\ line[i + 1].before # <<>>
                        /\ line[i + 1].before[1] \in Delimiters

\* Lines that differ in the texts of their fields only.
SameFrame(f, g) ==
  /\ Len(f) = Len(g)
  /\ \A i \in 1 .. Len(f) : f[i].before = g[i].before /\ f[i].after = g[i].after

SameTexts(f, g) == \A i \in 1 .. Len(f) : f[i].text = g[i].text

\* A line whose fields are delimited stays so without its first field.
LEMMA DelimitedRest ==
  ASSUME NEW S, NEW f \in FieldsOver(S), NEW line \in Seq(FieldsOver(S)),
         Delimited(S, Cons(f, line))
  PROVE  /\ Delimited(S, line) /\ Readable(S, f.text)
         /\ line = <<>> => f.after # <<>> /\ f.after[1] \in Delimiters
         /\ line # <<>> => /\ f.after = <<>> /\ line[1].before # <<>>
                           /\ line[1].before[1] \in Delimiters
<1> DEFINE r == Cons(f, line)
<1>1. /\ r \in Seq(FieldsOver(S)) /\ Len(r) = Len(line) + 1 /\ Len(line) \in Nat
      /\ r[1] = f /\ Follows(r, line) /\ Delimited(S, r)
  BY ConsProperties
<1> HIDE DEF r
<1>2. ASSUME NEW i \in 1 .. Len(line)
      PROVE  /\ Readable(S, line[i].text)
             /\ i = Len(line) => line[i].after # <<>> /\ line[i].after[1] \in Delimiters
             /\ i < Len(line) => /\ line[i].after = <<>> /\ line[i + 1].before # <<>>
                                 /\ line[i + 1].before[1] \in Delimiters
  <2>1. /\ i + 1 \in 1 .. Len(r) /\ r[i + 1] = line[i]
        /\ i = Len(line) <=> i + 1 = Len(r)
        /\ i < Len(line) <=> i + 1 < Len(r)
    BY <1>1 DEF Follows
  <2>2. i < Len(line) => r[(i + 1) + 1] = line[i + 1]
    BY <1>1 DEF Follows
  <2>3. /\ Readable(S, r[i + 1].text)
        /\ i + 1 = Len(r) => r[i + 1].after # <<>> /\ r[i + 1].after[1] \in Delimiters
        /\ i + 1 < Len(r) => /\ r[i + 1].after = <<>> /\ r[(i + 1) + 1].before # <<>>
                             /\ r[(i + 1) + 1].before[1] \in Delimiters
    BY <1>1, <2>1 DEF Delimited
  <2> QED BY <2>1, <2>2, <2>3
<1>3. Delimited(S, line)
  BY <1>2 DEF Delimited
<1>4. /\ 1 \in 1 .. Len(r)
      /\ line = <<>> => 1 = Len(r)
      /\ line # <<>> => 1 < Len(r) /\ r[1 + 1] = line[1]
  BY <1>1 DEF Follows
<1> QED BY <1>1, <1>3, <1>4 DEF Delimited

\* Lines with the same frame, and lines with the same texts, are so field by
\* field.
LEMMA FrameRest ==
  ASSUME NEW S, NEW f \in FieldsOver(S), NEW line \in Seq(FieldsOver(S)),
         NEW g \in FieldsOver(S), NEW other \in Seq(FieldsOver(S))
  PROVE  /\ SameFrame(Cons(f, line), Cons(g, other)) =>
              /\ SameFrame(line, other) /\ f.before = g.before /\ f.after = g.after
         /\ f.text = g.text /\ SameTexts(line, other) /\ Len(line) = Len(other)
              => SameTexts(Cons(f, line), Cons(g, other))
<1> DEFINE r == Cons(f, line)
           p == Cons(g, other)
<1>1. /\ Len(r) = Len(line) + 1 /\ Len(line) \in Nat /\ r[1] = f /\ Follows(r, line)
  BY ConsProperties
<1>2. /\ Len(p) = Len(other) + 1 /\ Len(other) \in Nat /\ p[1] = g /\ Follows(p, other)
  BY ConsProperties
<1> HIDE DEF r, p
<1>3. ASSUME SameFrame(r, p)
      PROVE  SameFrame(line, other) /\ f.before = g.before /\ f.after = g.after
  <2>1. Len(line) = Len(other)
    BY <1>1, <1>2, <1>3 DEF SameFrame
  <2>2. ASSUME NEW i \in 1 .. Len(line)
        PROVE  line[i].before = other[i].before /\ line[i].after = other[i].after
    <3>1. i + 1 \in 1 .. Len(r) /\ r[i + 1] = line[i] /\ p[i + 1] = other[i]
      BY <1>1, <1>2, <2>1 DEF Follows
    <3> QED BY <1>3, <3>1 DEF SameFrame
  <2>3. f.before = g.before /\ f.after = g.after
    <3>1. 1 \in 1 .. Len(r)
      BY <1>1
    <3> QED BY <1>1, <1>2, <1>3, <3>1 DEF SameFrame
  <2> QED BY <2>1, <2>2, <2>3 DEF SameFrame
<1>4. ASSUME f.text = g.text, SameTexts(line, other), Len(line) = Len(other)
      PROVE  SameTexts(r, p)
  <2>1. ASSUME NEW i \in 1 .. Len(r) PROVE r[i].text = p[i].text
    <3>1. CASE i = 1
      BY <1>1, <1>2, <1>4, <3>1
    <3>2. CASE i # 1
      <4>1. PICK k \in 1 .. Len(line) : i = k + 1
        <5>1. i - 1 \in 1 .. Len(line) /\ i = (i - 1) + 1
          BY <1>1, <3>2
        <5> QED BY <5>1
      <4>2. r[k + 1] = line[k] /\ p[k + 1] = other[k]
        BY <1>1, <1>2, <1>4, <4>1 DEF Follows
      <4> QED BY <1>4, <4>1, <4>2 DEF SameTexts
    <3> QED BY <3>1, <3>2
  <2> QED BY <2>1 DEF SameTexts
<1> QED BY <1>3, <1>4 DEF r, p

\* What follows the first value of a delimited line begins with a delimiter.
LEMMA FirstSplits ==
  ASSUME NEW S, NEW f \in FieldsOver(S), NEW line \in Seq(FieldsOver(S)),
         Delimited(S, Cons(f, line))
  PROVE  \E w, r \in Seq(S) :
           /\ Joins(f.before, w, Printed(Cons(f, line)))
           /\ Splits(S, w, f.text, r)
           /\ Joins(f.after, Printed(line), r)
<1> DEFINE b == f.before
           t == f.text
           a == f.after
           v == Printed(line)
           r == a \o v
           w == t \o r
<1>1. b \in Seq(S) /\ t \in Seq(S) /\ a \in Seq(S) /\ v \in Seq(S)
  BY PrintedType DEF FieldsOver
<1>2. Printed(Cons(f, line)) = (b \o t \o a) \o v
  BY PrintedCons DEF Joins, Piece
<1>3. /\ line = <<>> => a # <<>> /\ a[1] \in Delimiters
      /\ line # <<>> => /\ a = <<>> /\ line[1].before # <<>>
                        /\ line[1].before[1] \in Delimiters
  BY DelimitedRest
<1>4. line # <<>> => v # <<>> /\ v[1] \in Delimiters
  <2> SUFFICES ASSUME line # <<>> PROVE v # <<>> /\ v[1] \in Delimiters
    OBVIOUS
  <2>1. PICK g \in FieldsOver(S), rest \in Seq(FieldsOver(S)) : line = Cons(g, rest)
    BY Uncons
  <2>2. line[1] = g
    BY <2>1, ConsProperties
  <2>3. v = Piece(g) \o Printed(rest)
    BY <2>1, PrintedCons DEF Joins
  <2>4. g.before \in Seq(S) /\ g.text \in Seq(S) /\ g.after \in Seq(S)
        /\ Piece(g) \in Seq(S) /\ Printed(rest) \in Seq(S)
    BY PieceType, PrintedType DEF FieldsOver
  <2>5. g.before # <<>> /\ g.before[1] \in Delimiters
    BY <1>3, <2>2
  <2>6. /\ g.before \o g.text # <<>> /\ (g.before \o g.text)[1] = g.before[1]
        /\ g.before \o g.text \in Seq(S)
    BY <2>4, <2>5, FirstOfConcat, ConcatProperties
  <2>7. Piece(g) # <<>> /\ Piece(g)[1] = g.before[1]
    BY <2>4, <2>6, FirstOfConcat DEF Piece
  <2> HIDE DEF v
  <2>8. v # <<>> /\ v[1] = Piece(g)[1]
    BY <2>3, <2>4, <2>7, FirstOfConcat
  <2> QED BY <2>5, <2>7, <2>8
<1> HIDE DEF b, t, a, v
<1>5. r \in Seq(S) /\ r # <<>> /\ r[1] \in Delimiters
  <2>1. r \in Seq(S)
    BY <1>1, ConcatProperties
  <2>2. CASE line = <<>>
    BY <1>1, <1>3, <2>1, <2>2, FirstOfConcat
  <2>3. CASE line # <<>>
    <3>1. <<>> \o v = v
      BY <1>1, ConcatEmptySeq
    <3> QED BY <1>3, <1>4, <2>1, <2>3, <3>1
  <2> QED BY <2>2, <2>3
<1>6. b \o w = (b \o t \o a) \o v
  <2>1. b \o t \in Seq(S)
    BY <1>1, ConcatProperties
  <2>2. ((b \o t) \o a) \o v = (b \o t) \o r
    BY <1>1, <2>1, ConcatAssociative
  <2>3. (b \o t) \o r = b \o w
    <3> HIDE DEF r
    <3> QED BY <1>1, <1>5, ConcatAssociative
  <2> QED BY <2>2, <2>3
<1>7. w \in Seq(S)
  BY <1>1, <1>5, ConcatProperties
<1>8. Joins(b, w, Printed(Cons(f, line))) /\ Splits(S, w, t, r) /\ Joins(a, v, r)
  BY <1>2, <1>5, <1>6 DEF Joins, Splits
<1> QED BY <1>5, <1>7, <1>8 DEF b, t, a, v

\* What is joined to a text is known from the text and the result.
LEMMA JoinsCancel ==
  ASSUME NEW S, NEW x \in Seq(S), NEW y \in Seq(S), NEW z \in Seq(S),
         NEW w, Joins(x, y, w), Joins(x, z, w)
  PROVE  y = z
<1>1. x \o y = x \o z
  BY DEF Joins
<1> QED BY <1>1, ConcatSimplifications

\* Lines of the same frame that are printed alike hold the same texts.
LEMMA LineReadable ==
  ASSUME NEW S, Alphabet(S)
  PROVE  \A f \in Seq(FieldsOver(S)) : \A g \in Seq(FieldsOver(S)) :
           Delimited(S, f) /\ Delimited(S, g) /\ SameFrame(f, g)
           /\ Printed(f) = Printed(g) => SameTexts(f, g)
<1> DEFINE F == FieldsOver(S)
           T == {f \in Seq(F) : \A g \in Seq(F) :
                   Delimited(S, f) /\ Delimited(S, g) /\ SameFrame(f, g)
                   /\ Printed(f) = Printed(g) => SameTexts(f, g)}
<1>1. <<>> \in T
  BY DEF SameTexts
<1>2. ASSUME NEW f \in Seq(F), NEW x \in F, f \in T PROVE Cons(x, f) \in T
  <2>0. Cons(x, f) \in Seq(F)
    BY ConsProperties
  <2>1. ASSUME NEW h \in Seq(F), Delimited(S, Cons(x, f)), Delimited(S, h),
               SameFrame(Cons(x, f), h), Printed(Cons(x, f)) = Printed(h)
        PROVE  SameTexts(Cons(x, f), h)
    <3>1. h # <<>>
      <4>1. Len(h) = Len(f) + 1 /\ Len(f) \in Nat
        BY <2>1, ConsProperties DEF SameFrame
      <4> QED BY <4>1
    <3>2. PICK y \in F, g \in Seq(F) : h = Cons(y, g)
      BY <3>1, Uncons
    <3>3. SameFrame(f, g) /\ x.before = y.before /\ x.after = y.after
      BY <2>1, <3>2, FrameRest
    <3>4. PICK w, r \in Seq(S) :
            /\ Joins(x.before, w, Printed(Cons(x, f)))
            /\ Splits(S, w, x.text, r)
            /\ Joins(x.after, Printed(f), r)
      BY <2>1, FirstSplits
    <3>5. PICK z, q \in Seq(S) :
            /\ Joins(y.before, z, Printed(Cons(y, g)))
            /\ Splits(S, z, y.text, q)
            /\ Joins(y.after, Printed(g), q)
      BY <2>1, <3>2, FirstSplits
    <3>6. /\ x.before \in Seq(S) /\ x.text \in Seq(S) /\ y.text \in Seq(S)
          /\ x.after \in Seq(S) /\ Printed(f) \in Seq(S) /\ Printed(g) \in Seq(S)
      BY PrintedType DEF FieldsOver
    <3>7. w = z
      <4>1. Joins(x.before, z, Printed(Cons(x, f)))
        BY <2>1, <3>2, <3>3, <3>5
      <4> QED BY <3>4, <3>6, <4>1, JoinsCancel
    <3>8. Delimited(S, f) /\ Readable(S, x.text)
      BY <2>1, DelimitedRest
    <3>9. Delimited(S, g) /\ Readable(S, y.text)
      BY <2>1, <3>2, DelimitedRest
    <3>10. x.text = y.text /\ r = q
      <4>1. Splits(S, w, y.text, q)
        BY <3>5, <3>7
      <4> QED BY <3>4, <3>6, <3>8, <3>9, <4>1, TextEnds
    <3>11. Printed(f) = Printed(g)
      <4>1. Joins(x.after, Printed(g), r)
        BY <3>3, <3>5, <3>10
      <4> QED BY <3>4, <3>6, <4>1, JoinsCancel
    <3>12. SameTexts(f, g)
      BY <1>2, <3>3, <3>8, <3>9, <3>11
    <3>13. Len(f) = Len(g)
      BY <3>3 DEF SameFrame
    <3> QED BY <3>2, <3>10, <3>12, <3>13, FrameRest
  <2> QED BY <2>0, <2>1
<1>3. \A f \in Seq(F), x \in F : f \in T => Cons(x, f) \in T
  BY <1>2
<1> HIDE DEF T
<1>4. \A f \in Seq(F) : f \in T
  BY <1>1, <1>3, Prepending
<1> QED BY <1>4 DEF T
=============================================================================
