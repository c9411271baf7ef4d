--------------------------- MODULE SequenceFacts ---------------------------
(***************************************************************************)
(* Induction and recursion, and what follows from them for the operators   *)
(* that the other modules define by recursive functions.                   *)
(*                                                                         *)
(* The library's induction theorems have an operator as a parameter.  Here *)
(* the property is a set instead: the numbers that have it (Induction).    *)
(* Likewise the step of a recursion is a function (Recursion).             *)
(***************************************************************************)
EXTENDS SeqFilter, SequenceTheorems, WellFoundedInduction, TLAPS

\* A set of natural numbers has a least element.
LEMMA LeastNat ==
  ASSUME NEW T, T \subseteq Nat, T # {}
  PROVE  \E x \in T : \A y \in T : x <= y
  <1> DEFINE R == OpToRel(<, Nat)
  <1>1. IsWellFoundedOn(R, Nat)
    BY NatLessThanWellFounded
  <1> HIDE DEF R
  <1>2. PICK x \in T : \A y \in T : <<y, x>> \notin R
    BY <1>1, WFMin
  <1>3. \A y \in T : ~(y < x)
    BY <1>2 DEF R, OpToRel
  <1> QED  BY <1>3

\* A set that has 0, and n + 1 with every n, has all natural numbers.
LEMMA Induction ==
  ASSUME NEW T, 0 \in T, \A n \in Nat : n \in T => n + 1 \in T
  PROVE  \A n \in Nat : n \in T
  <1> SUFFICES ASSUME Nat \ T # {} PROVE FALSE
    OBVIOUS
  <1>1. PICK x \in Nat \ T : \A y \in Nat \ T : x <= y
    BY LeastNat
  <1>2. x - 1 \in Nat \ T
    BY <1>1
  <1> QED  BY <1>1, <1>2

\* A set that has the empty sequence, and with every sequence over S the one
\* that is longer by an element, has all sequences over S.
LEMMA SeqInduction ==
  ASSUME NEW S, NEW T, <<>> \in T,
         \A s \in Seq(S), e \in S : s \in T => Append(s, e) \in T
  PROVE  \A s \in Seq(S) : s \in T
  <1> DEFINE L == {n \in Nat : \A s \in Seq(S) : Len(s) = n => s \in T}
  <1>1. 0 \in L
    <2>1. \A s \in Seq(S) : Len(s) = 0 => s = <<>>
      BY EmptySeq
    <2> QED  BY <2>1
  <1>2. ASSUME NEW n \in Nat, n \in L
        PROVE  n + 1 \in L
    <2> SUFFICES ASSUME NEW s \in Seq(S), Len(s) = n + 1
                 PROVE  s \in T
      OBVIOUS
    <2>1. s # <<>>
      OBVIOUS
    <2>2. PICK t \in Seq(S), e \in S : s = Append(t, e)
      BY <2>1, SequenceEmptyOrAppend
    <2>3. Len(t) = n
      BY <2>2, AppendProperties
    <2> QED  BY <1>2, <2>2, <2>3
  <1> HIDE DEF L
  <1>3. \A n \in Nat : n \in L
    BY <1>1, <1>2, Induction
  <1> QED  BY <1>3, LenProperties DEF L

\* An element appended to a concatenation is appended to its second part.
Shifts(a, b, x) == Append(a \o b, x) = a \o Append(b, x)

LEMMA AppendLast ==
  ASSUME NEW S, NEW a \in Seq(S), NEW b \in Seq(S), NEW x \in S
  PROVE  Shifts(a, b, x)
  BY DEF Shifts

\* Concatenation is associative.
Regroups(a, b, c) == (a \o b) \o c = a \o (b \o c)

LEMMA Regrouped ==
  ASSUME NEW S, NEW a \in Seq(S), NEW b \in Seq(S), NEW c \in Seq(S)
  PROVE  Regroups(a, b, c)
  BY ConcatAssociative DEF Regroups

\* g starts with b and goes on by f, up to N.
Iterates(g, X, b, f, N) ==
  g \in [0 .. N -> X] /\ g[0] = b /\ \A i \in 0 .. N - 1 : g[i + 1] = f[i][g[i]]

\* There is such a function, whatever b, f and N.
LEMMA Recursion ==
  ASSUME NEW X, NEW b \in X, NEW f \in [Nat -> [X -> X]], NEW N \in Nat
  PROVE  \E g : Iterates(g, X, b, f, N)
  <1> DEFINE Upto(n, g) == g[0] = b /\ \A i \in 0 .. n - 1 : g[i + 1] = f[i][g[i]]
             T == {n \in Nat : \E g \in [0 .. n -> X] : Upto(n, g)}
  <1>1. 0 \in T
    <2>1. [i \in 0 .. 0 |-> b] \in [0 .. 0 -> X] /\ Upto(0, [i \in 0 .. 0 |-> b])
      OBVIOUS
    <2> QED  BY <2>1
  <1>2. ASSUME NEW n \in Nat, n \in T
        PROVE  n + 1 \in T
    <2>1. PICK g \in [0 .. n -> X] : Upto(n, g)
      BY <1>2
    <2> DEFINE h == [i \in 0 .. n + 1 |-> IF i = n + 1 THEN f[n][g[n]] ELSE g[i]]
    <2>2. h \in [0 .. n + 1 -> X]
      OBVIOUS
    <2>3. Upto(n + 1, h)
      <3>1. h[0] = b
        BY <2>1
      <3>2. ASSUME NEW i \in 0 .. (n + 1) - 1
            PROVE  h[i + 1] = f[i][h[i]]
        <4>1. i \in 0 .. n /\ i + 1 \in 0 .. n + 1 /\ h[i] = g[i]
          OBVIOUS
        <4>2. CASE i = n
          BY <4>1, <4>2
        <4>3. CASE i # n
          <5>1. i \in 0 .. n - 1 /\ i + 1 # n + 1
            BY <4>3
          <5>2. h[i + 1] = g[i + 1]
            BY <4>1, <5>1
          <5> QED  BY <2>1, <4>1, <5>1, <5>2
        <4> QED  BY <4>2, <4>3
      <3> QED  BY <3>1, <3>2
    <2> HIDE DEF h, Upto
    <2> QED  BY <2>2, <2>3
  <1> HIDE DEF T
  <1>3. N \in T
    BY <1>1, <1>2, Induction
  <1> QED  BY <1>3 DEF T, Iterates

-----------------------------------------------------------------------------
(* Only                                                                    *)

\* The equations of the function that Only is defined by.
OnlyFcn(g, s, S) ==
  /\ g \in [0 .. Len(s) -> Seq(S)] /\ g[0] = <<>>
  /\ \A i \in 1 .. Len(s) : g[i] = IF s[i] \in S THEN Append(g[i - 1], s[i]) ELSE g[i - 1]

LEMMA OnlyDef ==
  ASSUME NEW U, NEW s \in Seq(U), NEW S
  PROVE  \E g : OnlyFcn(g, s, S) /\ Only(s, S) = g[Len(s)]
  <1> DEFINE f == [i \in Nat |-> [x \in Seq(S) |->
                     IF i + 1 \in DOMAIN s /\ s[i + 1] \in S THEN Append(x, s[i + 1]) ELSE x]]
             E(g, i) == IF i = 0 THEN <<>>
                        ELSE IF s[i] \in S THEN Append(g[i - 1], s[i]) ELSE g[i - 1]
             Rec(g) == g = [i \in 0 .. Len(s) |-> E(g, i)]
  <1>1. Len(s) \in Nat /\ DOMAIN s = 1 .. Len(s)
    OBVIOUS
  <1>2. f \in [Nat -> [Seq(S) -> Seq(S)]]
    OBVIOUS
  <1>b. PICK g : Iterates(g, Seq(S), <<>>, f, Len(s))
    <2> HIDE DEF f
    <2>1. <<>> \in Seq(S)
      OBVIOUS
    <2> QED  BY <1>1, <1>2, <2>1, Recursion, Zenon
  <1>3. /\ g \in [0 .. Len(s) -> Seq(S)] /\ g[0] = <<>>
        /\ \A i \in 0 .. Len(s) - 1 : g[i + 1] = f[i][g[i]]
    <2> HIDE DEF f
    <2> QED  BY <1>b DEF Iterates
  <1>4. Rec(g)
    <2>1. ASSUME NEW i \in 1 .. Len(s)
          PROVE  g[i] = IF s[i] \in S THEN Append(g[i - 1], s[i]) ELSE g[i - 1]
      <3>1. i - 1 \in 0 .. Len(s) - 1 /\ (i - 1) + 1 = i /\ i - 1 \in 0 .. Len(s) /\ i \in DOMAIN s
        BY <1>1
      <3>2. g[i] = f[i - 1][g[i - 1]] /\ g[i - 1] \in Seq(S)
        <4> HIDE DEF f
        <4> QED  BY <1>3, <3>1
      <3>3. i - 1 \in Nat /\ g[i - 1] \in Seq(S)
        BY <3>1, <3>2
      <3>4. f[i - 1][g[i - 1]] = IF (i - 1) + 1 \in DOMAIN s /\ s[(i - 1) + 1] \in S
                                    THEN Append(g[i - 1], s[(i - 1) + 1]) ELSE g[i - 1]
        BY <3>3
      <3> HIDE DEF f
      <3> QED  BY <3>1, <3>2, <3>4
    <2>2. \A i \in 0 .. Len(s) : g[i] = E(g, i)
      <3> HIDE DEF f
      <3>1. E(g, 0) = <<>>
        OBVIOUS
      <3>2. ASSUME NEW i \in 1 .. Len(s)
            PROVE  g[i] = E(g, i)
        BY <2>1, <1>1
      <3> HIDE DEF E
      <3>3. \A i \in 0 .. Len(s) : i = 0 \/ i \in 1 .. Len(s)
        BY <1>1
      <3> QED  BY <1>3, <3>1, <3>2, <3>3, Zenon
    <2> HIDE DEF E, f
    <2> QED  BY <1>3, <2>2
  <1> DEFINE c == CHOOSE h : Rec(h)
  <1>5. Rec(c)
    BY <1>4
  <1>6. Only(s, S) = c[Len(s)]
    BY DEF Only
  <1> HIDE DEF c
  <1>a. DOMAIN c = 0 .. Len(s) /\ \A i \in 0 .. Len(s) : c[i] = E(c, i)
    <2> HIDE DEF E
    <2> QED  BY <1>5
  <1>7. /\ DOMAIN c = 0 .. Len(s) /\ c[0] = <<>>
        /\ \A i \in 1 .. Len(s) : c[i] = IF s[i] \in S THEN Append(c[i - 1], s[i]) ELSE c[i - 1]
    <2>1. 0 \in 0 .. Len(s) /\ E(c, 0) = <<>>
      BY <1>1
    <2>2. ASSUME NEW i \in 1 .. Len(s)
          PROVE  c[i] = IF s[i] \in S THEN Append(c[i - 1], s[i]) ELSE c[i - 1]
      <3>1. i \in 0 .. Len(s) /\ i # 0
        BY <1>1
      <3>2. c[i] = E(c, i)
        BY <1>a, <3>1, Zenon
      <3> QED  BY <3>1, <3>2, Zenon
    <2> QED  BY <1>a, <2>1, <2>2, Zenon
  <1>8. \A i \in 0 .. Len(s) : c[i] \in Seq(S)
    <2> DEFINE T == {n \in Nat : n <= Len(s) => c[n] \in Seq(S)}
    <2>1. 0 \in T
      <3>1. <<>> \in Seq(S)
        OBVIOUS
      <3> QED  BY <1>7, <3>1
    <2>2. ASSUME NEW n \in Nat, n \in T
          PROVE  n + 1 \in T
      <3> SUFFICES ASSUME n + 1 <= Len(s)
                   PROVE  c[n + 1] \in Seq(S)
        OBVIOUS
      <3>1. n + 1 \in 1 .. Len(s) /\ (n + 1) - 1 = n /\ n <= Len(s)
        BY <1>1
      <3>2. c[n] \in Seq(S)
        BY <2>2, <3>1
      <3>3. c[n + 1] = IF s[n + 1] \in S THEN Append(c[n], s[n + 1]) ELSE c[n]
        BY <1>7, <3>1
      <3> QED  BY <3>2, <3>3
    <2> HIDE DEF T
    <2>3. \A n \in Nat : n \in T
      BY <2>1, <2>2, Induction
    <2> QED  BY <1>1, <2>3 DEF T
  <1>9. c \in [0 .. Len(s) -> Seq(S)]
    <2> HIDE DEF E
    <2>1. c = [i \in 0 .. Len(s) |-> c[i]]
      BY <1>5, <1>a
    <2> QED  BY <1>8, <2>1
  <1> QED  BY <1>6, <1>7, <1>9 DEF OnlyFcn

LEMMA OnlyType ==
  ASSUME NEW U, NEW s \in Seq(U), NEW S
  PROVE  Only(s, S) \in Seq(S)
  <1>1. PICK g : OnlyFcn(g, s, S) /\ Only(s, S) = g[Len(s)]
    BY OnlyDef
  <1>2. Len(s) \in 0 .. Len(s)
    OBVIOUS
  <1> QED  BY <1>1, <1>2 DEF OnlyFcn

LEMMA OnlyEmpty ==
  ASSUME NEW S
  PROVE  Only(<<>>, S) = <<>>
  <1>1. <<>> \in Seq({}) /\ Len(<<>>) = 0
    OBVIOUS
  <1>2. PICK g : OnlyFcn(g, <<>>, S) /\ Only(<<>>, S) = g[Len(<<>>)]
    BY <1>1, OnlyDef, Zenon
  <1> QED  BY <1>1, <1>2, Zenon DEF OnlyFcn

LEMMA OnlyAppend ==
  ASSUME NEW U, NEW s \in Seq(U), NEW x \in U, NEW S
  PROVE  Only(Append(s, x), S) = IF x \in S THEN Append(Only(s, S), x) ELSE Only(s, S)
  <1> DEFINE t == Append(s, x)
  <1>1. /\ t \in Seq(U) /\ Len(s) \in Nat /\ Len(t) = Len(s) + 1
        /\ \A i \in 1 .. Len(s) : t[i] = s[i]
        /\ t[Len(s) + 1] = x
    BY AppendProperties
  <1> HIDE DEF t
  <1>2. PICK g : OnlyFcn(g, s, S) /\ Only(s, S) = g[Len(s)]
    BY OnlyDef
  <1>3. PICK h : OnlyFcn(h, t, S) /\ Only(t, S) = h[Len(t)]
    BY <1>1, OnlyDef
  <1>4. \A i \in 0 .. Len(s) : h[i] = g[i]
    <2> DEFINE T == {n \in Nat : n <= Len(s) => h[n] = g[n]}
    <2>1. 0 \in T
      BY <1>2, <1>3 DEF OnlyFcn
    <2>2. ASSUME NEW n \in Nat, n \in T
          PROVE  n + 1 \in T
      <3> SUFFICES ASSUME n + 1 <= Len(s)
                   PROVE  h[n + 1] = g[n + 1]
        OBVIOUS
      <3>1. /\ n + 1 \in 1 .. Len(s) /\ n + 1 \in 1 .. Len(t)
            /\ (n + 1) - 1 = n /\ n <= Len(s)
        BY <1>1
      <3>2. h[n] = g[n] /\ t[n + 1] = s[n + 1]
        BY <1>1, <2>2, <3>1
      <3>3. g[n + 1] = IF s[n + 1] \in S THEN Append(g[n], s[n + 1]) ELSE g[n]
        BY <1>2, <3>1 DEF OnlyFcn
      <3>4. h[n + 1] = IF t[n + 1] \in S THEN Append(h[n], t[n + 1]) ELSE h[n]
        BY <1>3, <3>1 DEF OnlyFcn
      <3>5. CASE s[n + 1] \in S
        BY <3>2, <3>3, <3>4, <3>5
      <3>6. CASE s[n + 1] \notin S
        BY <3>2, <3>3, <3>4, <3>6
      <3> QED  BY <3>5, <3>6
    <2> HIDE DEF T
    <2>3. \A n \in Nat : n \in T
      BY <2>1, <2>2, Induction
    <2> QED  BY <1>1, <2>3 DEF T
  <1>5. /\ Len(s) \in 0 .. Len(s) /\ Len(s) + 1 \in 1 .. Len(t)
        /\ (Len(s) + 1) - 1 = Len(s)
    BY <1>1
  <1>6. h[Len(s) + 1] = IF t[Len(s) + 1] \in S THEN Append(h[Len(s)], t[Len(s) + 1])
                                               ELSE h[Len(s)]
    BY <1>3, <1>5 DEF OnlyFcn
  <1>7. h[Len(s)] = g[Len(s)]
    BY <1>4, <1>5
  <1> QED  BY <1>1, <1>2, <1>3, <1>6, <1>7, Zenon DEF t

LEMMA OnlyConcat ==
  ASSUME NEW U, NEW s \in Seq(U), NEW t \in Seq(U), NEW S
  PROVE  Only(s \o t, S) = Only(s, S) \o Only(t, S)
  <1> DEFINE T == {r \in Seq(U) : Only(s \o r, S) = Only(s, S) \o Only(r, S)}
  <1>1. <<>> \in T
    <2>1. s \o <<>> = s /\ Only(s, S) \o <<>> = Only(s, S)
      BY OnlyType, ConcatEmptySeq
    <2>2. <<>> \in Seq(U) /\ Only(<<>>, S) = <<>>
      BY OnlyEmpty
    <2> QED  BY <2>1, <2>2, Zenon
  <1>2. ASSUME NEW r \in Seq(U), NEW e \in U, r \in T
        PROVE  Append(r, e) \in T
    <2>1. s \o Append(r, e) = Append(s \o r, e)
      OBVIOUS
    <2>2. /\ s \o r \in Seq(U) /\ Append(r, e) \in Seq(U)
          /\ Only(s, S) \in Seq(S) /\ Only(r, S) \in Seq(S)
      BY OnlyType
    <2>3. Only(Append(s \o r, e), S)
            = IF e \in S THEN Append(Only(s, S) \o Only(r, S), e) ELSE Only(s, S) \o Only(r, S)
      BY <1>2, <2>2, OnlyAppend, ZenonT(40)
    <2>4. Only(Append(r, e), S) = IF e \in S THEN Append(Only(r, S), e) ELSE Only(r, S)
      BY OnlyAppend, Zenon
    <2>5. e \in S => Append(Only(s, S) \o Only(r, S), e) = Only(s, S) \o Append(Only(r, S), e)
      <3>1. e \in S => Shifts(Only(s, S), Only(r, S), e)
        BY <2>2, AppendLast, Zenon
      <3> QED  BY <3>1 DEF Shifts
    <2>6. Only(s \o Append(r, e), S) = Only(s, S) \o Only(Append(r, e), S)
      BY <2>1, <2>3, <2>4, <2>5, Zenon
    <2> QED  BY <2>2, <2>6
  <1> HIDE DEF T
  <1>3. t \in T
    BY <1>1, <1>2, SeqInduction
  <1> QED  BY <1>3 DEF T

LEMMA OnlyShorter ==
  ASSUME NEW U, NEW s \in Seq(U), NEW S
  PROVE  Len(Only(s, S)) <= Len(s)
  <1> DEFINE T == {r \in Seq(U) : Len(Only(r, S)) <= Len(r)}
  <1>1. <<>> \in T
    BY OnlyEmpty
  <1>2. ASSUME NEW r \in Seq(U), NEW e \in U, r \in T
        PROVE  Append(r, e) \in T
    <2>1. Only(r, S) \in Seq(S) /\ Append(r, e) \in Seq(U) /\ Len(Append(r, e)) = Len(r) + 1
      BY OnlyType
    <2>2. Only(Append(r, e), S) = IF e \in S THEN Append(Only(r, S), e) ELSE Only(r, S)
      BY OnlyAppend, Zenon
    <2>3. e \in S => Len(Append(Only(r, S), e)) = Len(Only(r, S)) + 1
      BY <2>1
    <2>4. /\ Len(Only(r, S)) \in Nat /\ Len(r) \in Nat /\ Len(Only(r, S)) <= Len(r)
      BY <1>2, <2>1
    <2>5. Len(Only(Append(r, e), S)) <= Len(Append(r, e))
      BY <2>1, <2>2, <2>3, <2>4
    <2> QED  BY <2>1, <2>5
  <1> HIDE DEF T
  <1>3. s \in T
    BY <1>1, <1>2, SeqInduction
  <1> QED  BY <1>3 DEF T

-----------------------------------------------------------------------------
(* Parts of a sequence                                                     *)

LEMMA Part ==
  ASSUME NEW S, NEW s \in Seq(S), NEW m \in 1 .. Len(s) + 1, NEW n \in m - 1 .. Len(s)
  PROVE  /\ SubSeq(s, m, n) \in Seq(S) /\ Len(SubSeq(s, m, n)) = n - m + 1
         /\ \A i \in 1 .. n - m + 1 : SubSeq(s, m, n)[i] = s[m + i - 1]
  <1>1. m \in Int /\ n \in Int /\ \A i \in m .. n : s[i] \in S
    OBVIOUS
  <1>2. /\ SubSeq(s, m, n) \in Seq(S)
        /\ Len(SubSeq(s, m, n)) = IF m <= n THEN n - m + 1 ELSE 0
        /\ \A i \in 1 .. n - m + 1 : SubSeq(s, m, n)[i] = s[m + i - 1]
    BY <1>1, SubSeqProperties
  <1>3. n - m + 1 = IF m <= n THEN n - m + 1 ELSE 0
    OBVIOUS
  <1> QED  BY <1>2, <1>3

\* The beginning of a beginning is a beginning.
LEMMA PartOfPart ==
  ASSUME NEW S, NEW s \in Seq(S), NEW m \in 0 .. Len(s), NEW n \in 0 .. m
  PROVE  SubSeq(SubSeq(s, 1, m), 1, n) = SubSeq(s, 1, n)
  <1> DEFINE t == SubSeq(s, 1, m)
             u == SubSeq(t, 1, n)
             v == SubSeq(s, 1, n)
  <1>1. /\ t \in Seq(S) /\ Len(t) = m - 1 + 1 /\ \A i \in 1 .. m - 1 + 1 : t[i] = s[1 + i - 1]
    BY Part
  <1>2. /\ v \in Seq(S) /\ Len(v) = n - 1 + 1 /\ \A i \in 1 .. n - 1 + 1 : v[i] = s[1 + i - 1]
    BY Part
  <1> HIDE DEF t
  <1>3. /\ u \in Seq(S) /\ Len(u) = n - 1 + 1 /\ \A i \in 1 .. n - 1 + 1 : u[i] = t[1 + i - 1]
    BY <1>1, Part
  <1> HIDE DEF u, v
  <1>4. Len(u) = Len(v) /\ \A i \in 1 .. Len(u) : u[i] = v[i]
    BY <1>1, <1>2, <1>3
  <1>5. u = v
    BY <1>2, <1>3, <1>4, SeqEqual
  <1> QED  BY <1>5 DEF t, u, v

\* A part grows by the element behind it.
LEMMA PartGrows ==
  ASSUME NEW S, NEW s \in Seq(S), NEW m \in 1 .. Len(s), NEW n \in m - 1 .. Len(s) - 1
  PROVE  SubSeq(s, m, n + 1) = Append(SubSeq(s, m, n), s[n + 1])
  <1> DEFINE t == SubSeq(s, m, n)
             u == Append(t, s[n + 1])
             v == SubSeq(s, m, n + 1)
  <1>1. t \in Seq(S) /\ Len(t) = n - m + 1 /\ \A i \in 1 .. n - m + 1 : t[i] = s[m + i - 1]
    BY Part
  <1>2. v \in Seq(S) /\ Len(v) = n + 1 - m + 1 /\ \A i \in 1 .. n + 1 - m + 1 : v[i] = s[m + i - 1]
    <2>1. n + 1 \in m - 1 .. Len(s) /\ m \in 1 .. Len(s) + 1
      OBVIOUS
    <2> QED  BY <2>1, Part
  <1> HIDE DEF t
  <1>3. s[n + 1] \in S
    OBVIOUS
  <1>4. /\ u \in Seq(S) /\ Len(u) = Len(t) + 1
        /\ \A i \in 1 .. Len(t) : u[i] = t[i]
        /\ u[Len(t) + 1] = s[n + 1]
    BY <1>1, <1>3, AppendProperties, ZenonT(40)
  <1> HIDE DEF u, v
  <1>5. Len(u) = Len(v)
    BY <1>1, <1>2, <1>4
  <1>6. ASSUME NEW i \in 1 .. Len(u)
        PROVE  u[i] = v[i]
    <2>1. CASE i = Len(t) + 1
      BY <1>1, <1>2, <1>4, <2>1
    <2>2. CASE i # Len(t) + 1
      <3>1. i \in 1 .. Len(t) /\ i \in 1 .. n - m + 1 /\ i \in 1 .. n + 1 - m + 1
        BY <1>1, <1>4, <2>2
      <3> QED  BY <1>1, <1>2, <1>4, <3>1
    <2> QED  BY <2>1, <2>2
  <1>7. u = v
    BY <1>2, <1>4, <1>5, <1>6, SeqEqual
  <1> QED  BY <1>7 DEF t, u, v

\* A sequence without its first elements begins with the next one.
LEMMA PartStarts ==
  ASSUME NEW S, NEW s \in Seq(S), NEW k \in 1 .. Len(s)
  PROVE  /\ SubSeq(s, k, Len(s)) # <<>> /\ Head(SubSeq(s, k, Len(s))) = s[k]
         /\ Tail(SubSeq(s, k, Len(s))) = SubSeq(s, k + 1, Len(s))
  <1>1. Len(s) \in k .. Len(s) /\ Len(s) \in k - 1 .. Len(s) /\ k \in 1 .. Len(s) + 1
    OBVIOUS
  <1>2. SubSeq(s, k, Len(s)) \in Seq(S) /\ Len(SubSeq(s, k, Len(s))) = Len(s) - k + 1
    BY <1>1, Part
  <1>3. SubSeq(s, k, Len(s)) # <<>>
    <2> DEFINE t == SubSeq(s, k, Len(s))
    <2> HIDE DEF t
    <2>1. Len(t) = Len(s) - k + 1
      BY <1>2 DEF t
    <2>2. Len(t) # 0
      BY <2>1
    <2>3. t # <<>>
      BY <2>2
    <2> QED  BY <2>3 DEF t
  <1>4. /\ Head(SubSeq(s, k, Len(s))) = s[k]
        /\ Tail(SubSeq(s, k, Len(s))) = SubSeq(s, k + 1, Len(s))
    BY <1>1, HeadTailOfSubSeq
  <1> QED  BY <1>3, <1>4
=============================================================================
