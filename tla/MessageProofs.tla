---------------------------- MODULE MessageProofs ----------------------------
(***************************************************************************)
(* Proofs about ProtoCodec, Messages and MessageFlow.                      *)
(***************************************************************************)
EXTENDS MessageFlow, WellFoundedInduction, SequenceTheorems, FiniteSetTheorems, TLAPS

-----------------------------------------------------------------------------
(* Induction, and sequences of any values *)

\* A set with 0 in it and with every number's successor has all numbers.
LEMMA Induct ==
    ASSUME NEW T, 0 \in T, \A n \in Nat : n \in T => n + 1 \in T
    PROVE  Nat \subseteq T
<1> SUFFICES ASSUME Nat \ T # {} PROVE FALSE
  OBVIOUS
<1> DEFINE U == Nat \ T
           R == OpToRel(<, Nat)
<1>1. IsWellFoundedOn(R, Nat) /\ U \subseteq Nat /\ U # {}
  BY NatLessThanWellFounded
<1> HIDE DEF R, U
<1>2. PICK x \in U : \A y \in U : ~(<<y, x>> \in R)
  BY <1>1, WFMin
<1>3. x \in Nat /\ x \notin T /\ x # 0
  BY DEF U
<1>4. x - 1 \in Nat /\ x - 1 \in T
  <2>1. x - 1 \in Nat /\ x - 1 < x
    BY <1>3
  <2>2. <<x - 1, x>> \in R
    BY <1>3, <2>1 DEF R, OpToRel
  <2> QED BY <1>2, <2>1, <2>2 DEF U
<1>5. (x - 1) + 1 \in T
  BY <1>4
<1> QED BY <1>3, <1>5

LEMMA SeqFacts ==
    ASSUME NEW s, IsSeq(s)
    PROVE  Len(s) \in Nat /\ DOMAIN s = 1..Len(s) /\ s = [i \in 1..Len(s) |-> s[i]]
BY DEF IsSeq

LEMMA SeqIntro ==
    ASSUME NEW s, NEW n \in Nat, s = [i \in 1..n |-> s[i]]
    PROVE  IsSeq(s) /\ Len(s) = n
<1> DEFINE X == Range(s)
<1>1. DOMAIN s = 1..n
  OBVIOUS
<1>2. \A i \in 1..n : s[i] \in X
  BY <1>1 DEF Range
<1> HIDE DEF X
<1>3. s \in [1..n -> X]
  BY <1>2
<1>4. s \in Seq(X)
  BY <1>3
<1> QED BY <1>1, <1>4 DEF IsSeq, X

LEMMA SomeSeq == ASSUME NEW X, NEW s \in Seq(X) PROVE IsSeq(s)
<1>1. Len(s) \in Nat /\ s \in [1..Len(s) -> X]
  OBVIOUS
<1> QED BY <1>1, SeqIntro

LEMMA SeqWider ==
    ASSUME NEW s, IsSeq(s), NEW X, Range(s) \subseteq X
    PROVE  s \in Seq(X)
<1>1. \A i \in 1..Len(s) : s[i] \in X
  BY SeqFacts DEF Range
<1>2. Len(s) \in Nat /\ s = [i \in 1..Len(s) |-> s[i]]
  BY SeqFacts
<1>3. s \in [1..Len(s) -> X]
  BY <1>1, <1>2
<1> QED BY <1>2, <1>3

LEMMA SameSeq ==
    ASSUME NEW s, NEW t, IsSeq(s), IsSeq(t), Len(s) = Len(t),
           \A i \in 1..Len(s) : s[i] = t[i]
    PROVE  s = t
<1> DEFINE X == Range(s) \cup Range(t)
<1>1. s \in Seq(X) /\ t \in Seq(X)
  BY SeqWider
<1> HIDE DEF X
<1> QED BY <1>1, SeqEqual

LEMMA NoneSeq == IsSeq(<<>>) /\ Len(<<>>) = 0 /\ DOMAIN <<>> = {}
<1>1. <<>> \in Seq({}) /\ Len(<<>>) = 0 /\ DOMAIN <<>> = {}
  OBVIOUS
<1> QED BY <1>1, SomeSeq

LEMMA OneSeq ==
    ASSUME NEW a PROVE IsSeq(<<a>>) /\ Len(<<a>>) = 1 /\ <<a>>[1] = a
BY DEF IsSeq, Range

LEMMA AppendSeq ==
    ASSUME NEW s, IsSeq(s), NEW a
    PROVE  /\ IsSeq(Append(s, a)) /\ Len(Append(s, a)) = Len(s) + 1
           /\ Append(s, a)[Len(s) + 1] = a
           /\ \A i \in 1..Len(s) : Append(s, a)[i] = s[i]
<1> DEFINE X == Range(s) \cup {a}
<1>1. s \in Seq(X) /\ a \in X
  BY SeqWider
<1> HIDE DEF X
<1> DEFINE t == Append(s, a)
<1>2. t \in Seq(X) /\ Len(t) = Len(s) + 1 /\ t[Len(s) + 1] = a
      /\ \A i \in 1..Len(s) : t[i] = s[i]
  BY <1>1
<1> HIDE DEF t
<1>3. IsSeq(t)
  BY <1>2, SomeSeq
<1> QED BY <1>2, <1>3 DEF t

LEMMA ConcatSeq ==
    ASSUME NEW s, IsSeq(s), NEW t, IsSeq(t)
    PROVE  /\ IsSeq(s \o t) /\ Len(s \o t) = Len(s) + Len(t)
           /\ \A i \in 1..Len(s) : (s \o t)[i] = s[i]
           /\ \A i \in 1..Len(t) : (s \o t)[Len(s) + i] = t[i]
<1> DEFINE X == Range(s) \cup Range(t)
<1>1. s \in Seq(X) /\ t \in Seq(X)
  BY SeqWider
<1> HIDE DEF X
<1> DEFINE u == s \o t
<1>2. u \in Seq(X) /\ Len(u) = Len(s) + Len(t)
      /\ (\A i \in 1..Len(s) : u[i] = s[i])
      /\ (\A i \in 1..Len(t) : u[Len(s) + i] = t[i])
  BY <1>1
<1> HIDE DEF u
<1>3. IsSeq(u)
  BY <1>2, SomeSeq
<1> QED BY <1>2, <1>3 DEF u

LEMMA ConcatNone ==
    ASSUME NEW s, IsSeq(s) PROVE s \o <<>> = s /\ <<>> \o s = s
<1>1. s \in Seq(Range(s))
  BY DEF IsSeq
<1> QED BY <1>1

LEMMA ConcatConcat ==
    ASSUME NEW s, IsSeq(s), NEW t, IsSeq(t), NEW u, IsSeq(u)
    PROVE  (s \o t) \o u = s \o (t \o u)
<1> DEFINE X == Range(s) \cup Range(t) \cup Range(u)
<1>1. s \in Seq(X) /\ t \in Seq(X) /\ u \in Seq(X)
  BY SeqWider
<1> HIDE DEF X
<1> QED BY <1>1

LEMMA ConcatOne ==
    ASSUME NEW s, IsSeq(s), NEW a PROVE s \o <<a>> = Append(s, a)
<1> DEFINE X == Range(s) \cup {a}
<1>1. s \in Seq(X) /\ a \in X
  BY SeqWider
<1> HIDE DEF X
<1> QED BY <1>1

\* c is d and one element more, a.
Ends(c, d, a) == IsSeq(d) /\ c = Append(d, a)

LEMMA EndsFacts ==
    ASSUME NEW c, NEW d, NEW a, Ends(c, d, a)
    PROVE  /\ IsSeq(c) /\ IsSeq(d) /\ Len(d) \in Nat /\ Len(c) = Len(d) + 1
           /\ c[Len(d) + 1] = a
           /\ \A i \in 1..Len(d) : c[i] = d[i]
BY SeqFacts, AppendSeq DEF Ends

LEMMA EndsIntro ==
    ASSUME NEW c, IsSeq(c), NEW d, IsSeq(d), Len(c) = Len(d) + 1,
           \A i \in 1..Len(d) : c[i] = d[i]
    PROVE  Ends(c, d, c[Len(d) + 1])
<1> DEFINE a == c[Len(d) + 1]
           e == Append(d, a)
<1>1. /\ IsSeq(e) /\ Len(e) = Len(d) + 1 /\ e[Len(d) + 1] = a
      /\ \A i \in 1..Len(d) : e[i] = d[i]
  BY AppendSeq
<1>2. Len(d) \in Nat
  BY SeqFacts
<1> HIDE DEF e
<1>3. \A i \in 1..Len(c) : c[i] = e[i]
  BY <1>1, <1>2
<1>4. c = e
  BY <1>1, <1>3, SameSeq
<1> QED BY <1>4 DEF e, Ends

LEMMA LastSplit ==
    ASSUME NEW c, IsSeq(c), NEW n \in Nat, Len(c) = n + 1
    PROVE  \E d, a : Ends(c, d, a) /\ Len(d) = n
<1> DEFINE d == [i \in 1..n |-> c[i]]
<1>1. IsSeq(d) /\ Len(d) = n /\ \A i \in 1..n : d[i] = c[i]
  <2>1. d = [i \in 1..n |-> d[i]] /\ \A i \in 1..n : d[i] = c[i]
    OBVIOUS
  <2> HIDE DEF d
  <2> QED BY <2>1, SeqIntro
<1> HIDE DEF d
<1> QED BY <1>1, EndsIntro

LEMMA ConcatEnds ==
    ASSUME NEW b, IsSeq(b), NEW c, NEW d, NEW a, Ends(c, d, a)
    PROVE  Ends(b \o c, b \o d, a)
<1>1. IsSeq(d) /\ c = Append(d, a)
  BY DEF Ends
<1>2. c = d \o <<a>> /\ IsSeq(<<a>>) /\ IsSeq(b \o d)
  BY <1>1, ConcatOne, OneSeq, ConcatSeq
<1>3. b \o (d \o <<a>>) = (b \o d) \o <<a>>
  BY <1>1, <1>2, ConcatConcat
<1> QED BY <1>2, <1>3, ConcatOne DEF Ends

LEMMA EndsAt ==
    ASSUME NEW c, NEW d, NEW a, Ends(c, d, a), NEW n \in Nat, Len(d) = n
    PROVE  /\ IsSeq(d) /\ c[n+1] = a /\ (\A i \in 1..n : c[i] = d[i])
           /\ DOMAIN c = 1..(n+1) /\ DOMAIN d = 1..n
<1>1. /\ IsSeq(c) /\ IsSeq(d) /\ Len(c) = Len(d) + 1 /\ c[Len(d) + 1] = a
      /\ \A i \in 1..Len(d) : c[i] = d[i]
  BY EndsFacts
<1>2. DOMAIN d = 1..Len(d) /\ DOMAIN c = 1..Len(c)
  BY <1>1, SeqFacts
<1> QED BY <1>1, <1>2

LEMMA OneEnds == ASSUME NEW a PROVE Ends(<<a>>, <<>>, a)
<1>1. <<a>> = Append(<<>>, a)
  OBVIOUS
<1> QED BY <1>1, NoneSeq DEF Ends

-----------------------------------------------------------------------------
(* The loops, one turn at a time *)

\* r is the message after each atom that ParseInto reads.
Reads(r, S, m, b, n) ==
    r = [i \in 0..n |-> IF i = 0 THEN m ELSE ParseAtom(S, r[i-1], b[i])]

LEMMA ParseLoop ==
    ASSUME NEW S, NEW m, NEW b, Len(b) \in Nat
    PROVE  \E r : Reads(r, S, m, b, Len(b)) /\ ParseInto(S, m, b) = r[Len(b)]
<1> DEFINE T == {k \in Nat : \E r : Reads(r, S, m, b, k)}
           f == CHOOSE r : Reads(r, S, m, b, Len(b))
<1>1. 0 \in T
  <2> DEFINE r == [i \in 0..0 |-> m]
  <2>1. Reads(r, S, m, b, 0)
    BY DEF Reads
  <2> QED BY <2>1
<1>2. ASSUME NEW k \in Nat, k \in T PROVE k + 1 \in T
  <2>1. PICK r : Reads(r, S, m, b, k)
    BY <1>2
  <2> DEFINE q == [i \in 0..(k+1) |-> IF i = k + 1 THEN ParseAtom(S, r[k], b[k+1]) ELSE r[i]]
  <2>2. \A i \in 0..k : r[i] = IF i = 0 THEN m ELSE ParseAtom(S, r[i-1], b[i])
    BY <2>1 DEF Reads
  <2>3. /\ q = [i \in 0..(k+1) |-> q[i]]
        /\ q[k+1] = ParseAtom(S, r[k], b[k+1])
        /\ \A i \in 0..k : q[i] = r[i]
    OBVIOUS
  <2> HIDE DEF q
  <2>4. ASSUME NEW i \in 0..(k+1)
        PROVE  q[i] = IF i = 0 THEN m ELSE ParseAtom(S, q[i-1], b[i])
    <3>1. CASE i = k + 1
      <4>1. i - 1 = k /\ k \in 0..k /\ i # 0
        BY <3>1
      <4> QED BY <2>3, <3>1, <4>1
    <3>2. CASE i \in 0..k
      <4>1. i # 0 => i - 1 \in 0..k
        BY <3>2
      <4> QED BY <2>2, <2>3, <3>2, <4>1
    <3> QED BY <3>1, <3>2
  <2>5. Reads(q, S, m, b, k + 1)
    BY <2>3, <2>4 DEF Reads
  <2> QED BY <2>5
<1> HIDE DEF T
<1>3. Len(b) \in T
  BY <1>1, <1>2, Induct
<1>4. \E r : Reads(r, S, m, b, Len(b))
  BY <1>3 DEF T
<1>5. Reads(f, S, m, b, Len(b))
  BY <1>4
<1>6. ParseInto(S, m, b) = f[Len(b)]
  BY DEF ParseInto, Reads
<1> QED BY <1>5, <1>6

LEMMA ParseNone ==
    ASSUME NEW S, NEW m PROVE ParseInto(S, m, <<>>) = m
<1>1. Len(<<>>) = 0
  OBVIOUS
<1>2. PICK r : Reads(r, S, m, <<>>, 0) /\ ParseInto(S, m, <<>>) = r[0]
  BY <1>1, ParseLoop
<1> QED BY <1>2 DEF Reads

LEMMA ParseMore ==
    ASSUME NEW S, NEW m, NEW b, NEW a, NEW c, Ends(c, b, a)
    PROVE  ParseInto(S, m, c) = ParseAtom(S, ParseInto(S, m, b), a)
<1> DEFINE n == Len(b)
<1>1. n \in Nat /\ Len(c) = n + 1 /\ c[n+1] = a /\ \A i \in 1..n : c[i] = b[i]
  BY EndsFacts
<1>2. PICK r : Reads(r, S, m, b, n) /\ ParseInto(S, m, b) = r[n]
  BY <1>1, ParseLoop
<1>3. PICK q : Reads(q, S, m, c, n + 1) /\ ParseInto(S, m, c) = q[n+1]
  BY <1>1, ParseLoop
<1> HIDE DEF n
<1> DEFINE T == {k \in Nat : k <= n => q[k] = r[k]}
<1>4. 0 \in T
  <2>1. q[0] = m /\ r[0] = m
    BY <1>1, <1>2, <1>3 DEF Reads
  <2> QED BY <2>1
<1>5. ASSUME NEW k \in Nat, k \in T PROVE k + 1 \in T
  <2> SUFFICES ASSUME k + 1 <= n PROVE q[k+1] = r[k+1]
    OBVIOUS
  <2>1. q[k] = r[k] /\ k + 1 \in 1..n /\ (k + 1) - 1 = k /\ k + 1 \in 0..n
        /\ k + 1 \in 0..(n+1) /\ k + 1 # 0
    BY <1>1, <1>5
  <2>2. q[k+1] = ParseAtom(S, q[k], c[k+1]) /\ r[k+1] = ParseAtom(S, r[k], b[k+1])
    BY <1>2, <1>3, <2>1 DEF Reads
  <2> QED BY <1>1, <2>1, <2>2
<1> HIDE DEF T
<1>6. n \in T
  BY <1>1, <1>4, <1>5, Induct
<1>7. q[n] = r[n]
  BY <1>1, <1>6 DEF T
<1>8. q[n+1] = ParseAtom(S, q[n], c[n+1])
  <2>1. n + 1 \in 0..(n+1) /\ n + 1 # 0 /\ (n + 1) - 1 = n
    BY <1>1
  <2> QED BY <1>3, <2>1 DEF Reads
<1> QED BY <1>1, <1>2, <1>3, <1>7, <1>8

\* The same for ParseFlat.
ReadsFlat(r, S, m, b, n) ==
    r = [i \in 0..n |-> IF i = 0 THEN m ELSE FlatAtom(S, r[i-1], b[i])]

LEMMA FlatLoop ==
    ASSUME NEW S, NEW m, NEW b, Len(b) \in Nat
    PROVE  \E r : ReadsFlat(r, S, m, b, Len(b)) /\ ParseFlat(S, m, b) = r[Len(b)]
<1> DEFINE T == {k \in Nat : \E r : ReadsFlat(r, S, m, b, k)}
           f == CHOOSE r : ReadsFlat(r, S, m, b, Len(b))
<1>1. 0 \in T
  <2> DEFINE r == [i \in 0..0 |-> m]
  <2>1. ReadsFlat(r, S, m, b, 0)
    BY DEF ReadsFlat
  <2> QED BY <2>1
<1>2. ASSUME NEW k \in Nat, k \in T PROVE k + 1 \in T
  <2>1. PICK r : ReadsFlat(r, S, m, b, k)
    BY <1>2
  <2> DEFINE q == [i \in 0..(k+1) |-> IF i = k + 1 THEN FlatAtom(S, r[k], b[k+1]) ELSE r[i]]
  <2>2. \A i \in 0..k : r[i] = IF i = 0 THEN m ELSE FlatAtom(S, r[i-1], b[i])
    BY <2>1 DEF ReadsFlat
  <2>3. /\ q = [i \in 0..(k+1) |-> q[i]]
        /\ q[k+1] = FlatAtom(S, r[k], b[k+1])
        /\ \A i \in 0..k : q[i] = r[i]
    OBVIOUS
  <2> HIDE DEF q
  <2>4. ASSUME NEW i \in 0..(k+1)
        PROVE  q[i] = IF i = 0 THEN m ELSE FlatAtom(S, q[i-1], b[i])
    <3>1. CASE i = k + 1
      <4>1. i - 1 = k /\ k \in 0..k /\ i # 0
        BY <3>1
      <4> QED BY <2>3, <3>1, <4>1
    <3>2. CASE i \in 0..k
      <4>1. i # 0 => i - 1 \in 0..k
        BY <3>2
      <4> QED BY <2>2, <2>3, <3>2, <4>1
    <3> QED BY <3>1, <3>2
  <2>5. ReadsFlat(q, S, m, b, k + 1)
    BY <2>3, <2>4 DEF ReadsFlat
  <2> QED BY <2>5
<1> HIDE DEF T
<1>3. Len(b) \in T
  BY <1>1, <1>2, Induct
<1>4. \E r : ReadsFlat(r, S, m, b, Len(b))
  BY <1>3 DEF T
<1>5. ReadsFlat(f, S, m, b, Len(b))
  BY <1>4
<1>6. ParseFlat(S, m, b) = f[Len(b)]
  BY DEF ParseFlat, ReadsFlat
<1> QED BY <1>5, <1>6

LEMMA FlatNone ==
    ASSUME NEW S, NEW m PROVE ParseFlat(S, m, <<>>) = m
<1>1. Len(<<>>) = 0
  OBVIOUS
<1>2. PICK r : ReadsFlat(r, S, m, <<>>, 0) /\ ParseFlat(S, m, <<>>) = r[0]
  BY <1>1, FlatLoop
<1> QED BY <1>2 DEF ReadsFlat

LEMMA FlatMore ==
    ASSUME NEW S, NEW m, NEW b, NEW a, NEW c, Ends(c, b, a)
    PROVE  ParseFlat(S, m, c) = FlatAtom(S, ParseFlat(S, m, b), a)
<1> DEFINE n == Len(b)
<1>1. n \in Nat /\ Len(c) = n + 1 /\ c[n+1] = a /\ \A i \in 1..n : c[i] = b[i]
  BY EndsFacts
<1>2. PICK r : ReadsFlat(r, S, m, b, n) /\ ParseFlat(S, m, b) = r[n]
  BY <1>1, FlatLoop
<1>3. PICK q : ReadsFlat(q, S, m, c, n + 1) /\ ParseFlat(S, m, c) = q[n+1]
  BY <1>1, FlatLoop
<1> HIDE DEF n
<1> DEFINE T == {k \in Nat : k <= n => q[k] = r[k]}
<1>4. 0 \in T
  <2>1. q[0] = m /\ r[0] = m
    BY <1>1, <1>2, <1>3 DEF ReadsFlat
  <2> QED BY <2>1
<1>5. ASSUME NEW k \in Nat, k \in T PROVE k + 1 \in T
  <2> SUFFICES ASSUME k + 1 <= n PROVE q[k+1] = r[k+1]
    OBVIOUS
  <2>1. q[k] = r[k] /\ k + 1 \in 1..n /\ (k + 1) - 1 = k /\ k + 1 \in 0..n
        /\ k + 1 \in 0..(n+1) /\ k + 1 # 0
    BY <1>1, <1>5
  <2>2. q[k+1] = FlatAtom(S, q[k], c[k+1]) /\ r[k+1] = FlatAtom(S, r[k], b[k+1])
    BY <1>2, <1>3, <2>1 DEF ReadsFlat
  <2> QED BY <1>1, <2>1, <2>2
<1> HIDE DEF T
<1>6. n \in T
  BY <1>1, <1>4, <1>5, Induct
<1>7. q[n] = r[n]
  BY <1>1, <1>6 DEF T
<1>8. q[n+1] = FlatAtom(S, q[n], c[n+1])
  <2>1. n + 1 \in 0..(n+1) /\ n + 1 # 0 /\ (n + 1) - 1 = n
    BY <1>1
  <2> QED BY <1>3, <2>1 DEF ReadsFlat
<1> QED BY <1>1, <1>2, <1>3, <1>7, <1>8

\* r is the sum of the first numbers of s.
Sums(r, s, n) ==
    r = [i \in 0..n |-> IF i = 0 THEN 0 ELSE r[i-1] + s[i]]

LEMMA TotalLoop ==
    ASSUME NEW s, Len(s) \in Nat
    PROVE  \E r : Sums(r, s, Len(s)) /\ Total(s) = r[Len(s)]
<1> DEFINE T == {k \in Nat : \E r : Sums(r, s, k)}
           f == CHOOSE r : Sums(r, s, Len(s))
<1>1. 0 \in T
  <2> DEFINE r == [i \in 0..0 |-> 0]
  <2>1. Sums(r, s, 0)
    BY DEF Sums
  <2> QED BY <2>1
<1>2. ASSUME NEW k \in Nat, k \in T PROVE k + 1 \in T
  <2>1. PICK r : Sums(r, s, k)
    BY <1>2
  <2> DEFINE q == [i \in 0..(k+1) |-> IF i = k + 1 THEN r[k] + s[k+1] ELSE r[i]]
  <2>2. \A i \in 0..k : r[i] = IF i = 0 THEN 0 ELSE r[i-1] + s[i]
    BY <2>1 DEF Sums
  <2>3. /\ q = [i \in 0..(k+1) |-> q[i]]
        /\ q[k+1] = r[k] + s[k+1]
        /\ \A i \in 0..k : q[i] = r[i]
    OBVIOUS
  <2> HIDE DEF q
  <2>4. ASSUME NEW i \in 0..(k+1)
        PROVE  q[i] = IF i = 0 THEN 0 ELSE q[i-1] + s[i]
    <3>1. CASE i = k + 1
      <4>1. i - 1 = k /\ k \in 0..k /\ i # 0
        BY <3>1
      <4> QED BY <2>3, <3>1, <4>1
    <3>2. CASE i \in 0..k
      <4>1. i # 0 => i - 1 \in 0..k
        BY <3>2
      <4> QED BY <2>2, <2>3, <3>2, <4>1
    <3> QED BY <3>1, <3>2
  <2>5. Sums(q, s, k + 1)
    BY <2>3, <2>4 DEF Sums
  <2> QED BY <2>5
<1> HIDE DEF T
<1>3. Len(s) \in T
  BY <1>1, <1>2, Induct
<1>4. \E r : Sums(r, s, Len(s))
  BY <1>3 DEF T
<1>5. Sums(f, s, Len(s))
  BY <1>4
<1>6. Total(s) = f[Len(s)]
  BY DEF Total, Sums
<1> QED BY <1>5, <1>6

LEMMA TotalNone ==
    Total(<<>>) = 0
<1>1. Len(<<>>) = 0
  OBVIOUS
<1>2. PICK r : Sums(r, <<>>, 0) /\ Total(<<>>) = r[0]
  BY <1>1, TotalLoop
<1> QED BY <1>2 DEF Sums

LEMMA TotalMore ==
    ASSUME NEW s, NEW a, NEW c, Ends(c, s, a)
    PROVE  Total(c) = Total(s) + a
<1> DEFINE n == Len(s)
<1>1. n \in Nat /\ Len(c) = n + 1 /\ c[n+1] = a /\ \A i \in 1..n : c[i] = s[i]
  BY EndsFacts
<1>2. PICK r : Sums(r, s, n) /\ Total(s) = r[n]
  BY <1>1, TotalLoop
<1>3. PICK q : Sums(q, c, n + 1) /\ Total(c) = q[n+1]
  BY <1>1, TotalLoop
<1> HIDE DEF n
<1> DEFINE T == {k \in Nat : k <= n => q[k] = r[k]}
<1>4. 0 \in T
  <2>1. q[0] = 0 /\ r[0] = 0
    BY <1>1, <1>2, <1>3 DEF Sums
  <2> QED BY <2>1
<1>5. ASSUME NEW k \in Nat, k \in T PROVE k + 1 \in T
  <2> SUFFICES ASSUME k + 1 <= n PROVE q[k+1] = r[k+1]
    OBVIOUS
  <2>1. q[k] = r[k] /\ k + 1 \in 1..n /\ (k + 1) - 1 = k /\ k + 1 \in 0..n
        /\ k + 1 \in 0..(n+1) /\ k + 1 # 0
    BY <1>1, <1>5
  <2>2. q[k+1] = q[k] + c[k+1] /\ r[k+1] = r[k] + s[k+1]
    BY <1>2, <1>3, <2>1 DEF Sums
  <2> QED BY <1>1, <2>1, <2>2
<1> HIDE DEF T
<1>6. n \in T
  BY <1>1, <1>4, <1>5, Induct
<1>7. q[n] = r[n]
  BY <1>1, <1>6 DEF T
<1>8. q[n+1] = q[n] + c[n+1]
  <2>1. n + 1 \in 0..(n+1) /\ n + 1 # 0 /\ (n + 1) - 1 = n
    BY <1>1
  <2> QED BY <1>3, <2>1 DEF Sums
<1> QED BY <1>1, <1>2, <1>3, <1>7, <1>8

\* r is the concatenation of the first sequences of s.
Joins(r, s, n) == r = [i \in 1..n |-> IF i = 1 THEN s[i] ELSE r[i-1] \o s[i]]

LEMMA FlattenLoop ==
    ASSUME NEW s, Len(s) \in Nat, Len(s) # 0
    PROVE  \E r : Joins(r, s, Len(s)) /\ FlattenSeq(s) = r[Len(s)]
<1> DEFINE T == {k \in Nat : \E r : Joins(r, s, k)}
           f == CHOOSE r : Joins(r, s, Len(s))
<1>1. 0 \in T
  <2> DEFINE r == [i \in 1..0 |-> 0]
  <2>1. Joins(r, s, 0)
    BY DEF Joins
  <2> QED BY <2>1
<1>2. ASSUME NEW k \in Nat, k \in T PROVE k + 1 \in T
  <2>1. PICK r : Joins(r, s, k)
    BY <1>2
  <2> DEFINE last == IF k = 0 THEN s[1] ELSE r[k] \o s[k+1]
             q == [i \in 1..(k+1) |-> IF i = k + 1 THEN last ELSE r[i]]
  <2>2. \A i \in 1..k : r[i] = IF i = 1 THEN s[i] ELSE r[i-1] \o s[i]
    BY <2>1 DEF Joins
  <2> HIDE DEF last
  <2>3. /\ q = [i \in 1..(k+1) |-> q[i]]
        /\ q[k+1] = last
        /\ \A i \in 1..k : q[i] = r[i]
    OBVIOUS
  <2> HIDE DEF q
  <2>4. ASSUME NEW i \in 1..(k+1)
        PROVE  q[i] = IF i = 1 THEN s[i] ELSE q[i-1] \o s[i]
    <3>1. CASE i = k + 1 /\ k = 0
      BY <2>3, <3>1 DEF last
    <3>2. CASE i = k + 1 /\ k # 0
      <4>1. i - 1 = k /\ k \in 1..k /\ i # 1
        BY <3>2
      <4> QED BY <2>3, <3>2, <4>1 DEF last
    <3>3. CASE i \in 1..k
      <4>1. i # 1 => i - 1 \in 1..k
        BY <3>3
      <4> QED BY <2>2, <2>3, <3>3, <4>1
    <3> QED BY <3>1, <3>2, <3>3
  <2>5. Joins(q, s, k + 1)
    BY <2>3, <2>4 DEF Joins
  <2> QED BY <2>5
<1> HIDE DEF T
<1>3. Len(s) \in T
  BY <1>1, <1>2, Induct
<1>4. \E r : Joins(r, s, Len(s))
  BY <1>3 DEF T
<1>5. Joins(f, s, Len(s))
  BY <1>4
<1>6. FlattenSeq(s) = f[Len(s)]
  BY DEF FlattenSeq, Joins
<1> QED BY <1>5, <1>6

LEMMA FlattenNone == FlattenSeq(<<>>) = <<>>
BY DEF FlattenSeq

LEMMA FlattenMore ==
    ASSUME NEW s, NEW a, IsSeq(a), NEW c, Ends(c, s, a)
    PROVE  FlattenSeq(c) = FlattenSeq(s) \o a
<1> DEFINE n == Len(s)
<1>1. n \in Nat /\ Len(c) = n + 1 /\ c[n+1] = a /\ \A i \in 1..n : c[i] = s[i]
  BY EndsFacts
<1>2. PICK q : Joins(q, c, n + 1) /\ FlattenSeq(c) = q[n+1]
  BY <1>1, FlattenLoop
<1>3. CASE n = 0
  <2>1. s = <<>>
    BY <1>3, EndsFacts, NoneSeq, SameSeq
  <2>2. q[1] = c[1]
    BY <1>2, <1>3 DEF Joins
  <2>3. FlattenSeq(s) \o a = a
    BY <2>1, FlattenNone, ConcatNone
  <2> QED BY <1>1, <1>2, <1>3, <2>2, <2>3
<1>4. CASE n # 0
  <2>1. PICK r : Joins(r, s, n) /\ FlattenSeq(s) = r[n]
    BY <1>1, <1>4, FlattenLoop
  <2> HIDE DEF n
  <2> DEFINE T == {k \in Nat : k + 1 <= n => q[k+1] = r[k+1]}
  <2>2. 0 \in T
    <3>1. 1 \in 1..n /\ 1 \in 1..(n+1)
      BY <1>1, <1>4
    <3>2. q[1] = c[1] /\ r[1] = s[1]
      BY <1>2, <2>1, <3>1 DEF Joins
    <3> QED BY <1>1, <3>1, <3>2
  <2>3. ASSUME NEW k \in Nat, k \in T PROVE k + 1 \in T
    <3> SUFFICES ASSUME k + 2 <= n PROVE q[k+2] = r[k+2]
      <4>1. (k + 1) + 1 = k + 2
        OBVIOUS
      <4> QED BY <4>1
    <3>1. q[k+1] = r[k+1] /\ k + 2 \in 1..n /\ (k + 2) - 1 = k + 1
          /\ k + 2 \in 1..(n+1) /\ k + 2 # 1
      BY <1>1, <2>3
    <3>2. q[k+2] = q[k+1] \o c[k+2] /\ r[k+2] = r[k+1] \o s[k+2]
      BY <1>2, <2>1, <3>1 DEF Joins
    <3> QED BY <1>1, <3>1, <3>2
  <2> HIDE DEF T
  <2>4. n - 1 \in T
    BY <1>1, <1>4, <2>2, <2>3, Induct
  <2>5. q[n] = r[n]
    <3>1. (n - 1) + 1 = n /\ n - 1 \in Nat
      BY <1>1, <1>4
    <3> QED BY <1>1, <2>4, <3>1 DEF T
  <2>6. q[n+1] = q[n] \o c[n+1]
    <3>1. n + 1 \in 1..(n+1) /\ n + 1 # 1 /\ (n + 1) - 1 = n
      BY <1>1, <1>4
    <3> QED BY <1>2, <3>1 DEF Joins
  <2> QED BY <1>1, <1>2, <2>1, <2>5, <2>6
<1> QED BY <1>3, <1>4

-----------------------------------------------------------------------------
(* Concatenations *)

LEMMA NoLength ==
    ASSUME NEW c, IsSeq(c), Len(c) = 0 PROVE c = <<>>
BY NoneSeq, SameSeq

LEMMA ParseConcat ==
    ASSUME NEW S, NEW m, NEW b, IsSeq(b), NEW c, IsSeq(c)
    PROVE  ParseInto(S, m, b \o c) = ParseInto(S, ParseInto(S, m, b), c)
<1> DEFINE Good(x) == ParseInto(S, m, b \o x) = ParseInto(S, ParseInto(S, m, b), x)
           T == {n \in Nat : \A x : IsSeq(x) /\ Len(x) = n => Good(x)}
<1>1. 0 \in T
  <2> SUFFICES ASSUME NEW x, IsSeq(x), Len(x) = 0 PROVE Good(x)
    OBVIOUS
  <2>1. x = <<>>
    BY NoLength
  <2> QED BY <2>1, ConcatNone, ParseNone
<1>2. ASSUME NEW n \in Nat, n \in T PROVE n + 1 \in T
  <2> SUFFICES ASSUME NEW x, IsSeq(x), Len(x) = n + 1 PROVE Good(x)
    OBVIOUS
  <2>1. PICK d, a : Ends(x, d, a) /\ Len(d) = n
    BY LastSplit
  <2>2. Good(d)
    BY <1>2, <2>1, EndsFacts
  <2>3. ParseInto(S, m, b \o x) = ParseAtom(S, ParseInto(S, m, b \o d), a)
    BY <2>1, ConcatEnds, ParseMore
  <2>4. ParseInto(S, ParseInto(S, m, b), x)
          = ParseAtom(S, ParseInto(S, ParseInto(S, m, b), d), a)
    BY <2>1, ParseMore
  <2> QED BY <2>2, <2>3, <2>4
<1> HIDE DEF T
<1>3. Len(c) \in T
  BY <1>1, <1>2, Induct, SeqFacts
<1> QED BY <1>3 DEF T

LEMMA ParseOne ==
    ASSUME NEW S, NEW m, NEW a PROVE ParseInto(S, m, <<a>>) = ParseAtom(S, m, a)
<1> DEFINE c == <<a>>
           n == <<>>
<1>1. Ends(c, n, a) /\ ParseInto(S, m, n) = m
  BY OneEnds, ParseNone
<1> HIDE DEF c, n
<1>2. ParseInto(S, m, c) = ParseAtom(S, m, a)
  BY <1>1, ParseMore
<1> QED BY <1>2 DEF c

\* The types whose values are no messages.
ValueTypes == {"int", "bool", "bytes", "string", "floats", "strings", "map"}
FlatFields(S) == \A i \in DOMAIN S : S[i].type \in ValueTypes

\* A message without messages in it is read in the same way on either level.
LEMMA FlatIsParse ==
    ASSUME NEW S, FlatFields(S), NEW m, NEW b, IsSeq(b)
    PROVE  ParseFlat(S, m, b) = ParseInto(S, m, b)
<1> DEFINE T == {n \in Nat : \A x : IsSeq(x) /\ Len(x) = n
                                    => ParseFlat(S, m, x) = ParseInto(S, m, x)}
<1>1. 0 \in T
  BY NoLength, FlatNone, ParseNone
<1>2. ASSUME NEW n \in Nat, n \in T PROVE n + 1 \in T
  <2> SUFFICES ASSUME NEW x, IsSeq(x), Len(x) = n + 1
               PROVE  ParseFlat(S, m, x) = ParseInto(S, m, x)
    OBVIOUS
  <2>1. PICK d, a : Ends(x, d, a) /\ Len(d) = n
    BY LastSplit
  <2>2. PICK r : r = ParseFlat(S, m, d) /\ r = ParseInto(S, m, d)
    BY <1>2, <2>1, EndsFacts
  <2>3. ParseFlat(S, m, x) = FlatAtom(S, r, a) /\ ParseInto(S, m, x) = ParseAtom(S, r, a)
    <3>0. ParseFlat(S, m, x) = FlatAtom(S, ParseFlat(S, m, d), a)
      BY <2>1, FlatMore
    <3>1. ParseFlat(S, m, x) = FlatAtom(S, r, a)
      BY <2>2, <3>0
    <3>2. ParseInto(S, m, x) = ParseAtom(S, r, a)
      BY <2>1, <2>2, ParseMore
    <3> QED BY <3>1, <3>2
  <2>4. CASE Known(S, a) = {}
    BY <2>3, <2>4 DEF FlatAtom, ParseAtom
  <2>5. CASE Known(S, a) # {}
    <3> DEFINE f == FieldOf(S, a)
    <3>1. f.type \in ValueTypes
      <4>1. PICK k \in Known(S, a) : f = S[k]
        BY <2>5 DEF FieldOf
      <4> QED BY <4>1 DEF Known, FlatFields
    <3> HIDE DEF f
    <3>2. ParseField(f, r[f.name], a) = ParseValue(f, r[f.name], a)
      BY <3>1 DEF ParseField, ValueTypes
    <3> QED BY <2>3, <2>5, <3>2 DEF FlatAtom, ParseAtom, f
  <2> QED BY <2>4, <2>5
<1> HIDE DEF T
<1>3. Len(b) \in T
  BY <1>1, <1>2, Induct, SeqFacts
<1> QED BY <1>3 DEF T

-----------------------------------------------------------------------------
(* Lengths *)

LEMMA MinIs ==
    ASSUME NEW X \in SUBSET Int, NEW x \in X, \A y \in X : x <= y
    PROVE  Min(X) = x
<1>1. \A z \in X : (\A y \in X : z <= y) => z = x
  OBVIOUS
<1> QED BY <1>1 DEF Min

LEMMA FewNumbers ==
    /\ Cardinality({}) = 0 /\ Cardinality({1}) = 1 /\ Cardinality({1, 2}) = 2
    /\ Cardinality({1, 2, 3}) = 3 /\ Cardinality({1, 2, 3, 4}) = 4
<1>1. Cardinality({}) = 0 /\ IsFiniteSet({})
  BY FS_EmptySet
<1>2. IsFiniteSet({1}) /\ Cardinality({1}) = 1
  BY FS_Singleton
<1>3. IsFiniteSet({1, 2}) /\ Cardinality({1, 2}) = 2
  <2>1. {1, 2} = {1} \cup {2} /\ 2 \notin {1}
    OBVIOUS
  <2> QED BY <1>2, <2>1, FS_AddElement
<1>4. IsFiniteSet({1, 2, 3}) /\ Cardinality({1, 2, 3}) = 3
  <2>1. {1, 2, 3} = {1, 2} \cup {3} /\ 3 \notin {1, 2}
    OBVIOUS
  <2> QED BY <1>3, <2>1, FS_AddElement
<1>5. Cardinality({1, 2, 3, 4}) = 4
  <2>1. {1, 2, 3, 4} = {1, 2, 3} \cup {4} /\ 4 \notin {1, 2, 3}
    OBVIOUS
  <2> QED BY <1>4, <2>1, FS_AddElement
<1> QED BY <1>1, <1>2, <1>3, <1>4, <1>5

\* WriteVarint writes as many bytes as Int32Size says.
LEMMA GroupsSize ==
    ASSUME NEW v \in Int PROVE Groups(v) = VarintSize(v) /\ VarintSize(v) \in Nat
<1> DEFINE Fit  == {n \in 1..4 : v < Limit(n)} \cup {5}
           More == {n \in 1..4 : v >= Limit(n)}
           Good == Groups(v) = VarintSize(v) /\ VarintSize(v) \in Nat
<1>1. /\ Limit(1) \in Int /\ Limit(2) \in Int /\ Limit(3) \in Int /\ Limit(4) \in Int
      /\ 0 < Limit(1) /\ Limit(1) < Limit(2) /\ Limit(2) < Limit(3) /\ Limit(3) < Limit(4)
  BY DEF Limit
<1>2. 1..4 = {1, 2, 3, 4}
  OBVIOUS
<1>3. /\ Min({1, 2, 3, 4, 5}) = 1 /\ Min({2, 3, 4, 5}) = 2 /\ Min({3, 4, 5}) = 3
      /\ Min({4, 5}) = 4 /\ Min({5}) = 5
  BY MinIs
<1>4. ASSUME NEW k \in 0..4, v >= 0, Min(Fit) = k + 1, Cardinality(More) = k PROVE Good
  BY <1>4 DEF Groups, VarintSize
<1>5. CASE v < 0
  BY <1>5 DEF Groups, VarintSize
<1>6. CASE 0 <= v /\ v < Limit(1)
  <2>1. Fit = {1, 2, 3, 4, 5} /\ More = {}
    BY <1>1, <1>2, <1>6
  <2> QED BY <1>3, <1>4, <1>6, <2>1, FewNumbers
<1>7. CASE Limit(1) <= v /\ v < Limit(2)
  <2>1. Fit = {2, 3, 4, 5} /\ More = {1} /\ v >= 0
    BY <1>1, <1>2, <1>7
  <2> QED BY <1>3, <1>4, <2>1, FewNumbers
<1>8. CASE Limit(2) <= v /\ v < Limit(3)
  <2>1. Fit = {3, 4, 5} /\ More = {1, 2} /\ v >= 0
    BY <1>1, <1>2, <1>8
  <2> QED BY <1>3, <1>4, <2>1, FewNumbers
<1>9. CASE Limit(3) <= v /\ v < Limit(4)
  <2>1. Fit = {4, 5} /\ More = {1, 2, 3} /\ v >= 0
    BY <1>1, <1>2, <1>9
  <2> QED BY <1>3, <1>4, <2>1, FewNumbers
<1>10. CASE Limit(4) <= v
  <2>1. Fit = {5} /\ More = {1, 2, 3, 4} /\ v >= 0
    BY <1>1, <1>2, <1>10
  <2> QED BY <1>3, <1>4, <2>1, FewNumbers
<1> HIDE DEF Good
<1> QED
  <2>1. v < 0 \/ (0 <= v /\ v < Limit(1)) \/ (Limit(1) <= v /\ v < Limit(2))
        \/ (Limit(2) <= v /\ v < Limit(3)) \/ (Limit(3) <= v /\ v < Limit(4))
        \/ Limit(4) <= v
    BY <1>1
  <2> QED BY <1>5, <1>6, <1>7, <1>8, <1>9, <1>10, <2>1 DEF Good

\* The lengths of the atoms of b.
Lengths(b) == [i \in DOMAIN b |-> AtomLength(b[i])]

LEMMA LengthMore ==
    ASSUME NEW c, NEW d, NEW a, Ends(c, d, a)
    PROVE  Length(c) = Length(d) + AtomLength(a)
<1>1. /\ IsSeq(c) /\ IsSeq(d) /\ Len(d) \in Nat /\ Len(c) = Len(d) + 1
      /\ c[Len(d) + 1] = a /\ (\A i \in 1..Len(d) : c[i] = d[i])
      /\ DOMAIN c = 1..Len(c) /\ DOMAIN d = 1..Len(d)
  BY EndsFacts, SeqFacts
<1> DEFINE x == Lengths(c)
           y == Lengths(d)
<1>2. /\ x = [i \in 1..Len(c) |-> x[i]] /\ y = [i \in 1..Len(d) |-> y[i]]
      /\ \A i \in 1..Len(c) : x[i] = AtomLength(c[i])
      /\ \A i \in 1..Len(d) : y[i] = AtomLength(d[i])
  BY <1>1 DEF Lengths
<1>3. Length(c) = Total(x) /\ Length(d) = Total(y)
  BY DEF Length, Lengths
<1> HIDE DEF x, y
<1>4. IsSeq(x) /\ Len(x) = Len(c) /\ IsSeq(y) /\ Len(y) = Len(d)
  BY <1>1, <1>2, SeqIntro
<1>5. (\A i \in 1..Len(y) : x[i] = y[i]) /\ x[Len(y) + 1] = AtomLength(a)
  BY <1>1, <1>2, <1>4
<1>6. Ends(x, y, AtomLength(a))
  BY <1>1, <1>4, <1>5, EndsIntro
<1> QED BY <1>3, <1>6, TotalMore

LEMMA NoBytes == Length(<<>>) = 0 /\ IsBytes(<<>>)
<1>1. Lengths(<<>>) = <<>>
  BY DEF Lengths
<1>2. Length(<<>>) = 0
  BY <1>1, TotalNone DEF Length, Lengths
<1> QED BY <1>2, NoneSeq DEF IsBytes

LEMMA BytesMore ==
    ASSUME NEW c, NEW d, NEW a, Ends(c, d, a)
    PROVE  IsBytes(c) <=> IsBytes(d) /\ AtomLength(a) \in Nat
<1>1. /\ IsSeq(c) /\ IsSeq(d) /\ Len(d) \in Nat /\ Len(c) = Len(d) + 1
      /\ c[Len(d) + 1] = a /\ (\A i \in 1..Len(d) : c[i] = d[i])
      /\ DOMAIN c = 1..Len(c) /\ DOMAIN d = 1..Len(d)
  BY EndsFacts, SeqFacts
<1>2. \A i \in DOMAIN c : i \in DOMAIN d \/ i = Len(d) + 1
  BY <1>1
<1>3. Len(d) + 1 \in DOMAIN c /\ DOMAIN d \subseteq DOMAIN c
  BY <1>1
<1> QED BY <1>1, <1>2, <1>3 DEF IsBytes

LEMMA LengthNat ==
    ASSUME NEW b, IsBytes(b) PROVE Length(b) \in Nat
<1> DEFINE T == {n \in Nat : \A x : IsBytes(x) /\ Len(x) = n => Length(x) \in Nat}
<1>1. 0 \in T
  BY NoLength, NoBytes DEF IsBytes
<1>2. ASSUME NEW n \in Nat, n \in T PROVE n + 1 \in T
  <2> SUFFICES ASSUME NEW x, IsBytes(x), Len(x) = n + 1 PROVE Length(x) \in Nat
    OBVIOUS
  <2>1. PICK d, a : Ends(x, d, a) /\ Len(d) = n
    BY LastSplit DEF IsBytes
  <2>2. IsBytes(d) /\ AtomLength(a) \in Nat /\ Length(x) = Length(d) + AtomLength(a)
    BY <2>1, BytesMore, LengthMore
  <2> QED BY <1>2, <2>1, <2>2
<1> HIDE DEF T
<1>3. Len(b) \in T
  BY <1>1, <1>2, Induct, SeqFacts DEF IsBytes
<1> QED BY <1>3 DEF T

LEMMA BytesConcat ==
    ASSUME NEW b, IsBytes(b), NEW c, IsBytes(c)
    PROVE  IsBytes(b \o c) /\ Length(b \o c) = Length(b) + Length(c)
<1> DEFINE Good(x) == IsBytes(b \o x) /\ Length(b \o x) = Length(b) + Length(x)
           T == {n \in Nat : \A x : IsBytes(x) /\ Len(x) = n => Good(x)}
<1>0. IsSeq(b) /\ Length(b) \in Nat
  BY LengthNat DEF IsBytes
<1>1. 0 \in T
  <2> SUFFICES ASSUME NEW x, IsBytes(x), Len(x) = 0 PROVE Good(x)
    OBVIOUS
  <2>1. x = <<>>
    BY NoLength DEF IsBytes
  <2>2. b \o x = b /\ Length(x) = 0
    BY <1>0, <2>1, ConcatNone, NoBytes
  <2> QED BY <1>0, <2>2
<1>2. ASSUME NEW n \in Nat, n \in T PROVE n + 1 \in T
  <2> SUFFICES ASSUME NEW x, IsBytes(x), Len(x) = n + 1 PROVE Good(x)
    OBVIOUS
  <2>1. PICK d, a : Ends(x, d, a) /\ Len(d) = n
    BY LastSplit DEF IsBytes
  <2>2. /\ IsBytes(d) /\ AtomLength(a) \in Nat /\ Length(x) = Length(d) + AtomLength(a)
        /\ Length(d) \in Nat
    BY <2>1, BytesMore, LengthMore, LengthNat
  <2>3. Good(d)
    BY <1>2, <2>1, <2>2
  <2>4. Ends(b \o x, b \o d, a)
    BY <1>0, <2>1, ConcatEnds
  <2>5. IsBytes(b \o x) /\ Length(b \o x) = Length(b \o d) + AtomLength(a)
    BY <2>2, <2>3, <2>4, BytesMore, LengthMore
  <2> QED BY <1>0, <2>2, <2>3, <2>5
<1> HIDE DEF T
<1>3. Len(c) \in T
  BY <1>1, <1>2, Induct, SeqFacts DEF IsBytes
<1> QED BY <1>3 DEF T

LEMMA BytesOne ==
    ASSUME NEW a, AtomLength(a) \in Nat
    PROVE  IsBytes(<<a>>) /\ Length(<<a>>) = AtomLength(a)
<1> DEFINE c == <<a>>
           n == <<>>
<1>1. Ends(c, n, a) /\ Length(n) = 0 /\ IsBytes(n)
  BY OneEnds, NoBytes
<1> HIDE DEF c, n
<1>2. IsBytes(c) /\ Length(c) = AtomLength(a)
  BY <1>1, BytesMore, LengthMore
<1> QED BY <1>2 DEF c

LEMMA VarintBytes ==
    ASSUME NEW n, NEW v \in Int
    PROVE  IsBytes(Varint(n, v)) /\ Length(Varint(n, v)) = 1 + VarintSize(v)
<1> DEFINE a == [num |-> n, varint |-> v]
<1>1. DOMAIN a = {"num", "varint"} /\ a.varint = v
  OBVIOUS
<1>2. Varint(n, v) = <<a>>
  BY DEF Varint
<1> HIDE DEF a
<1>3. AtomLength(a) = 1 + Groups(v)
  BY <1>1 DEF AtomLength, Has
<1> QED BY <1>2, <1>3, GroupsSize, BytesOne

LEMMA ChunkBytes ==
    ASSUME NEW n, NEW b, IsBytes(b)
    PROVE  IsBytes(Chunk(n, b)) /\ Length(Chunk(n, b)) = 1 + Delimited(Length(b))
<1> DEFINE a == [num |-> n, length |-> Length(b), chunk |-> b]
<1>1. DOMAIN a = {"num", "length", "chunk"} /\ a.length = Length(b)
  OBVIOUS
<1>2. Chunk(n, b) = <<a>>
  BY DEF Chunk
<1> HIDE DEF a
<1>3. AtomLength(a) = 1 + Groups(Length(b)) + Length(b)
  BY <1>1 DEF AtomLength, Has
<1>4. Length(b) \in Nat
  BY LengthNat
<1> QED BY <1>2, <1>3, <1>4, GroupsSize, BytesOne DEF Delimited

LEMMA TotalNat ==
    ASSUME NEW s, IsSeq(s), \A i \in DOMAIN s : s[i] \in Nat
    PROVE  Total(s) \in Nat
<1> DEFINE Hyp(x) == IsSeq(x) /\ \A i \in DOMAIN x : x[i] \in Nat
           T == {n \in Nat : \A x : Hyp(x) /\ Len(x) = n => Total(x) \in Nat}
<1>1. 0 \in T
  BY NoLength, TotalNone
<1>2. ASSUME NEW n \in Nat, n \in T PROVE n + 1 \in T
  <2> SUFFICES ASSUME NEW x, Hyp(x), Len(x) = n + 1 PROVE Total(x) \in Nat
    OBVIOUS
  <2>1. PICK d, a : Ends(x, d, a) /\ Len(d) = n
    BY LastSplit
  <2>2. /\ IsSeq(d) /\ x[n+1] = a /\ (\A i \in 1..n : x[i] = d[i])
        /\ DOMAIN x = 1..(n+1) /\ DOMAIN d = 1..n
    BY <2>1, EndsAt
  <2>3. Hyp(d) /\ a \in Nat
    BY <2>2
  <2>4. Total(d) \in Nat
    BY <1>2, <2>1, <2>3
  <2>5. Total(x) = Total(d) + a
    BY <2>1, TotalMore
  <2> QED BY <2>3, <2>4, <2>5
<1> HIDE DEF T
<1>3. Len(s) \in T
  BY <1>1, <1>2, Induct, SeqFacts
<1> QED BY <1>3 DEF T

\* A tag before each of several values: as many bytes more as there are values.
LEMMA TotalTags ==
    ASSUME NEW s, IsSeq(s), \A i \in DOMAIN s : s[i] \in Nat,
           NEW t, IsSeq(t), Len(t) = Len(s), \A i \in DOMAIN s : t[i] = 1 + s[i]
    PROVE  Total(t) = Len(s) + Total(s)
<1> DEFINE Hyp(x, y) == /\ IsSeq(x) /\ IsSeq(y) /\ Len(y) = Len(x)
                        /\ \A i \in DOMAIN x : x[i] \in Nat /\ y[i] = 1 + x[i]
           T == {n \in Nat : \A x, y : Hyp(x, y) /\ Len(x) = n => Total(y) = n + Total(x)}
<1>1. 0 \in T
  <2> SUFFICES ASSUME NEW x, NEW y, Hyp(x, y), Len(x) = 0 PROVE Total(y) = 0 + Total(x)
    OBVIOUS
  <2>1. x = <<>> /\ y = <<>>
    BY NoLength
  <2> QED BY <2>1, TotalNone
<1>2. ASSUME NEW n \in Nat, n \in T PROVE n + 1 \in T
  <2> SUFFICES ASSUME NEW x, NEW y, Hyp(x, y), Len(x) = n + 1
               PROVE  Total(y) = (n + 1) + Total(x)
    OBVIOUS
  <2>1. PICK d, a : Ends(x, d, a) /\ Len(d) = n
    BY LastSplit
  <2>2. PICK e, c : Ends(y, e, c) /\ Len(e) = n
    BY LastSplit
  <2>3. /\ IsSeq(d) /\ x[n+1] = a /\ (\A i \in 1..n : x[i] = d[i])
        /\ DOMAIN x = 1..(n+1) /\ DOMAIN d = 1..n
    BY <2>1, EndsAt
  <2>4. IsSeq(e) /\ y[n+1] = c /\ (\A i \in 1..n : y[i] = e[i])
    BY <2>2, EndsAt
  <2>5. Hyp(d, e) /\ a \in Nat /\ c = 1 + a
    BY <2>1, <2>2, <2>3, <2>4
  <2>6. Total(e) = n + Total(d) /\ Total(d) \in Nat
    BY <1>2, <2>1, <2>5, TotalNat
  <2>7. Total(x) = Total(d) + a
    BY <2>1, TotalMore
  <2>8. Total(y) = Total(e) + c
    BY <2>2, TotalMore
  <2> QED BY <2>5, <2>6, <2>7, <2>8
<1> HIDE DEF T
<1>3. Len(s) \in T
  BY <1>1, <1>2, Induct, SeqFacts
<1> QED BY <1>3 DEF T

LEMMA RangeFacts ==
    ASSUME NEW c, NEW d, NEW a, Ends(c, d, a) PROVE Range(c) = Range(d) \cup {a}
<1>1. /\ Len(d) \in Nat /\ c[Len(d) + 1] = a /\ (\A i \in 1..Len(d) : c[i] = d[i])
      /\ DOMAIN c = 1..(Len(d) + 1) /\ DOMAIN d = 1..Len(d)
  BY EndsFacts, SeqFacts
<1> QED BY <1>1 DEF Range

LEMMA RangeConcat ==
    ASSUME NEW b, IsSeq(b), NEW c, IsSeq(c) PROVE Range(b \o c) = Range(b) \cup Range(c)
<1>1. /\ Len(b) \in Nat /\ DOMAIN b = 1..Len(b) /\ Len(c) \in Nat /\ DOMAIN c = 1..Len(c)
  BY SeqFacts
<1> DEFINE u == b \o c
<1>0. /\ IsSeq(u) /\ Len(u) = Len(b) + Len(c)
      /\ \A i \in 1..Len(b) : u[i] = b[i]
      /\ \A i \in 1..Len(c) : u[Len(b) + i] = c[i]
  BY ConcatSeq
<1> HIDE DEF u
<1>2. /\ DOMAIN u = 1..(Len(b) + Len(c))
      /\ \A i \in 1..Len(b) : u[i] = b[i]
      /\ \A i \in 1..Len(c) : u[Len(b) + i] = c[i]
  BY <1>0, SeqFacts
<1>3. ASSUME NEW i \in DOMAIN u PROVE u[i] \in Range(b) \cup Range(c)
  <2>1. CASE i <= Len(b)
    <3>1. i \in DOMAIN b /\ u[i] = b[i]
      BY <1>1, <1>2, <2>1
    <3> QED BY <3>1 DEF Range
  <2>2. CASE ~(i <= Len(b))
    <3>1. PICK j \in 1..Len(c) : i = Len(b) + j
      <4>1. i - Len(b) \in 1..Len(c) /\ i = Len(b) + (i - Len(b))
        BY <1>1, <1>2, <2>2
      <4> QED BY <4>1
    <3> QED BY <1>1, <1>2, <3>1 DEF Range
  <2> QED BY <2>1, <2>2
<1>4. ASSUME NEW i \in DOMAIN b PROVE b[i] \in Range(u)
  <2>1. i \in DOMAIN u /\ u[i] = b[i]
    BY <1>1, <1>2
  <2> QED BY <2>1 DEF Range
<1>5. ASSUME NEW i \in DOMAIN c PROVE c[i] \in Range(u)
  <2>1. Len(b) + i \in DOMAIN u /\ u[Len(b) + i] = c[i]
    BY <1>1, <1>2
  <2> QED BY <2>1 DEF Range
<1>6. Range(u) = Range(b) \cup Range(c)
  BY <1>3, <1>4, <1>5 DEF Range
<1> QED BY <1>6 DEF u

\* FlattenSeq keeps every element.
LEMMA FlattenRange ==
    ASSUME NEW s, IsSeq(s), \A i \in DOMAIN s : IsSeq(s[i])
    PROVE  IsSeq(FlattenSeq(s)) /\ Range(FlattenSeq(s)) = UNION {Range(s[i]) : i \in DOMAIN s}
<1> DEFINE Hyp(x) == IsSeq(x) /\ \A i \in DOMAIN x : IsSeq(x[i])
           All(x) == UNION {Range(x[i]) : i \in DOMAIN x}
           Good(x) == IsSeq(FlattenSeq(x)) /\ Range(FlattenSeq(x)) = All(x)
           T == {n \in Nat : \A x : Hyp(x) /\ Len(x) = n => Good(x)}
<1>1. 0 \in T
  <2> SUFFICES ASSUME NEW x, Hyp(x), Len(x) = 0 PROVE Good(x)
    OBVIOUS
  <2>1. x = <<>>
    BY NoLength
  <2>2. FlattenSeq(x) = <<>> /\ DOMAIN x = {} /\ Range(<<>>) = {} /\ IsSeq(<<>>)
    BY <2>1, FlattenNone, NoneSeq DEF Range
  <2> QED BY <2>2
<1>2. ASSUME NEW n \in Nat, n \in T PROVE n + 1 \in T
  <2> SUFFICES ASSUME NEW x, Hyp(x), Len(x) = n + 1 PROVE Good(x)
    OBVIOUS
  <2>1. PICK d, a : Ends(x, d, a) /\ Len(d) = n
    BY LastSplit
  <2>2. /\ IsSeq(d) /\ x[n+1] = a /\ (\A i \in 1..n : x[i] = d[i])
        /\ DOMAIN x = 1..(n+1) /\ DOMAIN d = 1..n
    BY <2>1, EndsAt
  <2>3. Hyp(d) /\ IsSeq(a) /\ All(x) = All(d) \cup Range(a)
    <3>1. DOMAIN x = DOMAIN d \cup {n + 1} /\ \A i \in DOMAIN d : x[i] = d[i]
      BY <2>2
    <3> QED BY <2>2, <3>1
  <2> HIDE DEF All
  <2>4. Good(d)
    BY <1>2, <2>1, <2>3
  <2>5. FlattenSeq(x) = FlattenSeq(d) \o a
    BY <2>1, <2>3, FlattenMore
  <2> DEFINE y == FlattenSeq(d)
  <2>6. IsSeq(y) /\ Range(y) = All(d)
    BY <2>4
  <2>7. FlattenSeq(x) = y \o a
    BY <2>5
  <2> HIDE DEF y
  <2>8. IsSeq(y \o a)
    BY <2>3, <2>6, ConcatSeq
  <2>9. Range(y \o a) = Range(y) \cup Range(a)
    BY <2>3, <2>6, RangeConcat
  <2> QED BY <2>3, <2>6, <2>7, <2>8, <2>9
<1> HIDE DEF T
<1>3. Len(s) \in T
  BY <1>1, <1>2, Induct, SeqFacts
<1> QED BY <1>3 DEF T

LEMMA FlattenBytes ==
    ASSUME NEW s, IsSeq(s), \A i \in DOMAIN s : IsBytes(s[i]),
           NEW t, IsSeq(t), Len(t) = Len(s), \A i \in DOMAIN s : t[i] = Length(s[i])
    PROVE  IsBytes(FlattenSeq(s)) /\ Length(FlattenSeq(s)) = Total(t)
<1> DEFINE Hyp(x, y) == /\ IsSeq(x) /\ IsSeq(y) /\ Len(y) = Len(x)
                        /\ \A i \in DOMAIN x : IsBytes(x[i]) /\ y[i] = Length(x[i])
           Good(x, y) == IsBytes(FlattenSeq(x)) /\ Length(FlattenSeq(x)) = Total(y)
           T == {n \in Nat : \A x, y : Hyp(x, y) /\ Len(x) = n => Good(x, y)}
<1>1. 0 \in T
  <2> SUFFICES ASSUME NEW x, NEW y, Hyp(x, y), Len(x) = 0 PROVE Good(x, y)
    OBVIOUS
  <2>1. x = <<>> /\ y = <<>>
    BY NoLength
  <2> QED BY <2>1, TotalNone, FlattenNone, NoBytes
<1>2. ASSUME NEW n \in Nat, n \in T PROVE n + 1 \in T
  <2> SUFFICES ASSUME NEW x, NEW y, Hyp(x, y), Len(x) = n + 1 PROVE Good(x, y)
    OBVIOUS
  <2>1. PICK d, a : Ends(x, d, a) /\ Len(d) = n
    BY LastSplit
  <2>2. PICK e, c : Ends(y, e, c) /\ Len(e) = n
    BY LastSplit
  <2>3. /\ IsSeq(d) /\ x[n+1] = a /\ (\A i \in 1..n : x[i] = d[i])
        /\ DOMAIN x = 1..(n+1) /\ DOMAIN d = 1..n
    BY <2>1, EndsAt
  <2>4. IsSeq(e) /\ y[n+1] = c /\ (\A i \in 1..n : y[i] = e[i])
    BY <2>2, EndsAt
  <2>5. Hyp(d, e) /\ IsBytes(a) /\ c = Length(a)
    BY <2>1, <2>2, <2>3, <2>4
  <2>6. Good(d, e)
    BY <1>2, <2>1, <2>5
  <2>7. FlattenSeq(x) = FlattenSeq(d) \o a
    BY <2>1, <2>5, FlattenMore DEF IsBytes
  <2>8. Total(y) = Total(e) + c
    BY <2>2, TotalMore
  <2> QED BY <2>5, <2>6, <2>7, <2>8, BytesConcat
<1> HIDE DEF T
<1>3. Len(s) \in T
  BY <1>1, <1>2, Induct, SeqFacts
<1> QED BY <1>3 DEF T

\* A sequence made element by element from another one.
LEMMA MapSeq ==
    ASSUME NEW v, IsSeq(v), NEW s, s = [i \in DOMAIN v |-> s[i]]
    PROVE  IsSeq(s) /\ Len(s) = Len(v) /\ DOMAIN s = DOMAIN v
<1>1. Len(v) \in Nat /\ DOMAIN v = 1..Len(v)
  BY SeqFacts
<1>2. s = [i \in 1..Len(v) |-> s[i]]
  BY <1>1
<1> QED BY <1>1, <1>2, SeqIntro

LEMMA FloatBytes ==
    ASSUME NEW b, IsSeq(b), \A i \in DOMAIN b : AtomLength(b[i]) = 4
    PROVE  IsBytes(b) /\ Length(b) = 4 * Len(b)
<1> DEFINE Hyp(x) == IsSeq(x) /\ \A i \in DOMAIN x : AtomLength(x[i]) = 4
           T == {n \in Nat : \A x : Hyp(x) /\ Len(x) = n => Length(x) = 4 * n}
<1>1. 0 \in T
  BY NoLength, NoBytes
<1>2. ASSUME NEW n \in Nat, n \in T PROVE n + 1 \in T
  <2> SUFFICES ASSUME NEW x, Hyp(x), Len(x) = n + 1 PROVE Length(x) = 4 * (n + 1)
    OBVIOUS
  <2>1. PICK d, a : Ends(x, d, a) /\ Len(d) = n
    BY LastSplit
  <2>2. /\ IsSeq(d) /\ x[n+1] = a /\ (\A i \in 1..n : x[i] = d[i])
        /\ DOMAIN x = 1..(n+1) /\ DOMAIN d = 1..n
    BY <2>1, EndsAt
  <2>3. Hyp(d) /\ AtomLength(a) = 4
    BY <2>2
  <2>4. Length(d) = 4 * n
    BY <1>2, <2>1, <2>3
  <2>5. Length(x) = Length(d) + AtomLength(a)
    BY <2>1, LengthMore
  <2> QED BY <2>3, <2>4, <2>5
<1> HIDE DEF T
<1>3. Len(b) \in T
  BY <1>1, <1>2, Induct, SeqFacts
<1> QED BY <1>3 DEF T, IsBytes

LEMMA TextBytes == ASSUME NEW b, IsText(b) PROVE IsBytes(b)
BY DEF IsText

LEMMA EntryBytes ==
    ASSUME NEW k, IsText(k), NEW v, IsText(v)
    PROVE  IsBytes(SerializeEntry(k, v)) /\ Length(SerializeEntry(k, v)) = EntrySize(k, v)
<1> DEFINE a == Chunk(1, k)
           b == Chunk(2, v)
<1>1. /\ IsBytes(a) /\ Length(a) = 1 + Delimited(Length(k))
      /\ IsBytes(b) /\ Length(b) = 1 + Delimited(Length(v))
  BY TextBytes, ChunkBytes
<1>2. Delimited(Length(k)) \in Nat /\ Delimited(Length(v)) \in Nat
  BY TextBytes, LengthNat, GroupsSize DEF Delimited
<1>3. SerializeEntry(k, v) = a \o b
  BY DEF SerializeEntry
<1> HIDE DEF a, b
<1>4. IsBytes(a \o b) /\ Length(a \o b) = Length(a) + Length(b)
  BY <1>1, BytesConcat
<1> QED BY <1>1, <1>2, <1>3, <1>4 DEF EntrySize

LEMMA DelimitedNat == ASSUME NEW n \in Nat PROVE Delimited(n) \in Nat
BY GroupsSize DEF Delimited

\* What is written of a value and the size announced for it.
LEMMA ValueBytes ==
    ASSUME NEW f, f.type \in ValueTypes, NEW K, NEW v, IsValue(f, v, K), NEW keys, IsSeq(keys)
    PROVE  /\ IsBytes(SerializeValue(f, v, keys))
           /\ Length(SerializeValue(f, v, keys)) = ValueSize(f, v, keys)
<1> DEFINE w == SerializeValue(f, v, keys)
           z == ValueSize(f, v, keys)
           Good(x, n) == IsBytes(x) /\ Length(x) = n
<1> SUFFICES Good(w, z)
  OBVIOUS
<1>0. Good(<<>>, 0)
  BY NoBytes
<1>1. CASE f.type = "int"
  <2>1. v \in Int
    BY <1>1 DEF IsValue
  <2>2. w = (IF v # 0 THEN Varint(f.num, v) ELSE <<>>)
        /\ z = (IF v # 0 THEN 1 + VarintSize(v) ELSE 0)
    BY <1>1 DEF SerializeValue, ValueSize
  <2>3. Good(Varint(f.num, v), 1 + VarintSize(v))
    BY <2>1, VarintBytes
  <2> HIDE DEF w, z, Good
  <2> QED BY <1>0, <2>2, <2>3
<1>2. CASE f.type = "bool"
  <2>1. v \in BOOLEAN
    BY <1>2 DEF IsValue
  <2>2. w = (IF v THEN Varint(f.num, 1) ELSE <<>>) /\ z = (IF v THEN 2 ELSE 0)
    BY <1>2 DEF SerializeValue, ValueSize
  <2>3. Good(Varint(f.num, 1), 1 + VarintSize(1))
    BY VarintBytes
  <2>4. VarintSize(1) = 1
    <3>1. {n \in 1..4 : 1 >= Limit(n)} = {}
      <4>1. 1..4 = {1, 2, 3, 4}
        OBVIOUS
      <4> QED BY <4>1 DEF Limit
    <3> QED BY <3>1, FewNumbers DEF VarintSize
  <2>5. 1 + VarintSize(1) = 2
    BY <2>4
  <2> HIDE DEF w, z, Good
  <2> QED BY <1>0, <2>1, <2>2, <2>3, <2>5
<1>3. CASE f.type \in {"bytes", "string"}
  <2>1. IsBytes(v)
    BY <1>3, TextBytes DEF IsValue
  <2>2. w = (IF v # <<>> THEN Chunk(f.num, v) ELSE <<>>)
        /\ z = (IF v # <<>> THEN 1 + Delimited(Length(v)) ELSE 0)
    BY <1>3 DEF SerializeValue, ValueSize
  <2>3. Good(Chunk(f.num, v), 1 + Delimited(Length(v)))
    BY <2>1, ChunkBytes
  <2> HIDE DEF w, z, Good
  <2> QED BY <1>0, <2>2, <2>3
<1>4. CASE f.type = "floats"
  <2> DEFINE x == [i \in DOMAIN v |-> [float |-> v[i]]]
  <2>1. IsSeq(v)
    BY <1>4 DEF IsValue
  <2>2. w = (IF v # <<>> THEN Chunk(f.num, x) ELSE <<>>) /\ z = PackedSize(v)
    BY <1>4 DEF SerializeValue, ValueSize
  <2>3. x = [i \in DOMAIN v |-> x[i]] /\ \A i \in DOMAIN v : AtomLength(x[i]) = 4
    BY DEF AtomLength, Has
  <2> HIDE DEF x
  <2>4. IsSeq(x) /\ Len(x) = Len(v) /\ DOMAIN x = DOMAIN v
    BY <2>1, <2>3, MapSeq
  <2>5. IsBytes(x) /\ Length(x) = 4 * Len(v)
    BY <2>3, <2>4, FloatBytes
  <2>6. Good(Chunk(f.num, x), 1 + Delimited(Length(x)))
    BY <2>5, ChunkBytes
  <2> HIDE DEF w, z, Good
  <2> QED BY <1>0, <2>2, <2>5, <2>6 DEF PackedSize
<1>5. CASE f.type = "strings"
  <2> DEFINE s == [i \in DOMAIN v |-> Chunk(f.num, v[i])]
             d == [i \in DOMAIN v |-> Delimited(Length(v[i]))]
             t == [i \in DOMAIN v |-> 1 + Delimited(Length(v[i]))]
  <2>1. IsSeq(v) /\ \A i \in DOMAIN v : IsBytes(v[i])
    BY <1>5, TextBytes DEF IsValue
  <2>2. w = FlattenSeq(s) /\ z = Len(v) + Total(d)
    BY <1>5 DEF SerializeValue, ValueSize
  <2>3. /\ s = [i \in DOMAIN v |-> s[i]] /\ \A i \in DOMAIN v : s[i] = Chunk(f.num, v[i])
        /\ d = [i \in DOMAIN v |-> d[i]] /\ \A i \in DOMAIN v : d[i] = Delimited(Length(v[i]))
        /\ t = [i \in DOMAIN v |-> t[i]] /\ \A i \in DOMAIN v : t[i] = 1 + d[i]
    OBVIOUS
  <2> HIDE DEF s, d, t
  <2>4. /\ IsSeq(s) /\ Len(s) = Len(v) /\ DOMAIN s = DOMAIN v
        /\ IsSeq(d) /\ Len(d) = Len(v) /\ DOMAIN d = DOMAIN v
        /\ IsSeq(t) /\ Len(t) = Len(v)
    BY <2>1, <2>3, MapSeq
  <2>5. \A i \in DOMAIN v : d[i] \in Nat
    BY <2>1, <2>3, LengthNat, DelimitedNat
  <2>6. Total(t) = Len(v) + Total(d)
    BY <2>3, <2>4, <2>5, TotalTags
  <2>7. \A i \in DOMAIN s : IsBytes(s[i]) /\ t[i] = Length(s[i])
    BY <2>1, <2>3, <2>4, ChunkBytes
  <2>8. Good(FlattenSeq(s), Total(t))
    BY <2>4, <2>7, FlattenBytes
  <2> QED BY <2>2, <2>6, <2>8
<1>6. CASE f.type = "map"
  <2> DEFINE e(i) == SerializeEntry(keys[i], v[keys[i]])
             n(i) == EntrySize(keys[i], v[keys[i]])
             s == [i \in DOMAIN keys |-> IF keys[i] \in DOMAIN v THEN Chunk(f.num, e(i)) ELSE <<>>]
             t == [i \in DOMAIN keys |-> IF keys[i] \in DOMAIN v THEN 1 + Delimited(n(i)) ELSE 0]
  <2>1. \A k \in DOMAIN v : IsText(k) /\ IsText(v[k])
    BY <1>6 DEF IsValue
  <2>2. w = FlattenSeq(s) /\ z = Total(t)
    BY <1>6 DEF SerializeValue, ValueSize
  <2>3. \A i \in DOMAIN keys : keys[i] \in DOMAIN v => IsBytes(e(i)) /\ Length(e(i)) = n(i)
    BY <2>1, EntryBytes
  <2> HIDE DEF e, n
  <2>4. /\ s = [i \in DOMAIN keys |-> s[i]] /\ t = [i \in DOMAIN keys |-> t[i]]
        /\ \A i \in DOMAIN keys : s[i] = IF keys[i] \in DOMAIN v THEN Chunk(f.num, e(i)) ELSE <<>>
        /\ \A i \in DOMAIN keys : t[i] = IF keys[i] \in DOMAIN v THEN 1 + Delimited(n(i)) ELSE 0
    OBVIOUS
  <2> HIDE DEF s, t
  <2>5. /\ IsSeq(s) /\ Len(s) = Len(keys) /\ DOMAIN s = DOMAIN keys
        /\ IsSeq(t) /\ Len(t) = Len(keys)
    BY <2>4, MapSeq
  <2>6. ASSUME NEW i \in DOMAIN s PROVE IsBytes(s[i]) /\ t[i] = Length(s[i])
    <3>1. CASE keys[i] \in DOMAIN v
      BY <2>3, <2>4, <2>5, <3>1, ChunkBytes
    <3>2. CASE keys[i] \notin DOMAIN v
      BY <1>0, <2>4, <2>5, <3>2
    <3> QED BY <3>1, <3>2
  <2>7. Good(FlattenSeq(s), Total(t))
    BY <2>5, <2>6, FlattenBytes
  <2> QED BY <2>2, <2>7
<1> QED BY <1>1, <1>2, <1>3, <1>4, <1>5, <1>6 DEF ValueTypes

\* What protoc accepts: fields numbered from 1 on with names of their own.
Numbered(S) ==
    /\ IsSeq(S)
    /\ \A i \in DOMAIN S : S[i].num = i /\ S[i].name # "unknown"
    /\ \A i, j \in DOMAIN S : S[i].name = S[j].name => i = j
FlatSchema(S) == Numbered(S) /\ FlatFields(S)
FieldTypes(f) == f.type \in ValueTypes
                 \/ (f.type \in {"message", "messages"} /\ FlatSchema(f.of))
Schema(S) == Numbered(S) /\ \A i \in DOMAIN S : FieldTypes(S[i])

LEMMA FlatBytes ==
    ASSUME NEW S, FlatSchema(S), NEW K, NEW m, IsFlat(S, m, K), NEW keys, IsSeq(keys)
    PROVE  /\ IsBytes(SerializeFlat(S, m, keys))
           /\ Length(SerializeFlat(S, m, keys)) = FlatSize(S, m, keys)
<1> DEFINE s == [i \in DOMAIN S |-> SerializeValue(S[i], m[S[i].name], keys)]
           t == [i \in DOMAIN S |-> ValueSize(S[i], m[S[i].name], keys)]
           x == FlattenSeq(s)
<1>1. IsSeq(S) /\ \A i \in DOMAIN S : S[i].type \in ValueTypes /\ IsValue(S[i], m[S[i].name], K)
  BY DEF FlatSchema, Numbered, FlatFields, IsFlat
<1>2. IsBytes(m.unknown)
  BY DEF IsFlat, HasFields
<1>3. SerializeFlat(S, m, keys) = x \o m.unknown /\ FlatSize(S, m, keys) = Total(t) + Length(m.unknown)
  BY DEF SerializeFlat, FlatSize
<1>4. \A i \in DOMAIN S : IsBytes(s[i]) /\ t[i] = Length(s[i])
  BY <1>1, ValueBytes
<1>5. s = [i \in DOMAIN S |-> s[i]] /\ t = [i \in DOMAIN S |-> t[i]]
  OBVIOUS
<1> HIDE DEF s, t
<1>6. IsSeq(s) /\ Len(s) = Len(S) /\ DOMAIN s = DOMAIN S /\ IsSeq(t) /\ Len(t) = Len(S)
  BY <1>1, <1>5, MapSeq
<1>7. IsBytes(x) /\ Length(x) = Total(t)
  BY <1>4, <1>6, FlattenBytes
<1> HIDE DEF x
<1> QED BY <1>2, <1>3, <1>7, BytesConcat

LEMMA FieldBytes ==
    ASSUME NEW f, FieldTypes(f), NEW K, NEW v, IsField(f, v, K), NEW keys, IsSeq(keys)
    PROVE  /\ IsBytes(SerializeField(f, v, keys))
           /\ Length(SerializeField(f, v, keys)) = FieldSize(f, v, keys)
<1> DEFINE w == SerializeField(f, v, keys)
           z == FieldSize(f, v, keys)
           Good(x, n) == IsBytes(x) /\ Length(x) = n
<1> SUFFICES Good(w, z)
  OBVIOUS
<1>1. CASE f.type \in ValueTypes
  <2>1. w = SerializeValue(f, v, keys) /\ z = ValueSize(f, v, keys) /\ IsValue(f, v, K)
    BY <1>1 DEF SerializeField, FieldSize, ValueTypes, IsField
  <2>2. Good(SerializeValue(f, v, keys), ValueSize(f, v, keys))
    BY <1>1, <2>1, ValueBytes
  <2> QED BY <2>1, <2>2
<1>2. CASE f.type = "message" /\ FlatSchema(f.of)
  <2>1. w = (IF v # Absent THEN Chunk(f.num, SerializeFlat(f.of, v, keys)) ELSE <<>>)
        /\ z = (IF v # Absent THEN 1 + Delimited(FlatSize(f.of, v, keys)) ELSE 0)
    BY <1>2 DEF SerializeField, FieldSize
  <2>2. v # Absent => IsFlat(f.of, v, K)
    BY <1>2 DEF IsField
  <2>3. v # Absent => Good(SerializeFlat(f.of, v, keys), FlatSize(f.of, v, keys))
    BY <1>2, <2>2, FlatBytes
  <2>4. v # Absent => Good(Chunk(f.num, SerializeFlat(f.of, v, keys)),
                           1 + Delimited(FlatSize(f.of, v, keys)))
    BY <2>3, ChunkBytes
  <2> QED BY <2>1, <2>4, NoBytes
<1>3. CASE f.type = "messages" /\ FlatSchema(f.of)
  <2> DEFINE s == [i \in DOMAIN v |-> Chunk(f.num, SerializeFlat(f.of, v[i], keys))]
             d == [i \in DOMAIN v |-> Delimited(FlatSize(f.of, v[i], keys))]
             t == [i \in DOMAIN v |-> 1 + Delimited(FlatSize(f.of, v[i], keys))]
  <2>1. IsSeq(v) /\ \A i \in DOMAIN v : IsFlat(f.of, v[i], K)
    BY <1>3 DEF IsField
  <2>2. w = FlattenSeq(s) /\ z = Len(v) + Total(d)
    BY <1>3 DEF SerializeField, FieldSize
  <2>3. \A i \in DOMAIN v : Good(SerializeFlat(f.of, v[i], keys), FlatSize(f.of, v[i], keys))
    BY <1>3, <2>1, FlatBytes
  <2>4. /\ s = [i \in DOMAIN v |-> s[i]] /\ d = [i \in DOMAIN v |-> d[i]]
        /\ t = [i \in DOMAIN v |-> t[i]]
        /\ \A i \in DOMAIN v : s[i] = Chunk(f.num, SerializeFlat(f.of, v[i], keys))
        /\ \A i \in DOMAIN v : d[i] = Delimited(FlatSize(f.of, v[i], keys))
        /\ \A i \in DOMAIN v : t[i] = 1 + d[i]
    OBVIOUS
  <2> HIDE DEF s, d, t
  <2>5. /\ IsSeq(s) /\ Len(s) = Len(v) /\ DOMAIN s = DOMAIN v
        /\ IsSeq(d) /\ Len(d) = Len(v) /\ DOMAIN d = DOMAIN v
        /\ IsSeq(t) /\ Len(t) = Len(v)
    BY <2>1, <2>4, MapSeq
  <2>6. \A i \in DOMAIN v : d[i] \in Nat
    BY <2>3, <2>4, LengthNat, DelimitedNat
  <2>7. Total(t) = Len(v) + Total(d)
    BY <2>4, <2>5, <2>6, TotalTags
  <2>8. \A i \in DOMAIN s : IsBytes(s[i]) /\ t[i] = Length(s[i])
    BY <2>3, <2>4, <2>5, ChunkBytes
  <2>9. Good(FlattenSeq(s), Total(t))
    BY <2>5, <2>8, FlattenBytes
  <2> QED BY <2>2, <2>7, <2>9
<1> QED BY <1>1, <1>2, <1>3 DEF FieldTypes

\* For every message of every schema, ByteSizeLong is the length of what
\* _InternalSerialize writes.
THEOREM MessageBytes ==
    ASSUME NEW S, Schema(S), NEW K, NEW m, IsMessage(S, m, K), NEW keys, IsSeq(keys)
    PROVE  /\ IsBytes(Serialize(S, m, keys))
           /\ Length(Serialize(S, m, keys)) = ByteSizeLong(S, m, keys)
<1> DEFINE s == [i \in DOMAIN S |-> SerializeField(S[i], m[S[i].name], keys)]
           t == [i \in DOMAIN S |-> FieldSize(S[i], m[S[i].name], keys)]
           x == FlattenSeq(s)
<1>1. IsSeq(S) /\ \A i \in DOMAIN S : FieldTypes(S[i]) /\ IsField(S[i], m[S[i].name], K)
  BY DEF Schema, Numbered, IsMessage
<1>2. IsBytes(m.unknown)
  BY DEF IsMessage, HasFields
<1>3. /\ Serialize(S, m, keys) = x \o m.unknown
      /\ ByteSizeLong(S, m, keys) = Total(t) + Length(m.unknown)
  BY DEF Serialize, ByteSizeLong
<1>4. \A i \in DOMAIN S : IsBytes(s[i]) /\ t[i] = Length(s[i])
  BY <1>1, FieldBytes
<1>5. s = [i \in DOMAIN S |-> s[i]] /\ t = [i \in DOMAIN S |-> t[i]]
  OBVIOUS
<1> HIDE DEF s, t
<1>6. IsSeq(s) /\ Len(s) = Len(S) /\ DOMAIN s = DOMAIN S /\ IsSeq(t) /\ Len(t) = Len(S)
  BY <1>1, <1>5, MapSeq
<1>7. IsBytes(x) /\ Length(x) = Total(t)
  BY <1>4, <1>6, FlattenBytes
<1> HIDE DEF x
<1> QED BY <1>2, <1>3, <1>7, BytesConcat

-----------------------------------------------------------------------------
(* What is read back of a field *)

SetField(M, name, v) == [M EXCEPT ![name] = v]

\* M is a message that has this field, with this value.
Holds(M, name, v) == M = [x \in DOMAIN M |-> M[x]] /\ name \in DOMAIN M /\ M[name] = v

LEMMA SetFacts ==
    ASSUME NEW M, NEW name, NEW v, Holds(M, name, v), NEW w
    PROVE  /\ SetField(M, name, v) = M /\ Holds(SetField(M, name, w), name, w)
           /\ DOMAIN SetField(M, name, w) = DOMAIN M
           /\ \A x \in DOMAIN M : x # name => SetField(M, name, w)[x] = M[x]
           /\ \A u : SetField(SetField(M, name, w), name, u) = SetField(M, name, u)
BY DEF SetField, Holds

LEMMA ReadField ==
    ASSUME NEW S, Numbered(S), NEW i \in DOMAIN S, NEW M, NEW v, Holds(M, S[i].name, v),
           NEW a, Has(a, "num"), a.num = i, Expects(S[i], a)
    PROVE  /\ Known(S, a) = {i}
           /\ ParseAtom(S, M, a) = SetField(M, S[i].name, ParseField(S[i], v, a))
<1>1. Known(S, a) = {i}
  BY DEF Known, Numbered
<1>2. FieldOf(S, a) = S[i]
  BY <1>1 DEF FieldOf
<1>3. ParseAtom(S, M, a) = [M EXCEPT ![S[i].name] = ParseField(S[i], M[S[i].name], a)]
  BY <1>1, <1>2 DEF ParseAtom
<1> QED BY <1>1, <1>3 DEF SetField, Holds

\* The atoms that are written.
Number(n, v) == [num |-> n, varint |-> v]
Piece(n, b)  == [num |-> n, length |-> Length(b), chunk |-> b]

LEMMA NumberAtom ==
    ASSUME NEW n, NEW v
    PROVE  /\ Varint(n, v) = <<Number(n, v)>> /\ Has(Number(n, v), "num")
           /\ Number(n, v).num = n /\ Number(n, v).varint = v
           /\ Has(Number(n, v), "varint")
           /\ ~Has(Number(n, v), "torn") /\ ~Has(Number(n, v), "chunk")
<1> DEFINE a == Number(n, v)
<1>1. DOMAIN a = {"num", "varint"} /\ a.num = n /\ a.varint = v
  BY DEF Number
<1>2. Varint(n, v) = <<a>>
  BY DEF Varint, Number
<1> HIDE DEF a
<1>3. Has(a, "num") /\ Has(a, "varint") /\ ~Has(a, "torn") /\ ~Has(a, "chunk")
  BY <1>1 DEF Has
<1> QED BY <1>1, <1>2, <1>3 DEF a

IsChunk(a, n, b) == /\ Has(a, "num") /\ a.num = n /\ Has(a, "chunk") /\ a.chunk = b
                    /\ ~Has(a, "torn") /\ ~Has(a, "fixed") /\ ~Has(a, "varint")

LEMMA PieceAtom ==
    ASSUME NEW n, NEW b PROVE Chunk(n, b) = <<Piece(n, b)>> /\ IsChunk(Piece(n, b), n, b)
<1> DEFINE a == Piece(n, b)
<1>1. DOMAIN a = {"num", "length", "chunk"} /\ a.num = n /\ a.chunk = b
  BY DEF Piece
<1>2. Chunk(n, b) = <<a>>
  BY DEF Chunk, Piece
<1> HIDE DEF a
<1>3. IsChunk(a, n, b)
  BY <1>1 DEF Has, IsChunk
<1> QED BY <1>2, <1>3 DEF a

LEMMA ReadChunk ==
    ASSUME NEW S, Numbered(S), NEW i \in DOMAIN S, NEW M, NEW v, Holds(M, S[i].name, v),
           S[i].type \notin {"int", "bool"}, NEW b
    PROVE  ParseInto(S, M, Chunk(i, b)) = SetField(M, S[i].name, ParseField(S[i], v, Piece(i, b)))
<1> DEFINE a == Piece(i, b)
<1>1. Chunk(i, b) = <<a>> /\ IsChunk(a, i, b)
  BY PieceAtom
<1> HIDE DEF a
<1>2. Has(a, "num") /\ a.num = i /\ Expects(S[i], a)
  BY <1>1 DEF IsChunk, Expects
<1>3. ParseAtom(S, M, a) = SetField(M, S[i].name, ParseField(S[i], v, a))
  BY <1>2, ReadField
<1>4. ParseInto(S, M, Chunk(i, b)) = ParseAtom(S, M, a)
  BY <1>1, ParseOne
<1> QED BY <1>3, <1>4 DEF a

\* r is the message after each of the pieces in x.
Pieces(S, r, x) == /\ IsSeq(x) /\ \A i \in DOMAIN x : IsSeq(x[i])
                   /\ \A j \in 1..Len(x) : ParseInto(S, r[j-1], x[j]) = r[j]

\* A loop that writes pieces one after the other is read piece by piece.
LEMMA ParseFlatten ==
    ASSUME NEW S, NEW r, NEW s, Pieces(S, r, s)
    PROVE  ParseInto(S, r[0], FlattenSeq(s)) = r[Len(s)]
<1> DEFINE T == {n \in Nat : \A x : Pieces(S, r, x) /\ Len(x) = n
                                   => ParseInto(S, r[0], FlattenSeq(x)) = r[n]}
<1>1. 0 \in T
  BY NoLength, FlattenNone, ParseNone DEF Pieces
<1>2. ASSUME NEW n \in Nat, n \in T PROVE n + 1 \in T
  <2> SUFFICES ASSUME NEW x, Pieces(S, r, x), Len(x) = n + 1
               PROVE  ParseInto(S, r[0], FlattenSeq(x)) = r[n+1]
    OBVIOUS
  <2> HIDE DEF T
  <2>1. PICK d, a : Ends(x, d, a) /\ Len(d) = n
    BY LastSplit DEF Pieces
  <2>2. /\ IsSeq(d) /\ x[n+1] = a /\ (\A i \in 1..n : x[i] = d[i])
        /\ DOMAIN x = 1..(n+1) /\ DOMAIN d = 1..n
    BY <2>1, EndsAt
  <2>3. Pieces(S, r, d) /\ IsSeq(a)
    BY <2>1, <2>2 DEF Pieces
  <2>4. ParseInto(S, r[n], a) = r[n+1]
    <3>1. n + 1 \in 1..Len(x) /\ (n + 1) - 1 = n
      OBVIOUS
    <3> QED BY <2>2, <3>1 DEF Pieces
  <2>5. ParseInto(S, r[0], FlattenSeq(d)) = r[n]
    BY <1>2, <2>1, <2>3 DEF T
  <2> DEFINE y == FlattenSeq(d)
  <2>6. FlattenSeq(x) = y \o a
    BY <2>1, <2>3, FlattenMore DEF Pieces
  <2>8. IsSeq(y)
    BY <2>3, FlattenRange DEF Pieces
  <2>7. ParseInto(S, r[0], y \o a) = ParseInto(S, ParseInto(S, r[0], y), a)
    BY <2>3, <2>8, ParseConcat
  <2> QED BY <2>4, <2>5, <2>6, <2>7
<1> HIDE DEF T
<1>3. Len(s) \in T
  BY <1>1, <1>2, Induct, SeqFacts DEF Pieces
<1> QED BY <1>3 DEF T

\* The first j elements of v.
First(v, j) == [i \in 1..j |-> v[i]]

\* v and one element more.
Longer(v, x) == Append(v, x)

LEMMA FirstFacts ==
    ASSUME NEW v, IsSeq(v)
    PROVE  /\ First(v, 0) = <<>> /\ First(v, Len(v)) = v
           /\ \A j \in 1..Len(v) : First(v, j) = Longer(First(v, j-1), v[j])
<1>1. Len(v) \in Nat /\ v = [i \in 1..Len(v) |-> v[i]]
  BY SeqFacts
<1>2. First(v, 0) = <<>>
  BY DEF First
<1>3. ASSUME NEW j \in 1..Len(v) PROVE First(v, j) = Longer(First(v, j-1), v[j])
  <2> DEFINE x == First(v, j)
             y == First(v, j-1)
  <2>1. j \in Nat /\ j - 1 \in Nat /\ (j - 1) + 1 = j
    BY <1>1
  <2>2. /\ x = [i \in 1..j |-> x[i]] /\ \A i \in 1..j : x[i] = v[i]
        /\ y = [i \in 1..(j-1) |-> y[i]] /\ \A i \in 1..(j-1) : y[i] = v[i]
    BY DEF First
  <2> HIDE DEF x, y
  <2>3. IsSeq(x) /\ Len(x) = j /\ IsSeq(y) /\ Len(y) = j - 1
    BY <2>1, <2>2, SeqIntro
  <2>7. Len(x) = Len(y) + 1
    BY <2>1, <2>3
  <2>8. \A i \in 1..Len(y) : x[i] = y[i]
    BY <2>1, <2>2, <2>3
  <2>4. Ends(x, y, x[Len(y) + 1])
    BY <2>3, <2>7, <2>8, EndsIntro
  <2>5. x[Len(y) + 1] = v[j]
    BY <2>1, <2>2, <2>3
  <2>6. x = Longer(y, v[j])
    BY <2>4, <2>5 DEF Ends, Longer
  <2> QED BY <2>6 DEF x, y
<1> QED BY <1>1, <1>2, <1>3 DEF First

LEMMA ScalarTrip ==
    ASSUME NEW S, Numbered(S), NEW i \in DOMAIN S, NEW K, NEW v, IsValue(S[i], v, K),
           S[i].type \in {"int", "bool", "bytes", "string", "floats"},
           NEW M, Holds(M, S[i].name, DefaultOf(S[i].type)), NEW keys
    PROVE  ParseInto(S, M, SerializeValue(S[i], v, keys)) = SetField(M, S[i].name, v)
<1> DEFINE f == S[i]
           w == SerializeValue(f, v, keys)
           unset == DefaultOf(f.type)
<1> SUFFICES ParseInto(S, M, w) = SetField(M, f.name, v)
  OBVIOUS
<1>0. f.num = i
  BY DEF Numbered
<1>1. ASSUME w = <<>>, v = unset PROVE ParseInto(S, M, w) = SetField(M, f.name, v)
  <2>1. ParseInto(S, M, <<>>) = M
    BY ParseNone
  <2>2. SetField(M, f.name, unset) = M
    BY SetFacts
  <2> QED BY <1>1, <2>1, <2>2
<1>2. ASSUME NEW x, w = Varint(i, x), f.type \in {"int", "bool"},
             ParseField(f, unset, Number(i, x)) = v
      PROVE  ParseInto(S, M, w) = SetField(M, f.name, v)
  <2> DEFINE a == Number(i, x)
  <2>1. Varint(i, x) = <<a>> /\ Has(a, "num") /\ a.num = i /\ Has(a, "varint")
    BY NumberAtom
  <2> HIDE DEF a
  <2>2. Expects(f, a)
    BY <1>2, <2>1 DEF Expects
  <2>3. ParseAtom(S, M, a) = SetField(M, f.name, ParseField(f, unset, a))
    BY <2>1, <2>2, ReadField
  <2>4. ParseInto(S, M, w) = ParseAtom(S, M, a)
    BY <1>2, <2>1, ParseOne
  <2> QED BY <1>2, <2>3, <2>4 DEF a
<1>3. ASSUME NEW x, w = Chunk(i, x), f.type \notin {"int", "bool"},
             ParseField(f, unset, Piece(i, x)) = v
      PROVE  ParseInto(S, M, w) = SetField(M, f.name, v)
  <2>1. ParseInto(S, M, Chunk(i, x)) = SetField(M, f.name, ParseField(f, unset, Piece(i, x)))
    BY <1>3, ReadChunk
  <2> QED BY <1>3, <2>1
<1>4. CASE f.type = "int"
  <2>1. w = (IF v # 0 THEN Varint(i, v) ELSE <<>>) /\ unset = 0
    BY <1>0, <1>4 DEF SerializeValue, DefaultOf
  <2>2. ParseField(f, unset, Number(i, v)) = Number(i, v).varint
    BY <1>4 DEF ParseField, ParseValue
  <2>3. ParseField(f, unset, Number(i, v)) = v
    BY <2>2, NumberAtom
  <2> HIDE DEF w, unset, f
  <2> QED BY <1>1, <1>2, <1>4, <2>1, <2>3
<1>5. CASE f.type = "bool"
  <2>1. w = (IF v THEN Varint(i, 1) ELSE <<>>) /\ unset = FALSE /\ v \in BOOLEAN
    BY <1>0, <1>5 DEF SerializeValue, DefaultOf, IsValue
  <2>2. ParseField(f, unset, Number(i, 1)) = (Number(i, 1).varint # 0)
    BY <1>5 DEF ParseField, ParseValue
  <2>3. Number(i, 1).varint # 0
    BY NumberAtom
  <2>4. v => ParseField(f, unset, Number(i, 1)) = v
    BY <2>1, <2>2, <2>3
  <2> HIDE DEF w, unset, f
  <2> QED BY <1>1, <1>2, <1>5, <2>1, <2>4
<1>6. CASE f.type \in {"bytes", "string"}
  <2>1. w = (IF v # <<>> THEN Chunk(i, v) ELSE <<>>) /\ unset = <<>>
    BY <1>0, <1>6 DEF SerializeValue, DefaultOf
  <2>2. ParseField(f, unset, Piece(i, v)) = Piece(i, v).chunk
    BY <1>6 DEF ParseField, ParseValue
  <2>3. ParseField(f, unset, Piece(i, v)) = v
    BY <2>2, PieceAtom DEF IsChunk
  <2> HIDE DEF w, unset, f
  <2> QED BY <1>1, <1>3, <1>6, <2>1, <2>3
<1>7. CASE f.type = "floats"
  <2> DEFINE x == [j \in DOMAIN v |-> [float |-> v[j]]]
             a == Piece(i, x)
             y == [j \in DOMAIN a.chunk |-> a.chunk[j].float]
  <2>1. w = (IF v # <<>> THEN Chunk(i, x) ELSE <<>>) /\ unset = <<>> /\ IsSeq(v)
    BY <1>0, <1>7 DEF SerializeValue, DefaultOf, IsValue
  <2>2. a.chunk = x /\ IsChunk(a, i, x)
    BY PieceAtom DEF IsChunk
  <2>3. y = v
    <3>1. v = [j \in DOMAIN v |-> v[j]]
      BY <2>1, SeqFacts
    <3> HIDE DEF a
    <3> QED BY <2>2, <3>1
  <2> HIDE DEF x, a
  <2>4. ParseFloats(unset, a) = unset \o y
    BY <2>2 DEF ParseFloats, IsChunk
  <2>5. ParseField(f, unset, a) = ParseFloats(unset, a)
    BY <1>7 DEF ParseField, ParseValue
  <2> HIDE DEF y
  <2>6. <<>> \o v = v
    BY <2>1, ConcatNone
  <2> HIDE DEF w, unset, f
  <2>7. ParseField(f, unset, Piece(i, x)) = v
    BY <2>1, <2>3, <2>4, <2>5, <2>6 DEF a
  <2> QED BY <1>1, <1>3, <1>7, <2>1, <2>7
<1> QED BY <1>4, <1>5, <1>6, <1>7

\* s is one chunk for each element of v, and c[j] is what chunk j contains.
Repeats(S, i, v, s, c) ==
    /\ IsSeq(v) /\ IsSeq(s) /\ Len(s) = Len(v)
    /\ \A j \in 1..Len(v) : s[j] = Chunk(i, c[j])
    /\ \A j \in 1..Len(v) : \A w : ParseField(S[i], w, Piece(i, c[j])) = Longer(w, v[j])

LEMMA RepeatTrip ==
    ASSUME NEW S, Numbered(S), NEW i \in DOMAIN S, S[i].type \notin {"int", "bool"},
           NEW v, NEW s, NEW c, Repeats(S, i, v, s, c), NEW M, Holds(M, S[i].name, <<>>)
    PROVE  ParseInto(S, M, FlattenSeq(s)) = SetField(M, S[i].name, v)
<1>0. /\ IsSeq(v) /\ IsSeq(s) /\ Len(s) = Len(v)
      /\ \A j \in 1..Len(v) : s[j] = Chunk(i, c[j])
      /\ \A j \in 1..Len(v) : \A w : ParseField(S[i], w, Piece(i, c[j])) = Longer(w, v[j])
  BY DEF Repeats
<1> DEFINE name == S[i].name
           r == [j \in 0..Len(v) |-> SetField(M, name, First(v, j))]
<1>1. Len(v) \in Nat /\ DOMAIN s = 1..Len(v)
  BY <1>0, SeqFacts
<1>2. ASSUME NEW j \in 1..Len(v) PROVE ParseInto(S, r[j-1], s[j]) = r[j]
  <2>1. j - 1 \in 0..Len(v) /\ j \in 0..Len(v)
    BY <1>1
  <2>2. r[j-1] = SetField(M, name, First(v, j-1)) /\ r[j] = SetField(M, name, First(v, j))
    BY <2>1
  <2> HIDE DEF r
  <2>3. Holds(r[j-1], name, First(v, j-1))
    BY <2>2, SetFacts
  <2>4. ParseInto(S, r[j-1], Chunk(i, c[j]))
          = SetField(r[j-1], name, ParseField(S[i], First(v, j-1), Piece(i, c[j])))
    BY <2>3, ReadChunk
  <2>5. ParseField(S[i], First(v, j-1), Piece(i, c[j])) = First(v, j)
    <3>1. ParseField(S[i], First(v, j-1), Piece(i, c[j])) = Longer(First(v, j-1), v[j])
      BY <1>0
    <3>2. First(v, j) = Longer(First(v, j-1), v[j])
      BY <1>0, FirstFacts
    <3> QED BY <3>1, <3>2
  <2>6. SetField(r[j-1], name, First(v, j)) = r[j]
    BY <2>2, SetFacts
  <2> QED BY <1>0, <2>4, <2>5, <2>6
<1>3. r[0] = M /\ r[Len(s)] = SetField(M, name, v)
  <2>1. 0 \in 0..Len(v) /\ Len(v) \in 0..Len(v)
    BY <1>1
  <2>2. r[0] = SetField(M, name, <<>>) /\ r[Len(v)] = SetField(M, name, v)
    BY <1>0, <2>1, FirstFacts
  <2>3. SetField(M, name, <<>>) = M
    BY SetFacts
  <2> QED BY <1>0, <2>2, <2>3
<1>4. \A j \in DOMAIN s : IsSeq(s[j])
  <2>1. ASSUME NEW b PROVE IsSeq(Chunk(i, b))
    BY OneSeq DEF Chunk
  <2> QED BY <1>0, <1>1, <2>1
<1> HIDE DEF r
<1>5. Pieces(S, r, s)
  BY <1>0, <1>2, <1>4 DEF Pieces
<1>6. ParseInto(S, r[0], FlattenSeq(s)) = r[Len(s)]
  BY <1>5, ParseFlatten
<1> QED BY <1>3, <1>6

LEMMA PairSeq ==
    ASSUME NEW x, IsSeq(x), Len(x) = 1, NEW y, IsSeq(y), Len(y) = 1
    PROVE  IsSeq(x \o y) /\ Len(x \o y) = 2 /\ (x \o y)[1] = x[1] /\ (x \o y)[2] = y[1]
<1> DEFINE u == x \o y
<1>1. IsSeq(u) /\ Len(u) = Len(x) + Len(y)
  BY ConcatSeq
<1>2. \A i \in 1..Len(x) : u[i] = x[i]
  BY ConcatSeq
<1>3. \A i \in 1..Len(y) : u[Len(x) + i] = y[i]
  BY ConcatSeq
<1> HIDE DEF u
<1>4. IsSeq(u) /\ Len(u) = 2 /\ u[1] = x[1] /\ u[2] = y[1]
  BY <1>1, <1>2, <1>3
<1> QED BY <1>4 DEF u

\* A key and a value of a map.
LEMMA EntryTrip ==
    ASSUME NEW k, NEW v
    PROVE  /\ EntryText(SerializeEntry(k, v), 1) = k /\ EntryText(SerializeEntry(k, v), 2) = v
           /\ (IsUtf8(k) /\ IsUtf8(v) <=> ReadableEntry(SerializeEntry(k, v)))
<1> DEFINE b == SerializeEntry(k, v)
<1> DEFINE a1 == Piece(1, k)
           a2 == Piece(2, v)
<1>1. Chunk(1, k) = <<a1>> /\ IsChunk(a1, 1, k)
  BY PieceAtom
<1>2. Chunk(2, v) = <<a2>> /\ IsChunk(a2, 2, v)
  BY PieceAtom
<1> HIDE DEF a1, a2
<1>3. b = <<a1>> \o <<a2>>
  BY <1>1, <1>2 DEF SerializeEntry
<1>4. DOMAIN b = {1, 2} /\ b[1] = a1 /\ b[2] = a2
  <2> DEFINE x == <<a1>>
             y == <<a2>>
  <2>1. IsSeq(x) /\ Len(x) = 1 /\ x[1] = a1 /\ IsSeq(y) /\ Len(y) = 1 /\ y[1] = a2
    BY OneSeq
  <2>2. b = x \o y
    BY <1>3
  <2> HIDE DEF x, y, b
  <2>3. IsSeq(b) /\ Len(b) = 2 /\ b[1] = x[1] /\ b[2] = y[1]
    <3> DEFINE u == x \o y
    <3>1. IsSeq(u) /\ Len(u) = 2 /\ u[1] = x[1] /\ u[2] = y[1]
      BY <2>1, PairSeq
    <3>2. u = b
      BY <2>2
    <3> HIDE DEF u
    <3> QED BY <3>1, <3>2
  <2>4. Len(b) = 2 /\ b[1] = a1 /\ b[2] = a2
    BY <2>1, <2>3
  <2>5. DOMAIN b = 1..2
    BY <2>3, <2>4, SeqFacts
  <2> QED BY <2>4, <2>5
<1> HIDE DEF b
<1>5. EntryTexts(b, 1) = {1} /\ EntryTexts(b, 2) = {2}
  BY <1>1, <1>2, <1>4 DEF EntryTexts, IsChunk
<1>6. Max({1}) = 1 /\ Max({2}) = 2
  BY DEF Max
<1>7. EntryText(b, 1) = k /\ EntryText(b, 2) = v
  BY <1>1, <1>2, <1>4, <1>5, <1>6 DEF EntryText, IsChunk
<1>8. IsUtf8(k) /\ IsUtf8(v) <=> ReadableEntry(b)
  BY <1>1, <1>2, <1>4, <1>5 DEF ReadableEntry, IsChunk
<1> QED BY <1>7, <1>8 DEF b

LEMMA MapTrip ==
    ASSUME NEW S, Numbered(S), NEW i \in DOMAIN S, S[i].type = "map",
           NEW K, NEW v, IsValue(S[i], v, K),
           NEW keys, IsSeq(keys), K \subseteq Range(keys),
           NEW M, Holds(M, S[i].name, DefaultOf("map"))
    PROVE  ParseInto(S, M, SerializeValue(S[i], v, keys)) = SetField(M, S[i].name, v)
<1> DEFINE name == S[i].name
           n == Len(keys)
           e(j) == SerializeEntry(keys[j], v[keys[j]])
           s == [j \in DOMAIN keys |-> IF keys[j] \in DOMAIN v THEN Chunk(i, e(j)) ELSE <<>>]
           Some(j) == {keys[h] : h \in 1..j} \cap DOMAIN v
           part(j) == [k \in Some(j) |-> v[k]]
           r == [j \in 0..n |-> SetField(M, name, part(j))]
<1>1. n \in Nat /\ DOMAIN keys = 1..n
  BY SeqFacts
<1>2. SerializeValue(S[i], v, keys) = FlattenSeq(s)
  BY DEF SerializeValue, Numbered
<1>3. v = [k \in DOMAIN v |-> v[k]] /\ DOMAIN v \subseteq K
  BY DEF IsValue
<1>4. part(0) = DefaultOf("map") /\ part(n) = v
  <2>1. Some(0) = {}
    OBVIOUS
  <2>2. Some(n) = DOMAIN v
    BY <1>1, <1>3 DEF Range
  <2> QED BY <1>3, <2>1, <2>2 DEF DefaultOf
<1>5. ASSUME NEW j \in 1..n
      PROVE  part(j) = IF keys[j] \in DOMAIN v THEN Put(part(j-1), keys[j], v[keys[j]]) ELSE part(j-1)
  <2>1. 1..j = 1..(j-1) \cup {j}
    BY <1>1
  <2>2. keys[j] \in DOMAIN v => Some(j) = Some(j-1) \cup {keys[j]}
    BY <2>1
  <2>3. keys[j] \notin DOMAIN v => Some(j) = Some(j-1)
    BY <2>1
  <2> QED BY <2>2, <2>3 DEF Put
<1> HIDE DEF part, e
<1>6. ASSUME NEW j \in 1..n PROVE ParseInto(S, r[j-1], s[j]) = r[j]
  <2>1. j - 1 \in 0..n /\ j \in 0..n
    BY <1>1
  <2>2. r[j-1] = SetField(M, name, part(j-1)) /\ r[j] = SetField(M, name, part(j))
    BY <2>1
  <2>3. s[j] = IF keys[j] \in DOMAIN v THEN Chunk(i, e(j)) ELSE <<>>
    BY <1>1
  <2> HIDE DEF r, s
  <2>4. Holds(r[j-1], name, part(j-1))
    BY <2>2, SetFacts
  <2>5. CASE keys[j] \in DOMAIN v
    <3> DEFINE a == Piece(i, e(j))
    <3>1. ParseInto(S, r[j-1], Chunk(i, e(j))) = SetField(r[j-1], name, ParseField(S[i], part(j-1), a))
      BY <2>4, ReadChunk
    <3>6. a.chunk = e(j)
      BY PieceAtom DEF IsChunk
    <3> HIDE DEF a
    <3>2. ParseField(S[i], part(j-1), a) = Put(part(j-1), EntryText(e(j), 1), EntryText(e(j), 2))
      BY <3>6 DEF ParseField, ParseValue
    <3>3. EntryText(e(j), 1) = keys[j] /\ EntryText(e(j), 2) = v[keys[j]]
      BY EntryTrip DEF e
    <3>4. ParseField(S[i], part(j-1), a) = part(j)
      BY <1>5, <2>5, <3>2, <3>3
    <3>5. SetField(r[j-1], name, part(j)) = r[j]
      BY <2>2, SetFacts
    <3> QED BY <2>3, <2>5, <3>1, <3>4, <3>5
  <2>6. CASE keys[j] \notin DOMAIN v
    <3>1. part(j) = part(j-1)
      BY <1>5, <2>6
    <3>2. ParseInto(S, r[j-1], <<>>) = r[j-1]
      BY ParseNone
    <3> QED BY <2>2, <2>3, <2>6, <3>1, <3>2
  <2> QED BY <2>5, <2>6
<1>7. r[0] = M /\ r[n] = SetField(M, name, v)
  <2>1. 0 \in 0..n /\ n \in 0..n
    BY <1>1
  <2>2. r[0] = SetField(M, name, DefaultOf("map")) /\ r[n] = SetField(M, name, v)
    BY <1>4, <2>1
  <2>3. SetField(M, name, DefaultOf("map")) = M
    BY SetFacts
  <2> QED BY <2>2, <2>3
<1>8. s = [j \in DOMAIN keys |-> s[j]]
      /\ \A j \in DOMAIN keys : IsSeq(s[j])
  <2>1. ASSUME NEW b PROVE IsSeq(Chunk(i, b))
    BY OneSeq DEF Chunk
  <2> QED BY <2>1, NoneSeq
<1> HIDE DEF r, s, n
<1>9. IsSeq(s) /\ Len(s) = n /\ DOMAIN s = DOMAIN keys
  BY <1>8, MapSeq DEF n
<1>10. ParseInto(S, r[0], FlattenSeq(s)) = r[n]
  <2>1. Pieces(S, r, s)
    BY <1>6, <1>8, <1>9 DEF Pieces
  <2> QED BY <1>9, <2>1, ParseFlatten
<1> QED BY <1>2, <1>7, <1>10

\* Flat messages are read back as they were written.
FlatTrips(S, K, keys) ==
    \A x : IsFlat(S, x, K) => ParseFlat(S, Clear(S), SerializeFlat(S, x, keys)) = x

\* Every value of K is among the keys.
Covers(keys, K) == IsSeq(keys) /\ K \subseteq Range(keys)

LEMMA FieldTrip ==
    ASSUME NEW S, Numbered(S), NEW i \in DOMAIN S, FieldTypes(S[i]),
           NEW K, NEW v, IsField(S[i], v, K), NEW keys, Covers(keys, K),
           S[i].type \in ValueTypes \/ FlatTrips(S[i].of, K, keys),
           NEW M, Holds(M, S[i].name, DefaultOf(S[i].type))
    PROVE  ParseInto(S, M, SerializeField(S[i], v, keys)) = SetField(M, S[i].name, v)
<1> DEFINE f == S[i]
           w == SerializeField(f, v, keys)
<1> SUFFICES ParseInto(S, M, w) = SetField(M, f.name, v)
  OBVIOUS
<1>0. f.num = i /\ IsSeq(keys) /\ K \subseteq Range(keys)
  BY DEF Numbered, Covers
<1>1. CASE f.type \in ValueTypes \ {"strings"}
  <2>1. w = SerializeValue(f, v, keys) /\ IsValue(f, v, K)
    BY <1>1 DEF SerializeField, IsField, ValueTypes
  <2>2. CASE f.type = "map"
    BY <1>0, <2>1, <2>2, MapTrip
  <2>3. CASE f.type \in {"int", "bool", "bytes", "string", "floats"}
    BY <2>1, <2>3, ScalarTrip
  <2> QED BY <1>1, <2>2, <2>3 DEF ValueTypes
<1>2. CASE f.type = "strings"
  <2> DEFINE s == [j \in DOMAIN v |-> Chunk(i, v[j])]
  <2>1. w = FlattenSeq(s) /\ IsSeq(v)
    BY <1>0, <1>2 DEF SerializeField, SerializeValue, IsField, IsValue
  <2>2. s = [j \in DOMAIN v |-> s[j]] /\ DOMAIN v = 1..Len(v)
        /\ \A j \in DOMAIN v : s[j] = Chunk(i, v[j])
    BY <2>1, SeqFacts
  <2> HIDE DEF s
  <2>3. IsSeq(s) /\ Len(s) = Len(v)
    BY <2>1, <2>2, MapSeq
  <2>4. ASSUME NEW j \in 1..Len(v), NEW x PROVE ParseField(f, x, Piece(i, v[j])) = Longer(x, v[j])
    <3> DEFINE a == Piece(i, v[j])
    <3>1. a.chunk = v[j]
      BY PieceAtom DEF IsChunk
    <3> HIDE DEF a
    <3>2. ParseField(f, x, a) = ParseStrings(x, a)
      BY <1>2 DEF ParseField, ParseValue
    <3>3. ParseStrings(x, a) = Longer(x, v[j])
      BY <3>1 DEF ParseStrings, Longer
    <3> QED BY <3>2, <3>3 DEF a
  <2>5. Holds(M, f.name, <<>>)
    BY <1>2 DEF DefaultOf
  <2>6. ParseInto(S, M, FlattenSeq(s)) = SetField(M, f.name, v)
    <3>1. Repeats(S, i, v, s, v)
      BY <2>1, <2>2, <2>3, <2>4 DEF Repeats
    <3> QED BY <1>2, <2>5, <3>1, RepeatTrip
  <2> QED BY <2>1, <2>6
<1>3. CASE f.type = "messages" /\ FlatTrips(f.of, K, keys)
  <2> DEFINE c == [j \in DOMAIN v |-> SerializeFlat(f.of, v[j], keys)]
             s == [j \in DOMAIN v |-> Chunk(i, SerializeFlat(f.of, v[j], keys))]
  <2>1. w = FlattenSeq(s) /\ IsSeq(v) /\ \A j \in DOMAIN v : IsFlat(f.of, v[j], K)
    BY <1>0, <1>3 DEF SerializeField, IsField
  <2>2. s = [j \in DOMAIN v |-> s[j]] /\ DOMAIN v = 1..Len(v)
        /\ \A j \in DOMAIN v : s[j] = Chunk(i, c[j]) /\ c[j] = SerializeFlat(f.of, v[j], keys)
    BY <2>1, SeqFacts
  <2> HIDE DEF s, c
  <2>3. IsSeq(s) /\ Len(s) = Len(v)
    BY <2>1, <2>2, MapSeq
  <2>4. ASSUME NEW j \in 1..Len(v), NEW x PROVE ParseField(f, x, Piece(i, c[j])) = Longer(x, v[j])
    <3> DEFINE a == Piece(i, c[j])
               y == ParseFlat(f.of, Clear(f.of), c[j])
    <3>1. a.chunk = c[j]
      BY PieceAtom DEF IsChunk
    <3>2. y = v[j]
      BY <1>3, <2>1, <2>2 DEF FlatTrips
    <3> HIDE DEF a
    <3>3. ParseField(f, x, a) = Append(x, y)
      BY <1>3, <3>1 DEF ParseField
    <3>4. Append(x, y) = Longer(x, y)
      BY DEF Longer
    <3> HIDE DEF y
    <3> QED BY <3>2, <3>3, <3>4 DEF a
  <2>5. Holds(M, f.name, <<>>)
    BY <1>3 DEF DefaultOf
  <2>6. ParseInto(S, M, FlattenSeq(s)) = SetField(M, f.name, v)
    <3>1. Repeats(S, i, v, s, c)
      BY <2>1, <2>2, <2>3, <2>4 DEF Repeats
    <3> QED BY <1>3, <2>5, <3>1, RepeatTrip
  <2> QED BY <2>1, <2>6
<1>4. CASE f.type = "message" /\ FlatTrips(f.of, K, keys)
  <2> DEFINE b == SerializeFlat(f.of, v, keys)
             a == Piece(i, b)
  <2>1. w = (IF v # Absent THEN Chunk(i, b) ELSE <<>>)
        /\ (v # Absent => IsFlat(f.of, v, K)) /\ Holds(M, f.name, Absent)
    BY <1>0, <1>4 DEF SerializeField, IsField, DefaultOf
  <2>2. CASE v = Absent
    <3>1. ParseInto(S, M, <<>>) = M
      BY ParseNone
    <3>2. SetField(M, f.name, Absent) = M
      BY <2>1, SetFacts
    <3> QED BY <2>1, <2>2, <3>1, <3>2
  <2>3. CASE v # Absent
    <3>1. ParseInto(S, M, Chunk(i, b)) = SetField(M, f.name, ParseField(f, Absent, a))
      BY <1>4, <2>1, ReadChunk
    <3>2. a.chunk = b
      BY PieceAtom DEF IsChunk
    <3>3. ParseFlat(f.of, Clear(f.of), b) = v
      BY <1>4, <2>1, <2>3 DEF FlatTrips
    <3> HIDE DEF a, b
    <3>4. ParseField(f, Absent, a) = v
      BY <1>4, <3>2, <3>3 DEF ParseField
    <3> QED BY <2>1, <2>3, <3>1, <3>4
  <2> QED BY <2>2, <2>3
<1>5. ~(f.type \in ValueTypes) => FlatTrips(f.of, K, keys) /\ f.type \in {"message", "messages"}
  BY DEF FieldTypes
<1> QED BY <1>1, <1>2, <1>3, <1>4, <1>5

\* Fields that no case expects are kept in their order.
LEMMA UnknownTrip ==
    ASSUME NEW S, NEW b, IsSeq(b), \A i \in DOMAIN b : Known(S, b[i]) = {},
           NEW M, Holds(M, "unknown", <<>>)
    PROVE  ParseInto(S, M, b) = SetField(M, "unknown", b)
<1> DEFINE Hyp(x) == IsSeq(x) /\ \A i \in DOMAIN x : Known(S, x[i]) = {}
           T == {n \in Nat : \A x : Hyp(x) /\ Len(x) = n
                                    => ParseInto(S, M, x) = SetField(M, "unknown", x)}
<1>1. 0 \in T
  <2>1. SetField(M, "unknown", <<>>) = M
    BY SetFacts
  <2> QED BY <2>1, NoLength, ParseNone
<1>2. ASSUME NEW n \in Nat, n \in T PROVE n + 1 \in T
  <2> SUFFICES ASSUME NEW x, Hyp(x), Len(x) = n + 1
               PROVE  ParseInto(S, M, x) = SetField(M, "unknown", x)
    OBVIOUS
  <2>1. PICK d, a : Ends(x, d, a) /\ Len(d) = n
    BY LastSplit
  <2>2. /\ IsSeq(d) /\ x[n+1] = a /\ (\A i \in 1..n : x[i] = d[i])
        /\ DOMAIN x = 1..(n+1) /\ DOMAIN d = 1..n
    BY <2>1, EndsAt
  <2>3. Hyp(d) /\ Known(S, a) = {}
    BY <2>2
  <2> DEFINE N == ParseInto(S, M, d)
  <2>4. N = SetField(M, "unknown", d)
    BY <1>2, <2>1, <2>3
  <2>5. ParseInto(S, M, x) = ParseAtom(S, N, a)
    BY <2>1, ParseMore
  <2> HIDE DEF N
  <2>6. N.unknown = d
    <3>1. Holds(N, "unknown", d)
      BY <2>4, SetFacts
    <3> QED BY <3>1 DEF Holds
  <2>7. ParseAtom(S, N, a) = SetField(N, "unknown", Longer(N.unknown, a))
    BY <2>3 DEF ParseAtom, Keep, SetField, Longer
  <2>8. Longer(N.unknown, a) = x
    <3>1. Longer(d, a) = x
      BY <2>1 DEF Ends, Longer
    <3> QED BY <2>6, <3>1
  <2>9. SetField(N, "unknown", x) = SetField(M, "unknown", x)
    BY <2>4, SetFacts
  <2> QED BY <2>5, <2>7, <2>8, <2>9
<1> HIDE DEF T
<1>3. Len(b) \in T
  BY <1>1, <1>2, Induct, SeqFacts
<1> QED BY <1>3 DEF T

LEMMA FieldNoIs ==
    ASSUME NEW S, Numbered(S), NEW i \in DOMAIN S
    PROVE  FieldNo(S, S[i].name) = i /\ S[i].name \in Names(S) /\ S[i].name # "unknown"
BY DEF FieldNo, Names, Numbered

LEMMA MessageTrip ==
    ASSUME NEW S, Schema(S), NEW K, NEW m, IsMessage(S, m, K), NEW keys, Covers(keys, K),
           \A i \in DOMAIN S : S[i].type \in ValueTypes \/ FlatTrips(S[i].of, K, keys)
    PROVE  ParseInto(S, Clear(S), Serialize(S, m, keys)) = m
<1> DEFINE n == Len(S)
           N == Names(S) \cup {"unknown"}
           s == [i \in DOMAIN S |-> SerializeField(S[i], m[S[i].name], keys)]
           val(j, x) == IF x = "unknown" THEN <<>>
                        ELSE IF FieldNo(S, x) <= j THEN m[x] ELSE DefaultOf(S[FieldNo(S, x)].type)
           r == [j \in 0..n |-> [x \in N |-> val(j, x)]]
<1>1. Numbered(S) /\ n \in Nat /\ DOMAIN S = 1..n /\ IsSeq(S)
  BY SeqFacts DEF Schema, Numbered
<1>2. \A i \in DOMAIN S : FieldTypes(S[i]) /\ IsField(S[i], m[S[i].name], K)
  BY DEF Schema, IsMessage
<1>3. /\ m = [x \in N |-> m[x]] /\ IsBytes(m.unknown)
      /\ \A i \in DOMAIN m.unknown : Known(S, m.unknown[i]) = {}
  BY DEF IsMessage, HasFields
<1>4. ASSUME NEW x \in N
      PROVE  x = "unknown" \/ \E i \in DOMAIN S : x = S[i].name /\ FieldNo(S, x) = i
  <2>1. CASE x \in Names(S)
    <3>1. PICK i \in DOMAIN S : x = S[i].name
      BY <2>1 DEF Names
    <3> QED BY <1>1, <3>1, FieldNoIs
  <2> QED BY <2>1
<1>5. r[0] = Clear(S)
  <2>1. 0 \in 0..n
    BY <1>1
  <2>2. ASSUME NEW x \in N PROVE val(0, x) = IF x = "unknown" THEN <<>> ELSE DefaultOf(S[FieldNo(S, x)].type)
    BY <1>1, <1>4
  <2> QED BY <2>1, <2>2 DEF Clear
<1>6. r[n] = SetField(m, "unknown", <<>>)
  <2>1. n \in 0..n
    BY <1>1
  <2>2. ASSUME NEW x \in N PROVE val(n, x) = IF x = "unknown" THEN <<>> ELSE m[x]
    BY <1>1, <1>4
  <2>3. r[n] = [x \in N |-> val(n, x)]
    BY <2>1
  <2> HIDE DEF r, val
  <2> QED BY <1>3, <2>2, <2>3 DEF SetField
<1>7. ASSUME NEW j \in 1..n PROVE ParseInto(S, r[j-1], s[j]) = r[j]
  <2>1. j - 1 \in 0..n /\ j \in 0..n /\ j \in DOMAIN S
    BY <1>1
  <2>2. r[j-1] = [x \in N |-> val(j-1, x)] /\ r[j] = [x \in N |-> val(j, x)]
    BY <2>1
  <2>3. s[j] = SerializeField(S[j], m[S[j].name], keys)
    BY <2>1
  <2>4. FieldNo(S, S[j].name) = j /\ S[j].name \in N /\ S[j].name # "unknown"
    BY <1>1, <2>1, FieldNoIs
  <2>5. val(j-1, S[j].name) = DefaultOf(S[j].type) /\ val(j, S[j].name) = m[S[j].name]
    BY <1>1, <2>4
  <2>6. ASSUME NEW x \in N, x # S[j].name PROVE val(j-1, x) = val(j, x)
    <3>1. CASE x = "unknown"
      BY <3>1
    <3>2. CASE x # "unknown"
      <4>1. PICK i \in DOMAIN S : x = S[i].name /\ FieldNo(S, x) = i
        BY <1>4, <3>2
      <4>2. i # j
        BY <2>6, <4>1
      <4>3. i <= j - 1 <=> i <= j
        BY <1>1, <4>2
      <4> QED BY <3>2, <4>1, <4>3
    <3> QED BY <3>1, <3>2
  <2> HIDE DEF r, s, val, n, N
  <2>7. Holds(r[j-1], S[j].name, DefaultOf(S[j].type))
    BY <2>2, <2>4, <2>5 DEF Holds
  <2>8. ParseInto(S, r[j-1], s[j]) = SetField(r[j-1], S[j].name, m[S[j].name])
    BY <1>1, <1>2, <2>1, <2>3, <2>7, FieldTrip
  <2>9. SetField(r[j-1], S[j].name, m[S[j].name]) = r[j]
    BY <2>2, <2>4, <2>5, <2>6 DEF SetField
  <2> QED BY <2>8, <2>9
<1>8. s = [i \in DOMAIN S |-> s[i]] /\ \A i \in DOMAIN S : s[i] = SerializeField(S[i], m[S[i].name], keys)
  OBVIOUS
<1> HIDE DEF r, s, val, n, N
<1>9. IsSeq(s) /\ Len(s) = n /\ DOMAIN s = DOMAIN S
  BY <1>1, <1>8, MapSeq DEF n
<1>10. \A i \in DOMAIN s : IsSeq(s[i])
  BY <1>2, <1>8, <1>9, FieldBytes DEF IsBytes, Covers
<1> DEFINE b == FlattenSeq(s)
           u == m.unknown
<1>11. ParseInto(S, r[0], b) = r[n]
  <2>1. Pieces(S, r, s)
    BY <1>7, <1>9, <1>10 DEF Pieces
  <2> QED BY <1>7, <1>9, <1>10, <2>1, ParseFlatten
<1>12. IsSeq(b)
  BY <1>9, <1>10, FlattenRange
<1>13. IsSeq(u) /\ \A i \in DOMAIN u : Known(S, u[i]) = {}
  BY <1>3 DEF IsBytes
<1>14. Serialize(S, m, keys) = b \o u
  BY DEF Serialize, s
<1>15. Holds(m, "unknown", u)
  BY <1>3 DEF Holds, N
<1> HIDE DEF b, u
<1>16. Holds(r[n], "unknown", <<>>)
  BY <1>6, <1>15, SetFacts
<1>17. ParseInto(S, r[n], u) = SetField(r[n], "unknown", u)
  BY <1>13, <1>16, UnknownTrip
<1>18. SetField(r[n], "unknown", u) = m
  BY <1>6, <1>15, SetFacts
<1>19. ParseInto(S, r[0], b \o u) = ParseInto(S, ParseInto(S, r[0], b), u)
  BY <1>12, <1>13, ParseConcat
<1> QED BY <1>5, <1>11, <1>14, <1>17, <1>18, <1>19

LEMMA FlatMessages ==
    ASSUME NEW S, FlatSchema(S), NEW K, NEW m, IsFlat(S, m, K), NEW keys
    PROVE  /\ Schema(S) /\ IsMessage(S, m, K)
           /\ SerializeFlat(S, m, keys) = Serialize(S, m, keys)
<1>1. \A i \in DOMAIN S : S[i].type \in ValueTypes
  BY DEF FlatSchema, FlatFields
<1>2. Schema(S)
  BY <1>1 DEF FlatSchema, Schema, FieldTypes
<1>3. IsMessage(S, m, K)
  <2>1. \A i \in DOMAIN S : IsField(S[i], m[S[i].name], K) <=> IsValue(S[i], m[S[i].name], K)
    BY <1>1 DEF IsField, ValueTypes
  <2> QED BY <2>1 DEF IsFlat, IsMessage
<1>4. \A i \in DOMAIN S : SerializeField(S[i], m[S[i].name], keys) = SerializeValue(S[i], m[S[i].name], keys)
  BY <1>1 DEF SerializeField, ValueTypes
<1>5. [i \in DOMAIN S |-> SerializeField(S[i], m[S[i].name], keys)]
        = [i \in DOMAIN S |-> SerializeValue(S[i], m[S[i].name], keys)]
  BY <1>4
<1> QED BY <1>2, <1>3, <1>5 DEF SerializeFlat, Serialize

LEMMA FlatTrip ==
    ASSUME NEW S, FlatSchema(S), NEW K, NEW keys, Covers(keys, K)
    PROVE  FlatTrips(S, K, keys)
<1> SUFFICES ASSUME NEW x, IsFlat(S, x, K)
             PROVE  ParseFlat(S, Clear(S), SerializeFlat(S, x, keys)) = x
  BY DEF FlatTrips
<1>1. Schema(S) /\ IsMessage(S, x, K) /\ SerializeFlat(S, x, keys) = Serialize(S, x, keys)
  BY FlatMessages
<1>2. \A i \in DOMAIN S : S[i].type \in ValueTypes
  BY DEF FlatSchema, FlatFields
<1>3. ParseInto(S, Clear(S), Serialize(S, x, keys)) = x
  BY <1>1, <1>2, MessageTrip
<1>4. IsSeq(SerializeFlat(S, x, keys))
  BY FlatBytes DEF IsBytes, Covers
<1>5. ParseFlat(S, Clear(S), SerializeFlat(S, x, keys)) = ParseInto(S, Clear(S), SerializeFlat(S, x, keys))
  BY <1>4, FlatIsParse DEF FlatSchema
<1> QED BY <1>1, <1>3, <1>5

\* What _InternalParse makes of a message that _InternalSerialize wrote, in
\* whatever order the maps in it: the message, its unknown fields included.
LEMMA RoundTrip ==
    ASSUME NEW S, Schema(S), NEW K, NEW m, IsMessage(S, m, K), NEW keys, Covers(keys, K)
    PROVE  ParseInto(S, Clear(S), Serialize(S, m, keys)) = m
<1>1. \A i \in DOMAIN S : S[i].type \in ValueTypes \/ FlatTrips(S[i].of, K, keys)
  BY FlatTrip DEF Schema, FieldTypes
<1> QED BY <1>1, MessageTrip

-----------------------------------------------------------------------------
(* Which messages can be read *)

AtomOk(S, a) == ~Has(a, "torn") /\ \A k \in Known(S, a) : ReadableField(S[k], a)
Clean(S, b)  == \A a \in Range(b) : AtomOk(S, a)

\* The texts in a value, a field or a message are UTF-8.
Utf8Value(f, v) ==
    CASE f.type = "string"  -> IsUtf8(v)
      [] f.type = "strings" -> \A i \in DOMAIN v : IsUtf8(v[i])
      [] f.type = "map"     -> \A k \in DOMAIN v : IsUtf8(k) /\ IsUtf8(v[k])
      [] OTHER              -> TRUE
Utf8Flat(S, m) == \A i \in DOMAIN S : Utf8Value(S[i], m[S[i].name])
Utf8Field(f, v) ==
    CASE f.type = "message"  -> v = Absent \/ Utf8Flat(f.of, v)
      [] f.type = "messages" -> \A i \in DOMAIN v : Utf8Flat(f.of, v[i])
      [] OTHER               -> Utf8Value(f, v)
Utf8Message(S, m) == \A i \in DOMAIN S : Utf8Field(S[i], m[S[i].name])

LEMMA CleanReadable ==
    ASSUME NEW S, NEW b PROVE Readable(S, b) <=> Clean(S, b)
BY DEF Readable, Clean, AtomOk, Range

LEMMA CleanNone == ASSUME NEW S PROVE Clean(S, <<>>)
BY NoneSeq DEF Clean, Range

LEMMA CleanOne == ASSUME NEW S, NEW a PROVE Clean(S, <<a>>) <=> AtomOk(S, a)
<1>1. Range(<<a>>) = {a}
  BY DEF Range
<1> QED BY <1>1 DEF Clean

LEMMA CleanFlatten ==
    ASSUME NEW S, NEW s, IsSeq(s), \A i \in DOMAIN s : IsSeq(s[i])
    PROVE  Clean(S, FlattenSeq(s)) <=> \A i \in DOMAIN s : Clean(S, s[i])
<1>1. Range(FlattenSeq(s)) = UNION {Range(s[i]) : i \in DOMAIN s}
  BY FlattenRange
<1> QED BY <1>1 DEF Clean

LEMMA CleanPiece ==
    ASSUME NEW S, Numbered(S), NEW i \in DOMAIN S, S[i].type \notin {"int", "bool"}, NEW b
    PROVE  Clean(S, Chunk(i, b)) <=> ReadableField(S[i], Piece(i, b))
<1> DEFINE a == Piece(i, b)
<1>1. Chunk(i, b) = <<a>> /\ IsChunk(a, i, b)
  BY PieceAtom
<1> HIDE DEF a
<1>2. Has(a, "num") /\ a.num = i /\ Expects(S[i], a) /\ ~Has(a, "torn")
  BY <1>1 DEF IsChunk, Expects
<1>3. Known(S, a) = {i}
  BY <1>2 DEF Known, Numbered
<1>4. AtomOk(S, a) <=> ReadableField(S[i], a)
  BY <1>2, <1>3 DEF AtomOk
<1> QED BY <1>1, <1>4, CleanOne DEF a

LEMMA CleanNumber ==
    ASSUME NEW S, Numbered(S), NEW i \in DOMAIN S, S[i].type \in {"int", "bool"}, NEW v
    PROVE  Clean(S, Varint(i, v))
<1> DEFINE a == Number(i, v)
<1>1. Varint(i, v) = <<a>> /\ Has(a, "num") /\ a.num = i /\ Has(a, "varint") /\ ~Has(a, "torn")
  BY NumberAtom
<1> HIDE DEF a
<1>2. Expects(S[i], a)
  BY <1>1 DEF Expects
<1>3. Known(S, a) = {i}
  BY <1>1, <1>2 DEF Known, Numbered
<1>4. ReadableField(S[i], a)
  BY DEF ReadableField, ReadableValue
<1>5. AtomOk(S, a)
  BY <1>1, <1>3, <1>4 DEF AtomOk
<1> QED BY <1>1, <1>5, CleanOne

LEMMA CleanValue ==
    ASSUME NEW S, Numbered(S), NEW i \in DOMAIN S, S[i].type \in ValueTypes,
           NEW K, NEW v, IsValue(S[i], v, K), NEW keys, Covers(keys, K)
    PROVE  Clean(S, SerializeValue(S[i], v, keys)) <=> Utf8Value(S[i], v)
<1> DEFINE f == S[i]
           w == SerializeValue(f, v, keys)
<1> SUFFICES Clean(S, w) <=> Utf8Value(f, v)
  OBVIOUS
<1>0. f.num = i
  BY DEF Numbered
<1>1. CASE f.type \in {"int", "bool"}
  <2>1. \E x : w = Varint(i, x) \/ w = <<>>
    BY <1>0, <1>1 DEF SerializeValue
  <2>2. Utf8Value(f, v)
    BY <1>1 DEF Utf8Value
  <2> HIDE DEF w
  <2> QED BY <1>1, <2>1, <2>2, CleanNone, CleanNumber
<1>2. CASE f.type = "bytes"
  <2>1. w = Chunk(i, v) \/ w = <<>>
    BY <1>0, <1>2 DEF SerializeValue
  <2>2. Utf8Value(f, v) /\ ReadableField(f, Piece(i, v))
    BY <1>2 DEF Utf8Value, ReadableField, ReadableValue
  <2> HIDE DEF w
  <2> QED BY <1>2, <2>1, <2>2, CleanNone, CleanPiece
<1>3. CASE f.type = "string"
  <2>1. (v # <<>> /\ w = Chunk(i, v)) \/ (v = <<>> /\ w = <<>>)
    BY <1>0, <1>3 DEF SerializeValue
  <2>2. Utf8Value(f, v) <=> IsUtf8(v)
    BY <1>3 DEF Utf8Value
  <2>3. ReadableField(f, Piece(i, v)) <=> IsUtf8(v)
    <3> DEFINE a == Piece(i, v)
    <3>1. a.chunk = v
      BY PieceAtom DEF IsChunk
    <3> HIDE DEF a
    <3>2. ReadableField(f, a) <=> IsUtf8(v)
      BY <1>3, <3>1 DEF ReadableField, ReadableValue
    <3> QED BY <3>2 DEF a
  <2>4. IsUtf8(<<>>)
    BY NoneSeq DEF IsUtf8
  <2> HIDE DEF w
  <2> QED BY <1>3, <2>1, <2>2, <2>3, <2>4, CleanNone, CleanPiece
<1>4. CASE f.type = "floats"
  <2> DEFINE x == [j \in DOMAIN v |-> [float |-> v[j]]]
             a == Piece(i, x)
  <2>1. w = Chunk(i, x) \/ w = <<>>
    BY <1>0, <1>4 DEF SerializeValue
  <2>2. a.chunk = x
    BY PieceAtom DEF IsChunk
  <2>3. \A j \in DOMAIN x : Has(x[j], "float")
    BY DEF Has
  <2> HIDE DEF x, a
  <2>4. ReadableField(f, a)
    BY <1>4, <2>2, <2>3 DEF ReadableField, ReadableValue
  <2>5. Utf8Value(f, v)
    BY <1>4 DEF Utf8Value
  <2> HIDE DEF w
  <2> QED BY <1>4, <2>1, <2>4, <2>5, CleanNone, CleanPiece DEF a
<1>5. CASE f.type = "strings"
  <2> DEFINE s == [j \in DOMAIN v |-> Chunk(i, v[j])]
  <2>1. w = FlattenSeq(s) /\ IsSeq(v)
    BY <1>0, <1>5 DEF SerializeValue, IsValue
  <2>2. s = [j \in DOMAIN v |-> s[j]] /\ \A j \in DOMAIN v : s[j] = Chunk(i, v[j])
    OBVIOUS
  <2> HIDE DEF s
  <2>3. IsSeq(s) /\ DOMAIN s = DOMAIN v
    BY <2>1, <2>2, MapSeq
  <2>4. ASSUME NEW j \in DOMAIN v PROVE IsSeq(s[j]) /\ (Clean(S, s[j]) <=> IsUtf8(v[j]))
    <3> DEFINE a == Piece(i, v[j])
    <3>1. a.chunk = v[j]
      BY PieceAtom DEF IsChunk
    <3>2. Clean(S, Chunk(i, v[j])) <=> ReadableField(f, a)
      BY <1>5, CleanPiece
    <3> HIDE DEF a
    <3>3. ReadableField(f, a) <=> IsUtf8(v[j])
      BY <1>5, <3>1 DEF ReadableField, ReadableValue
    <3>4. IsSeq(Chunk(i, v[j]))
      BY OneSeq DEF Chunk
    <3> QED BY <2>2, <3>2, <3>3, <3>4
  <2>5. Clean(S, w) <=> \A j \in DOMAIN v : IsUtf8(v[j])
    BY <2>1, <2>3, <2>4, CleanFlatten
  <2> QED BY <1>5, <2>5 DEF Utf8Value
<1>6. CASE f.type = "map"
  <2> DEFINE e(j) == SerializeEntry(keys[j], v[keys[j]])
             s == [j \in DOMAIN keys |-> IF keys[j] \in DOMAIN v THEN Chunk(i, e(j)) ELSE <<>>]
             Ok(k) == IsUtf8(k) /\ IsUtf8(v[k])
  <2>1. w = FlattenSeq(s) /\ IsSeq(keys) /\ DOMAIN v \subseteq Range(keys)
    BY <1>0, <1>6 DEF SerializeValue, IsValue, Covers
  <2> HIDE DEF e
  <2>2. /\ s = [j \in DOMAIN keys |-> s[j]]
        /\ \A j \in DOMAIN keys : s[j] = IF keys[j] \in DOMAIN v THEN Chunk(i, e(j)) ELSE <<>>
    OBVIOUS
  <2> HIDE DEF s
  <2>3. IsSeq(s) /\ DOMAIN s = DOMAIN keys
    BY <2>1, <2>2, MapSeq
  <2>4. ASSUME NEW j \in DOMAIN keys
        PROVE  IsSeq(s[j]) /\ (Clean(S, s[j]) <=> (keys[j] \in DOMAIN v => Ok(keys[j])))
    <3> DEFINE a == Piece(i, e(j))
    <3>1. a.chunk = e(j)
      BY PieceAtom DEF IsChunk
    <3>2. Clean(S, Chunk(i, e(j))) <=> ReadableField(f, a)
      BY <1>6, CleanPiece
    <3> HIDE DEF a
    <3>3. ReadableField(f, a) <=> ReadableEntry(e(j))
      BY <1>6, <3>1 DEF ReadableField, ReadableValue
    <3>4. ReadableEntry(e(j)) <=> Ok(keys[j])
      BY EntryTrip DEF e
    <3>5. IsSeq(Chunk(i, e(j)))
      BY OneSeq DEF Chunk
    <3> HIDE DEF Ok
    <3>6. CASE keys[j] \in DOMAIN v
      <4>1. s[j] = Chunk(i, e(j))
        BY <2>2, <3>6
      <4> QED BY <3>2, <3>3, <3>4, <3>5, <3>6, <4>1
    <3>7. CASE keys[j] \notin DOMAIN v
      <4>1. s[j] = <<>>
        BY <2>2, <3>7
      <4> QED BY <3>7, <4>1, CleanNone, NoneSeq
    <3> QED BY <3>6, <3>7
  <2> HIDE DEF Ok
  <2>5. Clean(S, w) <=> \A j \in DOMAIN keys : keys[j] \in DOMAIN v => Ok(keys[j])
    BY <2>1, <2>3, <2>4, CleanFlatten
  <2>6. (\A j \in DOMAIN keys : keys[j] \in DOMAIN v => Ok(keys[j])) <=> \A k \in DOMAIN v : Ok(k)
    BY <2>1 DEF Range
  <2>7. Utf8Value(f, v) <=> \A k \in DOMAIN v : Ok(k)
    BY <1>6 DEF Utf8Value, Ok
  <2> QED BY <2>5, <2>6, <2>7
<1> QED BY <1>1, <1>2, <1>3, <1>4, <1>5, <1>6 DEF ValueTypes

\* ReadableFlat and Readable agree on a message without messages in it.
LEMMA FlatIsReadable ==
    ASSUME NEW S, FlatFields(S), NEW b PROVE ReadableFlat(S, b) <=> Readable(S, b)
<1>1. \A a : \A k \in Known(S, a) : ReadableField(S[k], a) <=> ReadableValue(S[k], a)
  <2> SUFFICES ASSUME NEW a, NEW k \in Known(S, a)
               PROVE  ReadableField(S[k], a) <=> ReadableValue(S[k], a)
    OBVIOUS
  <2>1. S[k].type \in ValueTypes
    BY DEF Known, FlatFields
  <2> QED BY <2>1 DEF ReadableField, ValueTypes
<1> QED BY <1>1 DEF ReadableFlat, Readable

\* What is written of S's fields can be read if each of them can.
LEMMA CleanFields ==
    ASSUME NEW S, Schema(S), NEW K, NEW m, IsMessage(S, m, K), NEW keys, Covers(keys, K)
    PROVE  Readable(S, Serialize(S, m, keys))
             <=> \A i \in DOMAIN S : Clean(S, SerializeField(S[i], m[S[i].name], keys))
<1> DEFINE s == [i \in DOMAIN S |-> SerializeField(S[i], m[S[i].name], keys)]
           b == FlattenSeq(s)
           u == m.unknown
<1>1. /\ IsSeq(S) /\ IsSeq(keys)
      /\ \A i \in DOMAIN S : FieldTypes(S[i]) /\ IsField(S[i], m[S[i].name], K)
  BY DEF Schema, Numbered, IsMessage, Covers
<1>2. IsSeq(u) /\ \A i \in DOMAIN u : Known(S, u[i]) = {} /\ ~Has(u[i], "torn")
  BY DEF IsMessage, HasFields, IsBytes
<1>3. Serialize(S, m, keys) = b \o u
  BY DEF Serialize
<1>4. s = [i \in DOMAIN S |-> s[i]] /\ \A i \in DOMAIN S : s[i] = SerializeField(S[i], m[S[i].name], keys)
  OBVIOUS
<1> HIDE DEF s, u
<1>5. IsSeq(s) /\ DOMAIN s = DOMAIN S
  BY <1>1, <1>4, MapSeq
<1>6. \A i \in DOMAIN s : IsSeq(s[i])
  BY <1>1, <1>4, <1>5, FieldBytes DEF IsBytes
<1>7. IsSeq(b)
  BY <1>5, <1>6, FlattenRange
<1>8. Clean(S, b) <=> \A i \in DOMAIN s : Clean(S, s[i])
  BY <1>5, <1>6, CleanFlatten
<1> HIDE DEF b
<1>9. Clean(S, u)
  BY <1>2 DEF Clean, AtomOk, Range
<1>10. Range(b \o u) = Range(b) \cup Range(u)
  BY <1>2, <1>7, RangeConcat
<1>11. Clean(S, b \o u) <=> Clean(S, b)
  BY <1>9, <1>10 DEF Clean
<1>12. Readable(S, b \o u) <=> Clean(S, b \o u)
  BY CleanReadable
<1> QED BY <1>3, <1>4, <1>5, <1>8, <1>11, <1>12

LEMMA FlatReadable ==
    ASSUME NEW S, FlatSchema(S), NEW K, NEW m, IsFlat(S, m, K), NEW keys, Covers(keys, K)
    PROVE  ReadableFlat(S, SerializeFlat(S, m, keys)) <=> Utf8Flat(S, m)
<1>1. Schema(S) /\ IsMessage(S, m, K) /\ SerializeFlat(S, m, keys) = Serialize(S, m, keys)
  BY FlatMessages
<1>2. ASSUME NEW i \in DOMAIN S
      PROVE  Clean(S, SerializeField(S[i], m[S[i].name], keys)) <=> Utf8Value(S[i], m[S[i].name])
  <2>1. Numbered(S) /\ S[i].type \in ValueTypes /\ IsValue(S[i], m[S[i].name], K)
    BY DEF FlatSchema, FlatFields, IsFlat
  <2>2. SerializeField(S[i], m[S[i].name], keys) = SerializeValue(S[i], m[S[i].name], keys)
    BY <2>1 DEF SerializeField, ValueTypes
  <2> QED BY <2>1, <2>2, CleanValue
<1>3. Readable(S, Serialize(S, m, keys))
        <=> \A i \in DOMAIN S : Clean(S, SerializeField(S[i], m[S[i].name], keys))
  BY <1>1, CleanFields
<1>4. ReadableFlat(S, SerializeFlat(S, m, keys)) <=> Readable(S, SerializeFlat(S, m, keys))
  BY FlatIsReadable DEF FlatSchema
<1> QED BY <1>1, <1>2, <1>3, <1>4 DEF Utf8Flat

LEMMA CleanField ==
    ASSUME NEW S, Numbered(S), NEW i \in DOMAIN S, FieldTypes(S[i]),
           NEW K, NEW v, IsField(S[i], v, K), NEW keys, Covers(keys, K)
    PROVE  Clean(S, SerializeField(S[i], v, keys)) <=> Utf8Field(S[i], v)
<1> DEFINE f == S[i]
           w == SerializeField(f, v, keys)
<1> SUFFICES Clean(S, w) <=> Utf8Field(f, v)
  OBVIOUS
<1>0. f.num = i
  BY DEF Numbered
<1>1. CASE f.type \in ValueTypes
  <2>1. w = SerializeValue(f, v, keys) /\ IsValue(f, v, K)
    BY <1>1 DEF SerializeField, IsField, ValueTypes
  <2>2. Utf8Field(f, v) <=> Utf8Value(f, v)
    BY <1>1 DEF Utf8Field, ValueTypes
  <2> QED BY <1>1, <2>1, <2>2, CleanValue
<1>2. ASSUME NEW x, f.type \in {"message", "messages"}, FlatSchema(f.of), IsFlat(f.of, x, K)
      PROVE  Clean(S, Chunk(i, SerializeFlat(f.of, x, keys))) <=> Utf8Flat(f.of, x)
  <2> DEFINE b == SerializeFlat(f.of, x, keys)
             a == Piece(i, b)
  <2>1. Clean(S, Chunk(i, b)) <=> ReadableField(f, a)
    BY <1>2, CleanPiece
  <2>2. a.chunk = b
    BY PieceAtom DEF IsChunk
  <2>3. ReadableFlat(f.of, b) <=> Utf8Flat(f.of, x)
    BY <1>2, FlatReadable
  <2> HIDE DEF a, b
  <2>4. ReadableField(f, a) <=> ReadableFlat(f.of, b)
    BY <1>2, <2>2 DEF ReadableField
  <2> QED BY <2>1, <2>3, <2>4 DEF b
<1>3. CASE f.type = "message" /\ FlatSchema(f.of)
  <2>1. /\ w = IF v # Absent THEN Chunk(i, SerializeFlat(f.of, v, keys)) ELSE <<>>
        /\ v = Absent \/ IsFlat(f.of, v, K)
        /\ Utf8Field(f, v) <=> v = Absent \/ Utf8Flat(f.of, v)
    BY <1>0, <1>3 DEF SerializeField, IsField, Utf8Field
  <2> HIDE DEF w
  <2>2. CASE v = Absent
    BY <2>1, <2>2, CleanNone
  <2>3. CASE v # Absent
    <3>1. Clean(S, Chunk(i, SerializeFlat(f.of, v, keys))) <=> Utf8Flat(f.of, v)
      BY <1>2, <1>3, <2>1, <2>3
    <3> QED BY <2>1, <2>3, <3>1
  <2> QED BY <2>2, <2>3
<1>4. CASE f.type = "messages" /\ FlatSchema(f.of)
  <2> DEFINE s == [j \in DOMAIN v |-> Chunk(i, SerializeFlat(f.of, v[j], keys))]
  <2>1. w = FlattenSeq(s) /\ IsSeq(v) /\ \A j \in DOMAIN v : IsFlat(f.of, v[j], K)
    BY <1>0, <1>4 DEF SerializeField, IsField
  <2>2. /\ s = [j \in DOMAIN v |-> s[j]]
        /\ \A j \in DOMAIN v : s[j] = Chunk(i, SerializeFlat(f.of, v[j], keys))
    OBVIOUS
  <2> HIDE DEF s
  <2>3. IsSeq(s) /\ DOMAIN s = DOMAIN v
    BY <2>1, <2>2, MapSeq
  <2>4. ASSUME NEW j \in DOMAIN v PROVE IsSeq(s[j]) /\ (Clean(S, s[j]) <=> Utf8Flat(f.of, v[j]))
    <3>1. Clean(S, Chunk(i, SerializeFlat(f.of, v[j], keys))) <=> Utf8Flat(f.of, v[j])
      BY <1>2, <1>4, <2>1
    <3>2. IsSeq(Chunk(i, SerializeFlat(f.of, v[j], keys)))
      BY OneSeq DEF Chunk
    <3> QED BY <2>2, <3>1, <3>2
  <2>5. Clean(S, w) <=> \A j \in DOMAIN v : Utf8Flat(f.of, v[j])
    BY <2>1, <2>3, <2>4, CleanFlatten
  <2> QED BY <1>4, <2>5 DEF Utf8Field
<1> QED BY <1>1, <1>3, <1>4 DEF FieldTypes

\* A message is read exactly if every text in it that is verified is UTF-8.
LEMMA MessageReadable ==
    ASSUME NEW S, Schema(S), NEW K, NEW m, IsMessage(S, m, K), NEW keys, Covers(keys, K)
    PROVE  Readable(S, Serialize(S, m, keys)) <=> Utf8Message(S, m)
<1>1. Readable(S, Serialize(S, m, keys))
        <=> \A i \in DOMAIN S : Clean(S, SerializeField(S[i], m[S[i].name], keys))
  BY CleanFields
<1>2. ASSUME NEW i \in DOMAIN S
      PROVE  Clean(S, SerializeField(S[i], m[S[i].name], keys)) <=> Utf8Field(S[i], m[S[i].name])
  <2>1. Numbered(S) /\ FieldTypes(S[i]) /\ IsField(S[i], m[S[i].name], K)
    BY DEF Schema, IsMessage
  <2> QED BY <2>1, CleanField
<1> QED BY <1>1, <1>2 DEF Utf8Message

LEMMA NotFailed ==
    ASSUME NEW S, NEW K, NEW m, IsMessage(S, m, K) PROVE m # Failed
<1>1. "unknown" \in DOMAIN m
  BY DEF IsMessage, HasFields
<1>2. DOMAIN Failed = {"failed"}
  BY DEF Failed
<1> QED BY <1>1, <1>2

\* For every message of every schema, ParseFromString returns what was
\* serialized, unknown fields included and in whatever order the maps were
\* written; it fails exactly if a text of the message is not UTF-8.
THEOREM ParseTrip ==
    ASSUME NEW S, Schema(S), NEW K, NEW m, IsMessage(S, m, K), NEW keys, Covers(keys, K)
    PROVE  Parse(S, Serialize(S, m, keys)) = IF Utf8Message(S, m) THEN m ELSE Failed
BY MessageReadable, RoundTrip DEF Parse

-----------------------------------------------------------------------------
(* Parsing one value after another merges them *)

TypedValue(f, v) ==
    CASE f.type \in {"floats", "strings"} -> IsSeq(v)
      [] f.type = "map"                   -> v = [k \in DOMAIN v |-> v[k]]
      [] OTHER                            -> TRUE
Typed(S, m) ==
    /\ m = [x \in Names(S) \cup {"unknown"} |-> m[x]] /\ IsSeq(m.unknown)
    /\ \A i \in DOMAIN S : TypedValue(S[i], m[S[i].name])

LEMMA LongerSeq ==
    ASSUME NEW v, IsSeq(v), NEW x PROVE IsSeq(Longer(v, x))
BY AppendSeq DEF Longer

LEMMA ConcatLonger ==
    ASSUME NEW v, IsSeq(v), NEW w, IsSeq(w), NEW x
    PROVE  Longer(v \o w, x) = v \o Longer(w, x)
<1>1. Ends(Longer(w, x), w, x)
  BY DEF Ends, Longer
<1> DEFINE l == Longer(w, x)
<1> HIDE DEF l
<1>2. Ends(v \o l, v \o w, x)
  BY <1>1, ConcatEnds DEF l
<1>3. v \o l = Append(v \o w, x)
  BY <1>2 DEF Ends
<1>4. Append(v \o w, x) = Longer(v \o w, x)
  BY DEF Longer
<1> QED BY <1>3, <1>4 DEF l

LEMMA MergeValue ==
    ASSUME NEW f, f.type \in ValueTypes, NEW to, TypedValue(f, to), NEW from, TypedValue(f, from),
           NEW a, NoDefault(f, a), Expects(f, a)
    PROVE  /\ TypedValue(f, ParseValue(f, from, a))
           /\ ParseValue(f, MergeField(f, to, from), a) = MergeField(f, to, ParseValue(f, from, a))
<1>1. CASE f.type = "int"
  <2>1. /\ \A v : ParseValue(f, v, a) = a.varint
        /\ \A v : MergeField(f, to, v) = IF v = 0 THEN to ELSE v
        /\ \A v : TypedValue(f, v)
        /\ a.varint # 0
    BY <1>1 DEF ParseValue, MergeField, TypedValue, NoDefault, DefaultOf
  <2> QED BY <2>1
<1>2. CASE f.type = "bool"
  <2>1. \A v : ParseValue(f, v, a) = (a.varint # 0)
    BY <1>2 DEF ParseValue
  <2>2. \A v : MergeField(f, to, v) = IF v = FALSE THEN to ELSE v
    BY <1>2 DEF MergeField, DefaultOf
  <2>3. (\A v : TypedValue(f, v)) /\ a.varint # 0
    BY <1>2 DEF TypedValue, NoDefault
  <2>4. \A v : ParseValue(f, v, a) = TRUE
    BY <2>1, <2>3
  <2>5. MergeField(f, to, TRUE) = TRUE
    BY <2>2
  <2> QED BY <2>3, <2>4, <2>5
<1>3. CASE f.type \in {"bytes", "string"}
  <2>1. /\ \A v : ParseValue(f, v, a) = a.chunk
        /\ \A v : MergeField(f, to, v) = IF v = <<>> THEN to ELSE v
        /\ \A v : TypedValue(f, v)
        /\ a.chunk # <<>>
    BY <1>3 DEF ParseValue, MergeField, TypedValue, NoDefault, DefaultOf
  <2> QED BY <2>1
<1>4. CASE f.type = "strings"
  <2>1. \A v : ParseValue(f, v, a) = Longer(v, a.chunk)
    BY <1>4 DEF ParseValue, ParseStrings, Longer
  <2>2. \A v : MergeField(f, to, v) = to \o v
    BY <1>4 DEF MergeField
  <2>3. (\A v : TypedValue(f, v) <=> IsSeq(v)) /\ IsSeq(to) /\ IsSeq(from)
    BY <1>4 DEF TypedValue
  <2>4. IsSeq(Longer(from, a.chunk))
    BY <2>3, LongerSeq
  <2>5. Longer(to \o from, a.chunk) = to \o Longer(from, a.chunk)
    BY <2>3, ConcatLonger
  <2> QED BY <2>1, <2>2, <2>3, <2>4, <2>5
<1>5. CASE f.type = "floats"
  <2>1. \A v : ParseValue(f, v, a) = ParseFloats(v, a)
    BY <1>5 DEF ParseValue
  <2>2. \A v : MergeField(f, to, v) = to \o v
    BY <1>5 DEF MergeField
  <2>3. (\A v : TypedValue(f, v) <=> IsSeq(v)) /\ IsSeq(to) /\ IsSeq(from)
    BY <1>5 DEF TypedValue
  <2>4. CASE Has(a, "fixed")
    <3>1. \A v : ParseFloats(v, a) = Longer(v, a.fixed)
      BY <2>4 DEF ParseFloats, Longer
    <3>2. IsSeq(Longer(from, a.fixed))
      BY <2>3, LongerSeq
    <3>3. Longer(to \o from, a.fixed) = to \o Longer(from, a.fixed)
      BY <2>3, ConcatLonger
    <3> QED BY <2>1, <2>2, <2>3, <3>1, <3>2, <3>3
  <2>5. CASE ~Has(a, "fixed")
    <3> DEFINE x == [i \in DOMAIN a.chunk |-> a.chunk[i].float]
    <3>1. \A v : ParseFloats(v, a) = v \o x
      BY <2>5 DEF ParseFloats
    <3>2. IsSeq(a.chunk)
      BY <1>5, <2>5 DEF NoDefault
    <3>3. x = [i \in DOMAIN a.chunk |-> x[i]]
      OBVIOUS
    <3> HIDE DEF x
    <3>4. IsSeq(x)
      BY <3>2, <3>3, MapSeq
    <3>5. IsSeq(from \o x)
      BY <2>3, <3>4, ConcatSeq
    <3>6. (to \o from) \o x = to \o (from \o x)
      BY <2>3, <3>4, ConcatConcat
    <3>7. ParseValue(f, from, a) = from \o x
      BY <2>1, <3>1
    <3>8. ParseValue(f, MergeField(f, to, from), a) = (to \o from) \o x
      BY <2>1, <2>2, <3>1
    <3> DEFINE y == from \o x
    <3>9. MergeField(f, to, y) = to \o y
      BY <2>2
    <3> QED BY <2>3, <3>5, <3>6, <3>7, <3>8, <3>9
  <2> QED BY <2>4, <2>5
<1>6. CASE f.type = "map"
  <2> DEFINE k == EntryText(a.chunk, 1)
             x == EntryText(a.chunk, 2)
             Mix(u, v) == [h \in DOMAIN u \cup DOMAIN v |-> IF h \in DOMAIN v THEN v[h] ELSE u[h]]
  <2>1. \A v : ParseValue(f, v, a) = Put(v, k, x)
    BY <1>6 DEF ParseValue
  <2>2. \A v : MergeField(f, to, v) = Mix(to, v)
    BY <1>6 DEF MergeField
  <2>3. \A v : TypedValue(f, v) <=> v = [h \in DOMAIN v |-> v[h]]
    BY <1>6 DEF TypedValue
  <2> HIDE DEF k, x
  <2>4. Put(Mix(to, from), k, x) = Mix(to, Put(from, k, x))
    BY DEF Put
  <2>5. Put(from, k, x) = [h \in DOMAIN Put(from, k, x) |-> Put(from, k, x)[h]]
    BY DEF Put
  <2> HIDE DEF Mix
  <2> QED BY <2>1, <2>2, <2>3, <2>4, <2>5
<1> QED BY <1>1, <1>2, <1>3, <1>4, <1>5, <1>6 DEF ValueTypes

LEMMA TypedSet ==
    ASSUME NEW S, Numbered(S), NEW m, Typed(S, m), NEW v,
           NEW x, (x = "unknown" /\ IsSeq(v))
                  \/ \E i \in DOMAIN S : x = S[i].name /\ TypedValue(S[i], v)
    PROVE  Typed(S, SetField(m, x, v)) /\ x \in DOMAIN m /\ x \in Names(S) \cup {"unknown"}
<1> DEFINE N == Names(S) \cup {"unknown"}
           w == SetField(m, x, v)
<1>1. m = [y \in N |-> m[y]] /\ DOMAIN m = N /\ IsSeq(m.unknown)
      /\ \A i \in DOMAIN S : TypedValue(S[i], m[S[i].name])
  BY DEF Typed
<1>2. \A i \in DOMAIN S : S[i].name \in N /\ S[i].name # "unknown"
  BY DEF Names, Numbered
<1>3. x \in N
  BY <1>2
<1>4. w = [y \in N |-> IF y = x THEN v ELSE m[y]]
  BY <1>1, <1>3 DEF SetField
<1> HIDE DEF w, N
<1>5. w = [y \in N |-> w[y]] /\ w[x] = v /\ \A y \in N : y # x => w[y] = m[y]
  BY <1>3, <1>4
<1>6. IsSeq(w.unknown)
  <2>1. "unknown" \in N
    BY DEF N
  <2>2. CASE x = "unknown"
    <3>1. IsSeq(v)
      BY <1>2, <2>2
    <3> QED BY <1>5, <2>2, <3>1
  <2>3. CASE x # "unknown"
    BY <1>1, <1>5, <2>1, <2>3
  <2> QED BY <2>2, <2>3
<1>7. ASSUME NEW i \in DOMAIN S PROVE TypedValue(S[i], w[S[i].name])
  <2>1. CASE S[i].name = x
    <3>1. PICK j \in DOMAIN S : x = S[j].name /\ TypedValue(S[j], v)
      BY <1>2, <2>1
    <3>2. i = j
      BY <2>1, <3>1 DEF Numbered
    <3> QED BY <1>5, <2>1, <3>1, <3>2
  <2>2. CASE S[i].name # x
    BY <1>1, <1>2, <1>5, <2>2
  <2> QED BY <2>1, <2>2
<1> QED BY <1>1, <1>3, <1>5, <1>6, <1>7 DEF Typed, N, w

LEMMA MergeAtom ==
    ASSUME NEW S, FlatSchema(S), NEW M, Typed(S, M), NEW m, Typed(S, m),
           NEW a, \A k \in Known(S, a) : NoDefault(S[k], a)
    PROVE  /\ Typed(S, ParseAtom(S, m, a))
           /\ ParseAtom(S, MergeFrom(S, M, m), a) = MergeFrom(S, M, ParseAtom(S, m, a))
<1> DEFINE N == Names(S) \cup {"unknown"}
           W == MergeFrom(S, M, m)
           val(x, y, z) == IF x = "unknown" THEN y \o z ELSE MergeField(S[FieldNo(S, x)], y, z)
<1>1. Numbered(S) /\ M = [x \in N |-> M[x]] /\ DOMAIN M = N /\ DOMAIN m = N
      /\ m = [x \in N |-> m[x]] /\ IsSeq(M.unknown) /\ IsSeq(m.unknown)
  BY DEF FlatSchema, Typed
<1>2. \A q : MergeFrom(S, M, q) = [x \in N |-> val(x, M[x], q[x])]
  BY <1>1 DEF MergeFrom
<1>3. ASSUME NEW x \in N, NEW v, NEW w, val(x, M[x], v) = w
      PROVE  MergeFrom(S, M, SetField(m, x, v)) = SetField(W, x, w)
  <2> DEFINE q == SetField(m, x, v)
  <2>1. q[x] = v /\ \A y \in N : y # x => q[y] = m[y]
    BY <1>1 DEF SetField
  <2>2. MergeFrom(S, M, q) = [y \in N |-> val(y, M[y], q[y])] /\ W = [y \in N |-> val(y, M[y], m[y])]
    BY <1>2
  <2> HIDE DEF q, val, W, N
  <2>3. SetField(W, x, w) = [y \in N |-> IF y = x THEN w ELSE val(y, M[y], m[y])]
    BY <2>2 DEF SetField
  <2> QED BY <1>3, <2>1, <2>2, <2>3 DEF q
<1>4. CASE Known(S, a) = {}
  <2> DEFINE v == Longer(m.unknown, a)
             w == Longer(W.unknown, a)
  <2>1. ParseAtom(S, m, a) = SetField(m, "unknown", v)
    BY <1>4 DEF ParseAtom, Keep, SetField, Longer
  <2>2. ParseAtom(S, W, a) = SetField(W, "unknown", w)
    BY <1>4 DEF ParseAtom, Keep, SetField, Longer
  <2>3. W.unknown = M.unknown \o m.unknown
    BY <1>2
  <2>4. M.unknown \o v = w
    <3>1. Longer(M.unknown \o m.unknown, a) = M.unknown \o Longer(m.unknown, a)
      BY <1>1, ConcatLonger
    <3> QED BY <2>3, <3>1
  <2>5. IsSeq(v)
    BY <1>1, LongerSeq
  <2> HIDE DEF v, w, W
  <2>6. val("unknown", M["unknown"], v) = w
    BY <2>4
  <2>7. MergeFrom(S, M, SetField(m, "unknown", v)) = SetField(W, "unknown", w)
    BY <1>3, <2>6
  <2>8. Typed(S, SetField(m, "unknown", v))
    BY <1>1, <2>5, TypedSet
  <2> QED BY <2>1, <2>2, <2>7, <2>8 DEF W
<1>5. CASE Known(S, a) # {}
  <2> DEFINE f == FieldOf(S, a)
  <2>1. PICK k \in Known(S, a) : f = S[k]
    BY <1>5 DEF FieldOf
  <2>2. k \in DOMAIN S /\ Expects(f, a) /\ NoDefault(f, a) /\ f.type \in ValueTypes
    BY <2>1 DEF Known, FlatSchema, FlatFields
  <2>3. f.name # "unknown" /\ FieldNo(S, f.name) = k /\ f.name \in N
    BY <1>1, <2>1, <2>2, FieldNoIs
  <2>4. TypedValue(f, M[f.name]) /\ TypedValue(f, m[f.name])
    BY <2>1, <2>2 DEF Typed
  <2> DEFINE v == ParseValue(f, m[f.name], a)
             w == ParseValue(f, W[f.name], a)
  <2>5. \A y : ParseField(f, y, a) = ParseValue(f, y, a)
    BY <2>2 DEF ParseField, ValueTypes
  <2>6. ParseAtom(S, m, a) = SetField(m, f.name, v)
    BY <1>5, <2>5 DEF ParseAtom, SetField
  <2>7. ParseAtom(S, W, a) = SetField(W, f.name, w)
    BY <1>5, <2>5 DEF ParseAtom, SetField
  <2>8. W[f.name] = MergeField(f, M[f.name], m[f.name])
    <3> HIDE DEF f
    <3>1. W = [x \in N |-> val(x, M[x], m[x])]
      BY <1>2
    <3>2. val(f.name, M[f.name], m[f.name]) = MergeField(f, M[f.name], m[f.name])
      BY <2>1, <2>3
    <3> HIDE DEF val, W, N
    <3> QED BY <2>3, <3>1, <3>2
  <2>9. TypedValue(f, v) /\ w = MergeField(f, M[f.name], v)
    BY <2>2, <2>4, <2>8, MergeValue
  <2> HIDE DEF v, w, W, f
  <2>10. val(f.name, M[f.name], v) = w
    BY <2>1, <2>3, <2>9
  <2>11. MergeFrom(S, M, SetField(m, f.name, v)) = SetField(W, f.name, w)
    BY <1>3, <2>3, <2>10
  <2>12. Typed(S, SetField(m, f.name, v))
    BY <1>1, <2>1, <2>2, <2>9, TypedSet
  <2> QED BY <2>6, <2>7, <2>11, <2>12 DEF W
<1> QED BY <1>4, <1>5

LEMMA ClearTyped ==
    ASSUME NEW S, FlatSchema(S)
    PROVE  Typed(S, Clear(S)) /\ \A M : Typed(S, M) => MergeFrom(S, M, Clear(S)) = M
<1> DEFINE N == Names(S) \cup {"unknown"}
           C == Clear(S)
<1>1. /\ C = [x \in N |-> C[x]] /\ C["unknown"] = <<>>
      /\ \A i \in DOMAIN S : C[S[i].name] = DefaultOf(S[i].type) /\ FieldNo(S, S[i].name) = i
  <2>1. \A i \in DOMAIN S : FieldNo(S, S[i].name) = i /\ S[i].name \in Names(S) /\ S[i].name # "unknown"
    BY FieldNoIs DEF FlatSchema
  <2> QED BY <2>1 DEF Clear
<1> HIDE DEF C
<1>2. ASSUME NEW i \in DOMAIN S
      PROVE  /\ TypedValue(S[i], DefaultOf(S[i].type))
             /\ \A v : TypedValue(S[i], v) => MergeField(S[i], v, DefaultOf(S[i].type)) = v
  <2> DEFINE f == S[i]
  <2>0. f.type \in ValueTypes
    BY DEF FlatSchema, FlatFields
  <2> HIDE DEF f
  <2> SUFFICES /\ TypedValue(f, DefaultOf(f.type))
               /\ \A v : TypedValue(f, v) => MergeField(f, v, DefaultOf(f.type)) = v
    BY DEF f
  <2>1. CASE f.type \in {"int", "bool", "bytes", "string"}
    BY <2>1 DEF TypedValue, MergeField
  <2>2. CASE f.type \in {"floats", "strings"}
    <3>1. DefaultOf(f.type) = <<>>
      BY <2>2 DEF DefaultOf
    <3>2. \A v, w : MergeField(f, v, w) = v \o w
      BY <2>2 DEF MergeField
    <3>3. \A v : TypedValue(f, v) <=> IsSeq(v)
      BY <2>2 DEF TypedValue
    <3>4. ASSUME NEW v, IsSeq(v) PROVE MergeField(f, v, <<>>) = v
      <4>1. MergeField(f, v, <<>>) = v \o <<>>
        BY <3>2
      <4>2. v \o <<>> = v
        BY <3>4, ConcatNone
      <4> QED BY <4>1, <4>2
    <3>5. TypedValue(f, <<>>)
      BY <3>3, NoneSeq
    <3> DEFINE e == DefaultOf(f.type)
    <3>6. e = <<>>
      BY <3>1
    <3> HIDE DEF e
    <3>7. TypedValue(f, e)
      BY <3>5, <3>6
    <3>8. \A v : TypedValue(f, v) => MergeField(f, v, e) = v
      BY <3>3, <3>4, <3>6
    <3> QED BY <3>7, <3>8 DEF e
  <2>3. CASE f.type = "map"
    <3> DEFINE e == DefaultOf(f.type)
    <3>1. DOMAIN e = {} /\ e = [k \in DOMAIN e |-> e[k]]
      BY <2>3 DEF DefaultOf
    <3> HIDE DEF e
    <3>2. \A v : TypedValue(f, v) <=> v = [k \in DOMAIN v |-> v[k]]
      BY <2>3 DEF TypedValue
    <3>4. ASSUME NEW v, v = [k \in DOMAIN v |-> v[k]] PROVE MergeField(f, v, e) = v
      <4>1. MergeField(f, v, e) = [k \in DOMAIN v \cup DOMAIN e |-> IF k \in DOMAIN e THEN e[k] ELSE v[k]]
        BY <2>3 DEF MergeField
      <4>2. [k \in DOMAIN v \cup DOMAIN e |-> IF k \in DOMAIN e THEN e[k] ELSE v[k]]
              = [k \in DOMAIN v |-> v[k]]
        BY <3>1
      <4> QED BY <3>4, <4>1, <4>2
    <3> QED BY <3>1, <3>2, <3>4 DEF e
  <2> QED BY <2>0, <2>1, <2>2, <2>3 DEF ValueTypes
<1>3. Typed(S, C)
  <2>1. IsSeq(C.unknown)
    BY <1>1, NoneSeq
  <2>2. ASSUME NEW i \in DOMAIN S PROVE TypedValue(S[i], C[S[i].name])
    <3>1. C[S[i].name] = DefaultOf(S[i].type)
      BY <1>1
    <3>2. TypedValue(S[i], DefaultOf(S[i].type))
      BY <1>2
    <3> QED BY <3>1, <3>2
  <2> QED BY <1>1, <2>1, <2>2 DEF Typed
<1>4. ASSUME NEW M, Typed(S, M) PROVE MergeFrom(S, M, C) = M
  <2>1. M = [x \in N |-> M[x]] /\ DOMAIN M = N /\ IsSeq(M.unknown)
        /\ \A i \in DOMAIN S : TypedValue(S[i], M[S[i].name])
    BY <1>4 DEF Typed
  <2> DEFINE val(x) == IF x = "unknown" THEN M.unknown \o C.unknown
                       ELSE MergeField(S[FieldNo(S, x)], M[x], C[x])
  <2>2. MergeFrom(S, M, C) = [x \in N |-> val(x)]
    BY <2>1 DEF MergeFrom
  <2>3. ASSUME NEW x \in N PROVE val(x) = M[x]
    <3>1. CASE x = "unknown"
      <4>1. M.unknown \o <<>> = M.unknown
        BY <2>1, ConcatNone
      <4> QED BY <1>1, <3>1, <4>1
    <3>2. CASE x # "unknown"
      <4>1. PICK i \in DOMAIN S : x = S[i].name
        BY <3>2 DEF Names
      <4>2. MergeField(S[i], M[x], DefaultOf(S[i].type)) = M[x]
        BY <1>2, <2>1, <4>1
      <4> QED BY <1>1, <3>2, <4>1, <4>2
    <3> QED BY <3>1, <3>2
  <2> HIDE DEF val
  <2> QED BY <2>1, <2>2, <2>3
<1> QED BY <1>3, <1>4 DEF C

\* Parsing b into M is merging what b alone holds into M.
LEMMA ParseMerges ==
    ASSUME NEW S, FlatSchema(S), NEW M, Typed(S, M), NEW b, IsSeq(b), NoDefaults(S, b)
    PROVE  /\ Typed(S, ParseInto(S, Clear(S), b))
           /\ ParseInto(S, M, b) = MergeFrom(S, M, ParseInto(S, Clear(S), b))
<1> DEFINE C == Clear(S)
           Hyp(x) == IsSeq(x) /\ NoDefaults(S, x)
           Good(x) == /\ Typed(S, ParseInto(S, C, x))
                      /\ ParseInto(S, M, x) = MergeFrom(S, M, ParseInto(S, C, x))
           T == {n \in Nat : \A x : Hyp(x) /\ Len(x) = n => Good(x)}
<1>0. Typed(S, C) /\ MergeFrom(S, M, C) = M
  BY ClearTyped
<1> HIDE DEF C
<1>1. 0 \in T
  <2> SUFFICES ASSUME NEW x, Hyp(x), Len(x) = 0 PROVE Good(x)
    OBVIOUS
  <2>1. x = <<>>
    BY NoLength
  <2>2. ParseInto(S, C, x) = C /\ ParseInto(S, M, x) = M
    BY <2>1, ParseNone
  <2> QED BY <1>0, <2>2
<1>2. ASSUME NEW n \in Nat, n \in T PROVE n + 1 \in T
  <2> SUFFICES ASSUME NEW x, Hyp(x), Len(x) = n + 1 PROVE Good(x)
    OBVIOUS
  <2>1. PICK d, a : Ends(x, d, a) /\ Len(d) = n
    BY LastSplit
  <2>2. /\ IsSeq(d) /\ x[n+1] = a /\ (\A i \in 1..n : x[i] = d[i])
        /\ DOMAIN x = 1..(n+1) /\ DOMAIN d = 1..n
    BY <2>1, EndsAt
  <2>3. NoDefaults(S, d) /\ \A k \in Known(S, a) : NoDefault(S[k], a)
    <3>1. \A i \in DOMAIN x : \A k \in Known(S, x[i]) : NoDefault(S[k], x[i])
      BY DEF NoDefaults
    <3>2. n + 1 \in DOMAIN x /\ \A i \in DOMAIN d : i \in DOMAIN x /\ x[i] = d[i]
      BY <2>2
    <3> QED BY <2>2, <3>1, <3>2 DEF NoDefaults
  <2>4. Good(d)
    BY <1>2, <2>1, <2>2, <2>3
  <2> DEFINE m == ParseInto(S, C, d)
  <2>5. ParseInto(S, C, x) = ParseAtom(S, m, a)
    BY <2>1, ParseMore
  <2>6. ParseInto(S, M, x) = ParseAtom(S, ParseInto(S, M, d), a)
    BY <2>1, ParseMore
  <2>7. Typed(S, m) /\ ParseInto(S, M, d) = MergeFrom(S, M, m)
    BY <2>4
  <2> HIDE DEF m
  <2>8. /\ Typed(S, ParseAtom(S, m, a))
        /\ ParseAtom(S, MergeFrom(S, M, m), a) = MergeFrom(S, M, ParseAtom(S, m, a))
    BY <2>3, <2>7, MergeAtom
  <2> QED BY <2>5, <2>6, <2>7, <2>8
<1> HIDE DEF T
<1>3. Len(b) \in T
  BY <1>1, <1>2, Induct, SeqFacts
<1> QED BY <1>3 DEF T, C

\* Parsing one value after a whole other one, which an Append leaves, merges the
\* two messages; it fails exactly if one of them cannot be read, for the second
\* also if it ends inside a field.
THEOREM ParseBoth ==
    ASSUME NEW S, FlatSchema(S), NEW b, FromSerializer(S, b), Whole(b),
           NEW c, FromSerializer(S, c)
    PROVE  Parse(S, b \o c) = IF Parse(S, b) = Failed \/ Parse(S, c) = Failed THEN Failed
                              ELSE MergeFrom(S, Parse(S, b), Parse(S, c))
<1> DEFINE C == Clear(S)
           M == ParseInto(S, C, b)
           m == ParseInto(S, C, c)
<1>0. IsSeq(b) /\ NoDefaults(S, b) /\ IsSeq(c) /\ NoDefaults(S, c)
  BY DEF FromSerializer, IsBytes
<1>1. Typed(S, C)
  BY ClearTyped
<1>2. Typed(S, M) /\ Typed(S, m)
  BY <1>0, <1>1, ParseMerges
<1>3. M # Failed /\ m # Failed
  <2>1. DOMAIN Failed = {"failed"} /\ "unknown" \in DOMAIN M /\ "unknown" \in DOMAIN m
    BY <1>2 DEF Failed, Typed
  <2> QED BY <2>1
<1>4. ParseInto(S, C, b \o c) = ParseInto(S, M, c)
  BY <1>0, ParseConcat
<1>5. ParseInto(S, M, c) = MergeFrom(S, M, m)
  BY <1>0, <1>2, ParseMerges
<1>6. Readable(S, b \o c) <=> Readable(S, b) /\ Readable(S, c)
  <2>1. Range(b \o c) = Range(b) \cup Range(c)
    BY <1>0, RangeConcat
  <2>2. Clean(S, b \o c) <=> Clean(S, b) /\ Clean(S, c)
    BY <2>1 DEF Clean
  <2> QED BY <2>2, CleanReadable
<1>7. /\ Parse(S, b) = IF Readable(S, b) THEN M ELSE Failed
      /\ Parse(S, c) = IF Readable(S, c) THEN m ELSE Failed
      /\ Parse(S, b \o c) = IF Readable(S, b \o c) THEN ParseInto(S, C, b \o c) ELSE Failed
  BY DEF Parse
<1> HIDE DEF M, m, C
<1> QED BY <1>3, <1>4, <1>5, <1>6, <1>7

\* What can be read is whole, and is read in one way only.
LEMMA ReadOnce ==
    ASSUME NEW S, NEW b, CutLast(b) \/ Parse(S, b) # Failed,
           NEW mixed, NEW f \in ParseResults(S, b, mixed)
    PROVE  f = Parse(S, b)
<1>1. Parse(S, b) # Failed => CutLast(b)
  BY DEF Parse, Readable, CutLast
<1> QED BY <1>1 DEF ParseResults

\* Behind a whole value another one ends as it did alone.
LEMMA CutBehind ==
    ASSUME NEW b, IsSeq(b), Whole(b), NEW c, IsSeq(c), CutLast(c)
    PROVE  CutLast(b \o c)
<1> DEFINE x == b \o c
<1>1. /\ Len(b) \in Nat /\ Len(c) \in Nat /\ DOMAIN b = 1..Len(b) /\ DOMAIN c = 1..Len(c)
  BY SeqFacts
<1>2. /\ IsSeq(x) /\ Len(x) = Len(b) + Len(c)
      /\ \A i \in 1..Len(b) : x[i] = b[i]
      /\ \A i \in 1..Len(c) : x[Len(b) + i] = c[i]
  BY ConcatSeq
<1> HIDE DEF x
<1>0. DOMAIN x = 1..Len(x)
  BY <1>2, SeqFacts
<1> SUFFICES ASSUME NEW i \in DOMAIN x, Has(x[i], "torn") PROVE i = Len(x)
  BY DEF CutLast, x
<1>3. CASE i \in 1..Len(b)
  BY <1>0, <1>1, <1>2, <1>3 DEF Whole
<1>4. CASE i \notin 1..Len(b)
  <2> DEFINE j == i - Len(b)
  <2>1. j \in 1..Len(c) /\ x[i] = c[j]
    <3>1. j \in 1..Len(c) /\ i = Len(b) + j
      BY <1>0, <1>1, <1>2, <1>4
    <3> QED BY <1>2, <3>1
  <2>2. j = Len(c)
    BY <1>1, <2>1 DEF CutLast
  <2> QED BY <1>1, <1>2, <2>2
<1> QED BY <1>3, <1>4

-----------------------------------------------------------------------------
(* The schemas of the repository *)

LEMMA SchemaIntro ==
    ASSUME NEW S, NEW n \in Nat, S = [i \in 1..n |-> S[i]],
           \A i \in 1..n : S[i].num = i /\ S[i].name # "unknown" /\ S[i].type \in ValueTypes,
           \A i, j \in 1..n : S[i].name = S[j].name => i = j
    PROVE  FlatSchema(S) /\ DOMAIN S = 1..n
<1>1. IsSeq(S) /\ DOMAIN S = 1..n
  BY SeqIntro
<1> QED BY <1>1 DEF FlatSchema, FlatFields, Numbered

LEMMA FlatIsSchema == ASSUME NEW S, FlatSchema(S) PROVE Schema(S)
BY DEF FlatSchema, FlatFields, Schema, FieldTypes

LEMMA LogEntrySchema ==
    /\ FlatSchema(LogEntry) /\ DOMAIN LogEntry = 1..3
    /\ LogEntry[1].name = "command" /\ LogEntry[1].type = "bytes"
    /\ LogEntry[2].name = "logterm" /\ LogEntry[2].type = "int"
    /\ LogEntry[3].name = "logindex" /\ LogEntry[3].type = "int"
<1> DEFINE S == LogEntry
<1>1. /\ S = [i \in 1..3 |-> S[i]]
      /\ S[1].num = 1 /\ S[1].name = "command" /\ S[1].type = "bytes"
      /\ S[2].num = 2 /\ S[2].name = "logterm" /\ S[2].type = "int"
      /\ S[3].num = 3 /\ S[3].name = "logindex" /\ S[3].type = "int"
  BY DEF LogEntry, F
<1> HIDE DEF S
<1>2. 1..3 = {1, 2, 3}
  OBVIOUS
<1>3. \A i \in 1..3 : S[i].num = i /\ S[i].name # "unknown" /\ S[i].type \in ValueTypes
  BY <1>1, <1>2 DEF ValueTypes
<1>4. \A i, j \in 1..3 : S[i].name = S[j].name => i = j
  BY <1>1, <1>2
<1>5. S = [i \in 1..3 |-> S[i]]
  BY <1>1
<1>6. FlatSchema(S) /\ DOMAIN S = 1..3
  BY <1>3, <1>4, <1>5, SchemaIntro
<1> QED BY <1>1, <1>6 DEF S

LEMMA AppendEntriesReplySchema ==
    /\ FlatSchema(AppendEntriesReply) /\ DOMAIN AppendEntriesReply = 1..6
    /\ AppendEntriesReply[1].name = "term" /\ AppendEntriesReply[1].type = "int"
    /\ AppendEntriesReply[2].name = "success" /\ AppendEntriesReply[2].type = "bool"
    /\ AppendEntriesReply[3].name = "updatenextindex" /\ AppendEntriesReply[3].type = "int"
    /\ AppendEntriesReply[4].name = "appstate" /\ AppendEntriesReply[4].type = "int"
    /\ AppendEntriesReply[5].name = "batchid" /\ AppendEntriesReply[5].type = "int"
    /\ AppendEntriesReply[6].name = "matchindex" /\ AppendEntriesReply[6].type = "int"
<1> DEFINE S == AppendEntriesReply
<1>1. /\ S = [i \in 1..6 |-> S[i]]
      /\ S[1].num = 1 /\ S[1].name = "term" /\ S[1].type = "int"
      /\ S[2].num = 2 /\ S[2].name = "success" /\ S[2].type = "bool"
      /\ S[3].num = 3 /\ S[3].name = "updatenextindex" /\ S[3].type = "int"
      /\ S[4].num = 4 /\ S[4].name = "appstate" /\ S[4].type = "int"
      /\ S[5].num = 5 /\ S[5].name = "batchid" /\ S[5].type = "int"
      /\ S[6].num = 6 /\ S[6].name = "matchindex" /\ S[6].type = "int"
  BY DEF AppendEntriesReply, F
<1> HIDE DEF S
<1>2. 1..6 = {1, 2, 3, 4, 5, 6}
  OBVIOUS
<1>3. \A i \in 1..6 : S[i].num = i /\ S[i].name # "unknown" /\ S[i].type \in ValueTypes
  BY <1>1, <1>2 DEF ValueTypes
<1>4. \A i, j \in 1..6 : S[i].name = S[j].name => i = j
  BY <1>1, <1>2
<1>5. S = [i \in 1..6 |-> S[i]]
  BY <1>1
<1>6. FlatSchema(S) /\ DOMAIN S = 1..6
  BY <1>3, <1>4, <1>5, SchemaIntro
<1> QED BY <1>1, <1>6 DEF S

LEMMA RequestVoteArgsSchema ==
    /\ FlatSchema(RequestVoteArgs) /\ DOMAIN RequestVoteArgs = 1..4
    /\ RequestVoteArgs[1].name = "term" /\ RequestVoteArgs[1].type = "int"
    /\ RequestVoteArgs[2].name = "candidateid" /\ RequestVoteArgs[2].type = "int"
    /\ RequestVoteArgs[3].name = "lastlogindex" /\ RequestVoteArgs[3].type = "int"
    /\ RequestVoteArgs[4].name = "lastlogterm" /\ RequestVoteArgs[4].type = "int"
<1> DEFINE S == RequestVoteArgs
<1>1. /\ S = [i \in 1..4 |-> S[i]]
      /\ S[1].num = 1 /\ S[1].name = "term" /\ S[1].type = "int"
      /\ S[2].num = 2 /\ S[2].name = "candidateid" /\ S[2].type = "int"
      /\ S[3].num = 3 /\ S[3].name = "lastlogindex" /\ S[3].type = "int"
      /\ S[4].num = 4 /\ S[4].name = "lastlogterm" /\ S[4].type = "int"
  BY DEF RequestVoteArgs, F
<1> HIDE DEF S
<1>2. 1..4 = {1, 2, 3, 4}
  OBVIOUS
<1>3. \A i \in 1..4 : S[i].num = i /\ S[i].name # "unknown" /\ S[i].type \in ValueTypes
  BY <1>1, <1>2 DEF ValueTypes
<1>4. \A i, j \in 1..4 : S[i].name = S[j].name => i = j
  BY <1>1, <1>2
<1>5. S = [i \in 1..4 |-> S[i]]
  BY <1>1
<1>6. FlatSchema(S) /\ DOMAIN S = 1..4
  BY <1>3, <1>4, <1>5, SchemaIntro
<1> QED BY <1>1, <1>6 DEF S

LEMMA RequestVoteReplySchema ==
    /\ FlatSchema(RequestVoteReply) /\ DOMAIN RequestVoteReply = 1..3
    /\ RequestVoteReply[1].name = "term" /\ RequestVoteReply[1].type = "int"
    /\ RequestVoteReply[2].name = "votegranted" /\ RequestVoteReply[2].type = "bool"
    /\ RequestVoteReply[3].name = "votestate" /\ RequestVoteReply[3].type = "int"
<1> DEFINE S == RequestVoteReply
<1>1. /\ S = [i \in 1..3 |-> S[i]]
      /\ S[1].num = 1 /\ S[1].name = "term" /\ S[1].type = "int"
      /\ S[2].num = 2 /\ S[2].name = "votegranted" /\ S[2].type = "bool"
      /\ S[3].num = 3 /\ S[3].name = "votestate" /\ S[3].type = "int"
  BY DEF RequestVoteReply, F
<1> HIDE DEF S
<1>2. 1..3 = {1, 2, 3}
  OBVIOUS
<1>3. \A i \in 1..3 : S[i].num = i /\ S[i].name # "unknown" /\ S[i].type \in ValueTypes
  BY <1>1, <1>2 DEF ValueTypes
<1>4. \A i, j \in 1..3 : S[i].name = S[j].name => i = j
  BY <1>1, <1>2
<1>5. S = [i \in 1..3 |-> S[i]]
  BY <1>1
<1>6. FlatSchema(S) /\ DOMAIN S = 1..3
  BY <1>3, <1>4, <1>5, SchemaIntro
<1> QED BY <1>1, <1>6 DEF S

LEMMA PreRequestVoteArgsSchema ==
    /\ FlatSchema(PreRequestVoteArgs) /\ DOMAIN PreRequestVoteArgs = 1..4
    /\ PreRequestVoteArgs[1].name = "term" /\ PreRequestVoteArgs[1].type = "int"
    /\ PreRequestVoteArgs[2].name = "candidateid" /\ PreRequestVoteArgs[2].type = "int"
    /\ PreRequestVoteArgs[3].name = "lastlogindex" /\ PreRequestVoteArgs[3].type = "int"
    /\ PreRequestVoteArgs[4].name = "lastlogterm" /\ PreRequestVoteArgs[4].type = "int"
<1> DEFINE S == PreRequestVoteArgs
<1>1. /\ S = [i \in 1..4 |-> S[i]]
      /\ S[1].num = 1 /\ S[1].name = "term" /\ S[1].type = "int"
      /\ S[2].num = 2 /\ S[2].name = "candidateid" /\ S[2].type = "int"
      /\ S[3].num = 3 /\ S[3].name = "lastlogindex" /\ S[3].type = "int"
      /\ S[4].num = 4 /\ S[4].name = "lastlogterm" /\ S[4].type = "int"
  BY DEF PreRequestVoteArgs, F
<1> HIDE DEF S
<1>2. 1..4 = {1, 2, 3, 4}
  OBVIOUS
<1>3. \A i \in 1..4 : S[i].num = i /\ S[i].name # "unknown" /\ S[i].type \in ValueTypes
  BY <1>1, <1>2 DEF ValueTypes
<1>4. \A i, j \in 1..4 : S[i].name = S[j].name => i = j
  BY <1>1, <1>2
<1>5. S = [i \in 1..4 |-> S[i]]
  BY <1>1
<1>6. FlatSchema(S) /\ DOMAIN S = 1..4
  BY <1>3, <1>4, <1>5, SchemaIntro
<1> QED BY <1>1, <1>6 DEF S

LEMMA PreRequestVoteReplySchema ==
    /\ FlatSchema(PreRequestVoteReply) /\ DOMAIN PreRequestVoteReply = 1..2
    /\ PreRequestVoteReply[1].name = "term" /\ PreRequestVoteReply[1].type = "int"
    /\ PreRequestVoteReply[2].name = "votegranted" /\ PreRequestVoteReply[2].type = "bool"
<1> DEFINE S == PreRequestVoteReply
<1>1. /\ S = [i \in 1..2 |-> S[i]]
      /\ S[1].num = 1 /\ S[1].name = "term" /\ S[1].type = "int"
      /\ S[2].num = 2 /\ S[2].name = "votegranted" /\ S[2].type = "bool"
  BY DEF PreRequestVoteReply, F
<1> HIDE DEF S
<1>2. 1..2 = {1, 2}
  OBVIOUS
<1>3. \A i \in 1..2 : S[i].num = i /\ S[i].name # "unknown" /\ S[i].type \in ValueTypes
  BY <1>1, <1>2 DEF ValueTypes
<1>4. \A i, j \in 1..2 : S[i].name = S[j].name => i = j
  BY <1>1, <1>2
<1>5. S = [i \in 1..2 |-> S[i]]
  BY <1>1
<1>6. FlatSchema(S) /\ DOMAIN S = 1..2
  BY <1>3, <1>4, <1>5, SchemaIntro
<1> QED BY <1>1, <1>6 DEF S

LEMMA InstallSnapshotRequestSchema ==
    /\ FlatSchema(InstallSnapshotRequest) /\ DOMAIN InstallSnapshotRequest = 1..5
    /\ InstallSnapshotRequest[1].name = "leaderid" /\ InstallSnapshotRequest[1].type = "int"
    /\ InstallSnapshotRequest[2].name = "term" /\ InstallSnapshotRequest[2].type = "int"
    /\ InstallSnapshotRequest[3].name = "lastsnapshotincludeindex" /\ InstallSnapshotRequest[3].type = "int"
    /\ InstallSnapshotRequest[4].name = "lastsnapshotincludeterm" /\ InstallSnapshotRequest[4].type = "int"
    /\ InstallSnapshotRequest[5].name = "snapshotdata" /\ InstallSnapshotRequest[5].type = "bytes"
<1> DEFINE S == InstallSnapshotRequest
<1>1. /\ S = [i \in 1..5 |-> S[i]]
      /\ S[1].num = 1 /\ S[1].name = "leaderid" /\ S[1].type = "int"
      /\ S[2].num = 2 /\ S[2].name = "term" /\ S[2].type = "int"
      /\ S[3].num = 3 /\ S[3].name = "lastsnapshotincludeindex" /\ S[3].type = "int"
      /\ S[4].num = 4 /\ S[4].name = "lastsnapshotincludeterm" /\ S[4].type = "int"
      /\ S[5].num = 5 /\ S[5].name = "snapshotdata" /\ S[5].type = "bytes"
  BY DEF InstallSnapshotRequest, F
<1> HIDE DEF S
<1>2. 1..5 = {1, 2, 3, 4, 5}
  OBVIOUS
<1>3. \A i \in 1..5 : S[i].num = i /\ S[i].name # "unknown" /\ S[i].type \in ValueTypes
  BY <1>1, <1>2 DEF ValueTypes
<1>4. \A i, j \in 1..5 : S[i].name = S[j].name => i = j
  BY <1>1, <1>2
<1>5. S = [i \in 1..5 |-> S[i]]
  BY <1>1
<1>6. FlatSchema(S) /\ DOMAIN S = 1..5
  BY <1>3, <1>4, <1>5, SchemaIntro
<1> QED BY <1>1, <1>6 DEF S

LEMMA InstallSnapshotResponseSchema ==
    /\ FlatSchema(InstallSnapshotResponse) /\ DOMAIN InstallSnapshotResponse = 1..1
    /\ InstallSnapshotResponse[1].name = "term" /\ InstallSnapshotResponse[1].type = "int"
<1> DEFINE S == InstallSnapshotResponse
<1>1. /\ S = [i \in 1..1 |-> S[i]]
      /\ S[1].num = 1 /\ S[1].name = "term" /\ S[1].type = "int"
  BY DEF InstallSnapshotResponse, F
<1> HIDE DEF S
<1>2. 1..1 = {1}
  OBVIOUS
<1>3. \A i \in 1..1 : S[i].num = i /\ S[i].name # "unknown" /\ S[i].type \in ValueTypes
  BY <1>1, <1>2 DEF ValueTypes
<1>4. \A i, j \in 1..1 : S[i].name = S[j].name => i = j
  BY <1>1, <1>2
<1>5. S = [i \in 1..1 |-> S[i]]
  BY <1>1
<1>6. FlatSchema(S) /\ DOMAIN S = 1..1
  BY <1>3, <1>4, <1>5, SchemaIntro
<1> QED BY <1>1, <1>6 DEF S

LEMMA ReadIndexRequestSchema ==
    /\ FlatSchema(ReadIndexRequest) /\ DOMAIN ReadIndexRequest = 1..1
    /\ ReadIndexRequest[1].name = "serverid" /\ ReadIndexRequest[1].type = "int"
<1> DEFINE S == ReadIndexRequest
<1>1. /\ S = [i \in 1..1 |-> S[i]]
      /\ S[1].num = 1 /\ S[1].name = "serverid" /\ S[1].type = "int"
  BY DEF ReadIndexRequest, F
<1> HIDE DEF S
<1>2. 1..1 = {1}
  OBVIOUS
<1>3. \A i \in 1..1 : S[i].num = i /\ S[i].name # "unknown" /\ S[i].type \in ValueTypes
  BY <1>1, <1>2 DEF ValueTypes
<1>4. \A i, j \in 1..1 : S[i].name = S[j].name => i = j
  BY <1>1, <1>2
<1>5. S = [i \in 1..1 |-> S[i]]
  BY <1>1
<1>6. FlatSchema(S) /\ DOMAIN S = 1..1
  BY <1>3, <1>4, <1>5, SchemaIntro
<1> QED BY <1>1, <1>6 DEF S

LEMMA ReadIndexResponseSchema ==
    /\ FlatSchema(ReadIndexResponse) /\ DOMAIN ReadIndexResponse = 1..3
    /\ ReadIndexResponse[1].name = "term" /\ ReadIndexResponse[1].type = "int"
    /\ ReadIndexResponse[2].name = "commitindex" /\ ReadIndexResponse[2].type = "int"
    /\ ReadIndexResponse[3].name = "isleader" /\ ReadIndexResponse[3].type = "bool"
<1> DEFINE S == ReadIndexResponse
<1>1. /\ S = [i \in 1..3 |-> S[i]]
      /\ S[1].num = 1 /\ S[1].name = "term" /\ S[1].type = "int"
      /\ S[2].num = 2 /\ S[2].name = "commitindex" /\ S[2].type = "int"
      /\ S[3].num = 3 /\ S[3].name = "isleader" /\ S[3].type = "bool"
  BY DEF ReadIndexResponse, F
<1> HIDE DEF S
<1>2. 1..3 = {1, 2, 3}
  OBVIOUS
<1>3. \A i \in 1..3 : S[i].num = i /\ S[i].name # "unknown" /\ S[i].type \in ValueTypes
  BY <1>1, <1>2 DEF ValueTypes
<1>4. \A i, j \in 1..3 : S[i].name = S[j].name => i = j
  BY <1>1, <1>2
<1>5. S = [i \in 1..3 |-> S[i]]
  BY <1>1
<1>6. FlatSchema(S) /\ DOMAIN S = 1..3
  BY <1>3, <1>4, <1>5, SchemaIntro
<1> QED BY <1>1, <1>6 DEF S

LEMMA GetArgsSchema ==
    /\ FlatSchema(GetArgs) /\ DOMAIN GetArgs = 1..3
    /\ GetArgs[1].name = "key" /\ GetArgs[1].type = "bytes"
    /\ GetArgs[2].name = "clientid" /\ GetArgs[2].type = "bytes"
    /\ GetArgs[3].name = "requestid" /\ GetArgs[3].type = "int"
<1> DEFINE S == GetArgs
<1>1. /\ S = [i \in 1..3 |-> S[i]]
      /\ S[1].num = 1 /\ S[1].name = "key" /\ S[1].type = "bytes"
      /\ S[2].num = 2 /\ S[2].name = "clientid" /\ S[2].type = "bytes"
      /\ S[3].num = 3 /\ S[3].name = "requestid" /\ S[3].type = "int"
  BY DEF GetArgs, F
<1> HIDE DEF S
<1>2. 1..3 = {1, 2, 3}
  OBVIOUS
<1>3. \A i \in 1..3 : S[i].num = i /\ S[i].name # "unknown" /\ S[i].type \in ValueTypes
  BY <1>1, <1>2 DEF ValueTypes
<1>4. \A i, j \in 1..3 : S[i].name = S[j].name => i = j
  BY <1>1, <1>2
<1>5. S = [i \in 1..3 |-> S[i]]
  BY <1>1
<1>6. FlatSchema(S) /\ DOMAIN S = 1..3
  BY <1>3, <1>4, <1>5, SchemaIntro
<1> QED BY <1>1, <1>6 DEF S

LEMMA GetReplySchema ==
    /\ FlatSchema(GetReply) /\ DOMAIN GetReply = 1..2
    /\ GetReply[1].name = "err" /\ GetReply[1].type = "bytes"
    /\ GetReply[2].name = "value" /\ GetReply[2].type = "bytes"
<1> DEFINE S == GetReply
<1>1. /\ S = [i \in 1..2 |-> S[i]]
      /\ S[1].num = 1 /\ S[1].name = "err" /\ S[1].type = "bytes"
      /\ S[2].num = 2 /\ S[2].name = "value" /\ S[2].type = "bytes"
  BY DEF GetReply, F
<1> HIDE DEF S
<1>2. 1..2 = {1, 2}
  OBVIOUS
<1>3. \A i \in 1..2 : S[i].num = i /\ S[i].name # "unknown" /\ S[i].type \in ValueTypes
  BY <1>1, <1>2 DEF ValueTypes
<1>4. \A i, j \in 1..2 : S[i].name = S[j].name => i = j
  BY <1>1, <1>2
<1>5. S = [i \in 1..2 |-> S[i]]
  BY <1>1
<1>6. FlatSchema(S) /\ DOMAIN S = 1..2
  BY <1>3, <1>4, <1>5, SchemaIntro
<1> QED BY <1>1, <1>6 DEF S

LEMMA PutAppendArgsSchema ==
    /\ FlatSchema(PutAppendArgs) /\ DOMAIN PutAppendArgs = 1..5
    /\ PutAppendArgs[1].name = "key" /\ PutAppendArgs[1].type = "bytes"
    /\ PutAppendArgs[2].name = "value" /\ PutAppendArgs[2].type = "bytes"
    /\ PutAppendArgs[3].name = "op" /\ PutAppendArgs[3].type = "bytes"
    /\ PutAppendArgs[4].name = "clientid" /\ PutAppendArgs[4].type = "bytes"
    /\ PutAppendArgs[5].name = "requestid" /\ PutAppendArgs[5].type = "int"
<1> DEFINE S == PutAppendArgs
<1>1. /\ S = [i \in 1..5 |-> S[i]]
      /\ S[1].num = 1 /\ S[1].name = "key" /\ S[1].type = "bytes"
      /\ S[2].num = 2 /\ S[2].name = "value" /\ S[2].type = "bytes"
      /\ S[3].num = 3 /\ S[3].name = "op" /\ S[3].type = "bytes"
      /\ S[4].num = 4 /\ S[4].name = "clientid" /\ S[4].type = "bytes"
      /\ S[5].num = 5 /\ S[5].name = "requestid" /\ S[5].type = "int"
  BY DEF PutAppendArgs, F
<1> HIDE DEF S
<1>2. 1..5 = {1, 2, 3, 4, 5}
  OBVIOUS
<1>3. \A i \in 1..5 : S[i].num = i /\ S[i].name # "unknown" /\ S[i].type \in ValueTypes
  BY <1>1, <1>2 DEF ValueTypes
<1>4. \A i, j \in 1..5 : S[i].name = S[j].name => i = j
  BY <1>1, <1>2
<1>5. S = [i \in 1..5 |-> S[i]]
  BY <1>1
<1>6. FlatSchema(S) /\ DOMAIN S = 1..5
  BY <1>3, <1>4, <1>5, SchemaIntro
<1> QED BY <1>1, <1>6 DEF S

LEMMA PutAppendReplySchema ==
    /\ FlatSchema(PutAppendReply) /\ DOMAIN PutAppendReply = 1..1
    /\ PutAppendReply[1].name = "err" /\ PutAppendReply[1].type = "bytes"
<1> DEFINE S == PutAppendReply
<1>1. /\ S = [i \in 1..1 |-> S[i]]
      /\ S[1].num = 1 /\ S[1].name = "err" /\ S[1].type = "bytes"
  BY DEF PutAppendReply, F
<1> HIDE DEF S
<1>2. 1..1 = {1}
  OBVIOUS
<1>3. \A i \in 1..1 : S[i].num = i /\ S[i].name # "unknown" /\ S[i].type \in ValueTypes
  BY <1>1, <1>2 DEF ValueTypes
<1>4. \A i, j \in 1..1 : S[i].name = S[j].name => i = j
  BY <1>1, <1>2
<1>5. S = [i \in 1..1 |-> S[i]]
  BY <1>1
<1>6. FlatSchema(S) /\ DOMAIN S = 1..1
  BY <1>3, <1>4, <1>5, SchemaIntro
<1> QED BY <1>1, <1>6 DEF S

LEMMA ItemFeatureSchema ==
    /\ FlatSchema(ItemFeature) /\ DOMAIN ItemFeature = 1..4
    /\ ItemFeature[1].name = "item_id" /\ ItemFeature[1].type = "string"
    /\ ItemFeature[2].name = "embedding" /\ ItemFeature[2].type = "floats"
    /\ ItemFeature[3].name = "attrs" /\ ItemFeature[3].type = "map"
    /\ ItemFeature[4].name = "timestamp" /\ ItemFeature[4].type = "int"
<1> DEFINE S == ItemFeature
<1>1. /\ S = [i \in 1..4 |-> S[i]]
      /\ S[1].num = 1 /\ S[1].name = "item_id" /\ S[1].type = "string"
      /\ S[2].num = 2 /\ S[2].name = "embedding" /\ S[2].type = "floats"
      /\ S[3].num = 3 /\ S[3].name = "attrs" /\ S[3].type = "map"
      /\ S[4].num = 4 /\ S[4].name = "timestamp" /\ S[4].type = "int"
  BY DEF ItemFeature, F
<1> HIDE DEF S
<1>2. 1..4 = {1, 2, 3, 4}
  OBVIOUS
<1>3. \A i \in 1..4 : S[i].num = i /\ S[i].name # "unknown" /\ S[i].type \in ValueTypes
  BY <1>1, <1>2 DEF ValueTypes
<1>4. \A i, j \in 1..4 : S[i].name = S[j].name => i = j
  BY <1>1, <1>2
<1>5. S = [i \in 1..4 |-> S[i]]
  BY <1>1
<1>6. FlatSchema(S) /\ DOMAIN S = 1..4
  BY <1>3, <1>4, <1>5, SchemaIntro
<1> QED BY <1>1, <1>6 DEF S

LEMMA PutFeatureReplySchema ==
    /\ FlatSchema(PutFeatureReply) /\ DOMAIN PutFeatureReply = 1..1
    /\ PutFeatureReply[1].name = "err" /\ PutFeatureReply[1].type = "bytes"
<1> DEFINE S == PutFeatureReply
<1>1. /\ S = [i \in 1..1 |-> S[i]]
      /\ S[1].num = 1 /\ S[1].name = "err" /\ S[1].type = "bytes"
  BY DEF PutFeatureReply, F
<1> HIDE DEF S
<1>2. 1..1 = {1}
  OBVIOUS
<1>3. \A i \in 1..1 : S[i].num = i /\ S[i].name # "unknown" /\ S[i].type \in ValueTypes
  BY <1>1, <1>2 DEF ValueTypes
<1>4. \A i, j \in 1..1 : S[i].name = S[j].name => i = j
  BY <1>1, <1>2
<1>5. S = [i \in 1..1 |-> S[i]]
  BY <1>1
<1>6. FlatSchema(S) /\ DOMAIN S = 1..1
  BY <1>3, <1>4, <1>5, SchemaIntro
<1> QED BY <1>1, <1>6 DEF S

LEMMA SearchRequestSchema ==
    /\ FlatSchema(SearchRequest) /\ DOMAIN SearchRequest = 1..3
    /\ SearchRequest[1].name = "query_vector" /\ SearchRequest[1].type = "floats"
    /\ SearchRequest[2].name = "top_k" /\ SearchRequest[2].type = "int"
    /\ SearchRequest[3].name = "search_type" /\ SearchRequest[3].type = "string"
<1> DEFINE S == SearchRequest
<1>1. /\ S = [i \in 1..3 |-> S[i]]
      /\ S[1].num = 1 /\ S[1].name = "query_vector" /\ S[1].type = "floats"
      /\ S[2].num = 2 /\ S[2].name = "top_k" /\ S[2].type = "int"
      /\ S[3].num = 3 /\ S[3].name = "search_type" /\ S[3].type = "string"
  BY DEF SearchRequest, F
<1> HIDE DEF S
<1>2. 1..3 = {1, 2, 3}
  OBVIOUS
<1>3. \A i \in 1..3 : S[i].num = i /\ S[i].name # "unknown" /\ S[i].type \in ValueTypes
  BY <1>1, <1>2 DEF ValueTypes
<1>4. \A i, j \in 1..3 : S[i].name = S[j].name => i = j
  BY <1>1, <1>2
<1>5. S = [i \in 1..3 |-> S[i]]
  BY <1>1
<1>6. FlatSchema(S) /\ DOMAIN S = 1..3
  BY <1>3, <1>4, <1>5, SchemaIntro
<1> QED BY <1>1, <1>6 DEF S

LEMMA SearchResponseSchema ==
    /\ FlatSchema(SearchResponse) /\ DOMAIN SearchResponse = 1..3
    /\ SearchResponse[1].name = "item_ids" /\ SearchResponse[1].type = "strings"
    /\ SearchResponse[2].name = "scores" /\ SearchResponse[2].type = "floats"
    /\ SearchResponse[3].name = "search_time_us" /\ SearchResponse[3].type = "int"
<1> DEFINE S == SearchResponse
<1>1. /\ S = [i \in 1..3 |-> S[i]]
      /\ S[1].num = 1 /\ S[1].name = "item_ids" /\ S[1].type = "strings"
      /\ S[2].num = 2 /\ S[2].name = "scores" /\ S[2].type = "floats"
      /\ S[3].num = 3 /\ S[3].name = "search_time_us" /\ S[3].type = "int"
  BY DEF SearchResponse, F
<1> HIDE DEF S
<1>2. 1..3 = {1, 2, 3}
  OBVIOUS
<1>3. \A i \in 1..3 : S[i].num = i /\ S[i].name # "unknown" /\ S[i].type \in ValueTypes
  BY <1>1, <1>2 DEF ValueTypes
<1>4. \A i, j \in 1..3 : S[i].name = S[j].name => i = j
  BY <1>1, <1>2
<1>5. S = [i \in 1..3 |-> S[i]]
  BY <1>1
<1>6. FlatSchema(S) /\ DOMAIN S = 1..3
  BY <1>3, <1>4, <1>5, SchemaIntro
<1> QED BY <1>1, <1>6 DEF S

LEMMA AppendEntriesArgsSchema ==
    /\ Schema(AppendEntriesArgs) /\ DOMAIN AppendEntriesArgs = 1..7
    /\ AppendEntriesArgs[5].of = LogEntry
    /\ \A i \in DOMAIN AppendEntriesArgs :
          AppendEntriesArgs[i].type = IF i = 5 THEN "messages" ELSE "int"
    /\ AppendEntriesArgs[1].name = "term" /\ AppendEntriesArgs[2].name = "leaderid"
    /\ AppendEntriesArgs[3].name = "prevlogindex" /\ AppendEntriesArgs[4].name = "prevlogterm"
    /\ AppendEntriesArgs[5].name = "entries" /\ AppendEntriesArgs[6].name = "leadercommit"
    /\ AppendEntriesArgs[7].name = "batchid"
<1> DEFINE S == AppendEntriesArgs
<1>1. /\ S = [i \in 1..7 |-> S[i]]
      /\ S[1].num = 1 /\ S[1].name = "term" /\ S[1].type = "int"
      /\ S[2].num = 2 /\ S[2].name = "leaderid" /\ S[2].type = "int"
      /\ S[3].num = 3 /\ S[3].name = "prevlogindex" /\ S[3].type = "int"
      /\ S[4].num = 4 /\ S[4].name = "prevlogterm" /\ S[4].type = "int"
      /\ S[5].num = 5 /\ S[5].name = "entries" /\ S[5].type = "messages" /\ S[5].of = LogEntry
      /\ S[6].num = 6 /\ S[6].name = "leadercommit" /\ S[6].type = "int"
      /\ S[7].num = 7 /\ S[7].name = "batchid" /\ S[7].type = "int"
  BY DEF AppendEntriesArgs, F, FOf
<1> HIDE DEF S
<1>2. 1..7 = {1, 2, 3, 4, 5, 6, 7}
  OBVIOUS
<1>3. \A i \in 1..7 : S[i].num = i /\ S[i].name # "unknown"
  BY <1>1, <1>2
<1>4. \A i, j \in 1..7 : S[i].name = S[j].name => i = j
  BY <1>1, <1>2
<1>5. S = [i \in 1..7 |-> S[i]]
  BY <1>1
<1>6. IsSeq(S) /\ DOMAIN S = 1..7
  BY <1>5, SeqIntro
<1>7. \A i \in 1..7 : S[i].type = IF i = 5 THEN "messages" ELSE "int"
  BY <1>1, <1>2
<1>8. \A i \in 1..7 : FieldTypes(S[i])
  BY <1>1, <1>7, LogEntrySchema DEF FieldTypes, ValueTypes
<1>9. Schema(S)
  BY <1>3, <1>4, <1>6, <1>8 DEF Schema, Numbered
<1> QED BY <1>1, <1>6, <1>7, <1>9 DEF S

LEMMA PutFeatureArgsSchema ==
    /\ Schema(PutFeatureArgs) /\ DOMAIN PutFeatureArgs = 1..3
    /\ PutFeatureArgs[1].name = "feature" /\ PutFeatureArgs[1].type = "message"
    /\ PutFeatureArgs[1].of = ItemFeature
    /\ PutFeatureArgs[2].name = "clientid" /\ PutFeatureArgs[2].type = "bytes"
    /\ PutFeatureArgs[3].name = "requestid" /\ PutFeatureArgs[3].type = "int"
<1> DEFINE S == PutFeatureArgs
<1>1. /\ S = [i \in 1..3 |-> S[i]]
      /\ S[1].num = 1 /\ S[1].name = "feature" /\ S[1].type = "message" /\ S[1].of = ItemFeature
      /\ S[2].num = 2 /\ S[2].name = "clientid" /\ S[2].type = "bytes"
      /\ S[3].num = 3 /\ S[3].name = "requestid" /\ S[3].type = "int"
  BY DEF PutFeatureArgs, F, FOf
<1> HIDE DEF S
<1>2. 1..3 = {1, 2, 3}
  OBVIOUS
<1>3. \A i \in 1..3 : S[i].num = i /\ S[i].name # "unknown"
  BY <1>1, <1>2
<1>4. \A i, j \in 1..3 : S[i].name = S[j].name => i = j
  BY <1>1, <1>2
<1>5. S = [i \in 1..3 |-> S[i]]
  BY <1>1
<1>6. IsSeq(S) /\ DOMAIN S = 1..3
  BY <1>5, SeqIntro
<1>7. \A i \in 1..3 : FieldTypes(S[i])
  BY <1>1, <1>2, ItemFeatureSchema DEF FieldTypes, ValueTypes
<1>8. Schema(S)
  BY <1>3, <1>4, <1>6, <1>7 DEF Schema, Numbered
<1> QED BY <1>1, <1>6, <1>8 DEF S

\* The stub, the prototypes and CallMethod agree about each method.
Agrees(m, in, out) ==
    /\ RequestFields(m, Stub(m)) = in /\ ResponseFields(m, Stub(m)) = out
    /\ CallMethod(m, Stub(m)) = m[2]

LEMMA Dispatch ==
    ASSUME NEW m
    PROVE  /\ m = <<"raftRpc", "AppendEntries">> => Agrees(m, AppendEntriesArgs, AppendEntriesReply) /\ m[2] = "AppendEntries"
           /\ m = <<"raftRpc", "RequestVote">> => Agrees(m, RequestVoteArgs, RequestVoteReply) /\ m[2] = "RequestVote"
           /\ m = <<"raftRpc", "InstallSnapshot">> => Agrees(m, InstallSnapshotRequest, InstallSnapshotResponse) /\ m[2] = "InstallSnapshot"
           /\ m = <<"raftRpc", "PreRequestVote">> => Agrees(m, PreRequestVoteArgs, PreRequestVoteReply) /\ m[2] = "PreRequestVote"
           /\ m = <<"raftRpc", "ReadIndex">> => Agrees(m, ReadIndexRequest, ReadIndexResponse) /\ m[2] = "ReadIndex"
           /\ m = <<"kvServerRpc", "Get">> => Agrees(m, GetArgs, GetReply) /\ m[2] = "Get"
           /\ m = <<"kvServerRpc", "PutAppend">> => Agrees(m, PutAppendArgs, PutAppendReply) /\ m[2] = "PutAppend"
           /\ m = <<"kvServerRpc", "PutFeature">> => Agrees(m, PutFeatureArgs, PutFeatureReply) /\ m[2] = "PutFeature"
           /\ m = <<"kvServerRpc", "Search">> => Agrees(m, SearchRequest, SearchResponse) /\ m[2] = "Search"
<1>1. ASSUME m = <<"raftRpc", "AppendEntries">> PROVE Agrees(m, AppendEntriesArgs, AppendEntriesReply) /\ m[2] = "AppendEntries"
  <2>1. m[1] = "raftRpc" /\ m[2] = "AppendEntries"
    BY <1>1
  <2>2. Stub(m) = 0
    BY <2>1 DEF Stub, ToRaft, raftRpc_Stub
  <2> QED BY <2>1, <2>2 DEF Agrees, ToRaft, CallMethod, RequestFields, ResponseFields,
               raftRpc_CallMethod, raftRpc_GetRequestPrototype, raftRpc_GetResponsePrototype
<1>2. ASSUME m = <<"raftRpc", "RequestVote">> PROVE Agrees(m, RequestVoteArgs, RequestVoteReply) /\ m[2] = "RequestVote"
  <2>1. m[1] = "raftRpc" /\ m[2] = "RequestVote"
    BY <1>2
  <2>2. Stub(m) = 1
    BY <2>1 DEF Stub, ToRaft, raftRpc_Stub
  <2> QED BY <2>1, <2>2 DEF Agrees, ToRaft, CallMethod, RequestFields, ResponseFields,
               raftRpc_CallMethod, raftRpc_GetRequestPrototype, raftRpc_GetResponsePrototype
<1>3. ASSUME m = <<"raftRpc", "InstallSnapshot">> PROVE Agrees(m, InstallSnapshotRequest, InstallSnapshotResponse) /\ m[2] = "InstallSnapshot"
  <2>1. m[1] = "raftRpc" /\ m[2] = "InstallSnapshot"
    BY <1>3
  <2>2. Stub(m) = 2
    BY <2>1 DEF Stub, ToRaft, raftRpc_Stub
  <2> QED BY <2>1, <2>2 DEF Agrees, ToRaft, CallMethod, RequestFields, ResponseFields,
               raftRpc_CallMethod, raftRpc_GetRequestPrototype, raftRpc_GetResponsePrototype
<1>4. ASSUME m = <<"raftRpc", "PreRequestVote">> PROVE Agrees(m, PreRequestVoteArgs, PreRequestVoteReply) /\ m[2] = "PreRequestVote"
  <2>1. m[1] = "raftRpc" /\ m[2] = "PreRequestVote"
    BY <1>4
  <2>2. Stub(m) = 3
    BY <2>1 DEF Stub, ToRaft, raftRpc_Stub
  <2> QED BY <2>1, <2>2 DEF Agrees, ToRaft, CallMethod, RequestFields, ResponseFields,
               raftRpc_CallMethod, raftRpc_GetRequestPrototype, raftRpc_GetResponsePrototype
<1>5. ASSUME m = <<"raftRpc", "ReadIndex">> PROVE Agrees(m, ReadIndexRequest, ReadIndexResponse) /\ m[2] = "ReadIndex"
  <2>1. m[1] = "raftRpc" /\ m[2] = "ReadIndex"
    BY <1>5
  <2>2. Stub(m) = 4
    BY <2>1 DEF Stub, ToRaft, raftRpc_Stub
  <2> QED BY <2>1, <2>2 DEF Agrees, ToRaft, CallMethod, RequestFields, ResponseFields,
               raftRpc_CallMethod, raftRpc_GetRequestPrototype, raftRpc_GetResponsePrototype
<1>6. ASSUME m = <<"kvServerRpc", "Get">> PROVE Agrees(m, GetArgs, GetReply) /\ m[2] = "Get"
  <2>1. m[1] = "kvServerRpc" /\ m[2] = "Get"
    BY <1>6
  <2>2. Stub(m) = 0
    BY <2>1 DEF Stub, ToRaft, kvServerRpc_Stub
  <2> QED BY <2>1, <2>2 DEF Agrees, ToRaft, CallMethod, RequestFields, ResponseFields,
               kvServerRpc_CallMethod, kvServerRpc_GetRequestPrototype, kvServerRpc_GetResponsePrototype
<1>7. ASSUME m = <<"kvServerRpc", "PutAppend">> PROVE Agrees(m, PutAppendArgs, PutAppendReply) /\ m[2] = "PutAppend"
  <2>1. m[1] = "kvServerRpc" /\ m[2] = "PutAppend"
    BY <1>7
  <2>2. Stub(m) = 1
    BY <2>1 DEF Stub, ToRaft, kvServerRpc_Stub
  <2> QED BY <2>1, <2>2 DEF Agrees, ToRaft, CallMethod, RequestFields, ResponseFields,
               kvServerRpc_CallMethod, kvServerRpc_GetRequestPrototype, kvServerRpc_GetResponsePrototype
<1>8. ASSUME m = <<"kvServerRpc", "PutFeature">> PROVE Agrees(m, PutFeatureArgs, PutFeatureReply) /\ m[2] = "PutFeature"
  <2>1. m[1] = "kvServerRpc" /\ m[2] = "PutFeature"
    BY <1>8
  <2>2. Stub(m) = 2
    BY <2>1 DEF Stub, ToRaft, kvServerRpc_Stub
  <2> QED BY <2>1, <2>2 DEF Agrees, ToRaft, CallMethod, RequestFields, ResponseFields,
               kvServerRpc_CallMethod, kvServerRpc_GetRequestPrototype, kvServerRpc_GetResponsePrototype
<1>9. ASSUME m = <<"kvServerRpc", "Search">> PROVE Agrees(m, SearchRequest, SearchResponse) /\ m[2] = "Search"
  <2>1. m[1] = "kvServerRpc" /\ m[2] = "Search"
    BY <1>9
  <2>2. Stub(m) = 3
    BY <2>1 DEF Stub, ToRaft, kvServerRpc_Stub
  <2> QED BY <2>1, <2>2 DEF Agrees, ToRaft, CallMethod, RequestFields, ResponseFields,
               kvServerRpc_CallMethod, kvServerRpc_GetRequestPrototype, kvServerRpc_GetResponsePrototype
<1> QED BY <1>1, <1>2, <1>3, <1>4, <1>5, <1>6, <1>7, <1>8, <1>9

LEMMA MethodFields ==
    ASSUME NEW m \in ServiceMethods
    PROVE  /\ Schema(RequestFields(m, Stub(m))) /\ Schema(ResponseFields(m, Stub(m)))
           /\ CallMethod(m, Stub(m)) = m[2]
<1>1. CASE m = <<"raftRpc", "AppendEntries">>
  BY <1>1, Dispatch, AppendEntriesArgsSchema, AppendEntriesReplySchema, FlatIsSchema DEF Agrees
<1>2. CASE m = <<"raftRpc", "RequestVote">>
  BY <1>2, Dispatch, RequestVoteArgsSchema, RequestVoteReplySchema, FlatIsSchema DEF Agrees
<1>3. CASE m = <<"raftRpc", "InstallSnapshot">>
  BY <1>3, Dispatch, InstallSnapshotRequestSchema, InstallSnapshotResponseSchema, FlatIsSchema DEF Agrees
<1>4. CASE m = <<"raftRpc", "PreRequestVote">>
  BY <1>4, Dispatch, PreRequestVoteArgsSchema, PreRequestVoteReplySchema, FlatIsSchema DEF Agrees
<1>5. CASE m = <<"raftRpc", "ReadIndex">>
  BY <1>5, Dispatch, ReadIndexRequestSchema, ReadIndexResponseSchema, FlatIsSchema DEF Agrees
<1>6. CASE m = <<"kvServerRpc", "Get">>
  BY <1>6, Dispatch, GetArgsSchema, GetReplySchema, FlatIsSchema DEF Agrees
<1>7. CASE m = <<"kvServerRpc", "PutAppend">>
  BY <1>7, Dispatch, PutAppendArgsSchema, PutAppendReplySchema, FlatIsSchema DEF Agrees
<1>8. CASE m = <<"kvServerRpc", "PutFeature">>
  BY <1>8, Dispatch, PutFeatureArgsSchema, PutFeatureReplySchema, FlatIsSchema DEF Agrees
<1>9. CASE m = <<"kvServerRpc", "Search">>
  BY <1>9, Dispatch, SearchRequestSchema, SearchResponseSchema, FlatIsSchema DEF Agrees
<1> QED BY <1>1, <1>2, <1>3, <1>4, <1>5, <1>6, <1>7, <1>8, <1>9 DEF ServiceMethods

-----------------------------------------------------------------------------
(* The texts of the requests and the responses *)

Silent(S) == \A i \in DOMAIN S : S[i].type \in {"int", "bool", "bytes"}

LEMMA SilentUtf8 == ASSUME NEW S, Silent(S), NEW m PROVE Utf8Message(S, m) /\ Utf8Flat(S, m)
<1>1. \A i \in DOMAIN S : Utf8Field(S[i], m[S[i].name]) /\ Utf8Value(S[i], m[S[i].name])
  BY DEF Silent, Utf8Field, Utf8Value
<1> QED BY <1>1 DEF Utf8Message, Utf8Flat

LEMMA TextUtf8 ==
    ASSUME NEW b, IsText(b) PROVE IsUtf8(b) <=> \A i \in DOMAIN b : b[i].byte # NotUtf8
BY DEF IsText, IsUtf8

LEMMA SilentSchemas ==
    /\ Silent(LogEntry)
    /\ Silent(RequestVoteArgs)
    /\ Silent(InstallSnapshotRequest)
    /\ Silent(PreRequestVoteArgs)
    /\ Silent(ReadIndexRequest)
    /\ Silent(GetArgs)
    /\ Silent(PutAppendArgs)
    /\ Silent(AppendEntriesReply)
    /\ Silent(RequestVoteReply)
    /\ Silent(InstallSnapshotResponse)
    /\ Silent(PreRequestVoteReply)
    /\ Silent(ReadIndexResponse)
    /\ Silent(GetReply)
    /\ Silent(PutAppendReply)
    /\ Silent(PutFeatureReply)
<1>1. /\ 1..1 = {1} /\ 1..2 = {1, 2} /\ 1..3 = {1, 2, 3} /\ 1..4 = {1, 2, 3, 4}
      /\ 1..5 = {1, 2, 3, 4, 5} /\ 1..6 = {1, 2, 3, 4, 5, 6}
  OBVIOUS
<1>2. Silent(LogEntry)
  BY <1>1, LogEntrySchema DEF Silent
<1>3. Silent(RequestVoteArgs)
  BY <1>1, RequestVoteArgsSchema DEF Silent
<1>4. Silent(InstallSnapshotRequest)
  BY <1>1, InstallSnapshotRequestSchema DEF Silent
<1>5. Silent(PreRequestVoteArgs)
  BY <1>1, PreRequestVoteArgsSchema DEF Silent
<1>6. Silent(ReadIndexRequest)
  BY <1>1, ReadIndexRequestSchema DEF Silent
<1>7. Silent(GetArgs)
  BY <1>1, GetArgsSchema DEF Silent
<1>8. Silent(PutAppendArgs)
  BY <1>1, PutAppendArgsSchema DEF Silent
<1>9. Silent(AppendEntriesReply)
  BY <1>1, AppendEntriesReplySchema DEF Silent
<1>10. Silent(RequestVoteReply)
  BY <1>1, RequestVoteReplySchema DEF Silent
<1>11. Silent(InstallSnapshotResponse)
  BY <1>1, InstallSnapshotResponseSchema DEF Silent
<1>12. Silent(PreRequestVoteReply)
  BY <1>1, PreRequestVoteReplySchema DEF Silent
<1>13. Silent(ReadIndexResponse)
  BY <1>1, ReadIndexResponseSchema DEF Silent
<1>14. Silent(GetReply)
  BY <1>1, GetReplySchema DEF Silent
<1>15. Silent(PutAppendReply)
  BY <1>1, PutAppendReplySchema DEF Silent
<1>16. Silent(PutFeatureReply)
  BY <1>1, PutFeatureReplySchema DEF Silent
<1> QED BY <1>2, <1>3, <1>4, <1>5, <1>6, <1>7, <1>8, <1>9, <1>10, <1>11, <1>12, <1>13, <1>14, <1>15, <1>16

LEMMA EntriesUtf8 == ASSUME NEW m PROVE Utf8Message(AppendEntriesArgs, m)
<1> DEFINE S == AppendEntriesArgs
<1>1. \A i \in DOMAIN S : S[i].type = IF i = 5 THEN "messages" ELSE "int"
  BY AppendEntriesArgsSchema
<1>2. S[5].of = LogEntry
  BY AppendEntriesArgsSchema
<1> HIDE DEF S
<1>3. ASSUME NEW i \in DOMAIN S, i # 5, NEW v PROVE Utf8Field(S[i], v)
  BY <1>1, <1>3 DEF Utf8Field, Utf8Value
<1>4. ASSUME 5 \in DOMAIN S, NEW v PROVE Utf8Field(S[5], v)
  <2>1. \A i : Utf8Flat(LogEntry, v[i])
    BY SilentSchemas, SilentUtf8
  <2> QED BY <1>1, <1>2, <1>4, <2>1 DEF Utf8Field
<1> QED BY <1>3, <1>4 DEF Utf8Message, S

\* A feature's texts: its id and its attributes.
LEMMA FeatureUtf8 ==
    ASSUME NEW K, NEW f, IsFlat(ItemFeature, f, K)
    PROVE  /\ Utf8Flat(ItemFeature, f) <=> AllText(FeatureTexts(f))
           /\ Utf8Message(ItemFeature, f) <=> Utf8Flat(ItemFeature, f)
<1> DEFINE S == ItemFeature
<1>1. /\ DOMAIN S = 1..4 /\ FlatSchema(S)
      /\ S[1].name = "item_id" /\ S[1].type = "string"
      /\ S[2].name = "embedding" /\ S[2].type = "floats"
      /\ S[3].name = "attrs" /\ S[3].type = "map"
      /\ S[4].name = "timestamp" /\ S[4].type = "int"
  BY ItemFeatureSchema
<1>2. 1..4 = {1, 2, 3, 4}
  OBVIOUS
<1>3. \A i \in DOMAIN S : IsValue(S[i], f[S[i].name], K)
  BY DEF IsFlat
<1> HIDE DEF S
<1>4. IsValue(S[1], f.item_id, K) /\ IsValue(S[3], f.attrs, K)
  BY <1>1, <1>2, <1>3
<1>5. IsText(f.item_id) /\ \A k \in DOMAIN f.attrs : IsText(k) /\ IsText(f.attrs[k])
  BY <1>1, <1>4 DEF IsValue
<1>6. Utf8Value(S[1], f.item_id) <=> IsUtf8(f.item_id)
  BY <1>1 DEF Utf8Value
<1>7. Utf8Value(S[3], f.attrs) <=> \A k \in DOMAIN f.attrs : IsUtf8(k) /\ IsUtf8(f.attrs[k])
  BY <1>1 DEF Utf8Value
<1>8. \A v : Utf8Value(S[2], v) /\ Utf8Value(S[4], v)
  BY <1>1 DEF Utf8Value
<1>9. Utf8Flat(S, f) <=> /\ IsUtf8(f.item_id)
                        /\ \A k \in DOMAIN f.attrs : IsUtf8(k) /\ IsUtf8(f.attrs[k])
  BY <1>1, <1>2, <1>6, <1>7, <1>8 DEF Utf8Flat
<1> DEFINE P(t) == \A i \in DOMAIN t : t[i].byte # NotUtf8
<1>10. AllText(FeatureTexts(f)) <=> P(f.item_id) /\ \A k \in DOMAIN f.attrs : P(k) /\ P(f.attrs[k])
  BY DEF AllText, FeatureTexts
<1>11. \A t : IsText(t) => (IsUtf8(t) <=> P(t))
  BY TextUtf8
<1> HIDE DEF P
<1>12. Utf8Flat(S, f) <=> AllText(FeatureTexts(f))
  BY <1>5, <1>9, <1>10, <1>11
<1>13. \A i \in DOMAIN S : Utf8Field(S[i], f[S[i].name]) <=> Utf8Value(S[i], f[S[i].name])
  BY <1>1, <1>2 DEF Utf8Field
<1> QED BY <1>12, <1>13 DEF Utf8Message, Utf8Flat, S

\* What the request of a method has to be.
Asked(m, r) == /\ m \in ServiceMethods /\ IsMessage(RequestFields(m, Stub(m)), r, MapKeys)
               /\ m[2] = "PutFeature" => r.feature # Absent

LEMMA RequestUtf8 ==
    ASSUME Asked(method, request)
    PROVE  Utf8Message(RequestFields(method, Stub(method)), request) <=> AllText(RequestTexts)
<1> DEFINE S == RequestFields(method, Stub(method))
<1> SUFFICES Utf8Message(S, request) <=> AllText(RequestTexts)
  OBVIOUS
<1>1. AllText({})
  BY DEF AllText
<1>2. method[2] \notin {"PutFeature", "Search"} => RequestTexts = {}
  BY DEF RequestTexts
<1>3. CASE method = <<"raftRpc", "RequestVote">>
  <2>1. S = RequestVoteArgs /\ method[2] = "RequestVote"
    BY <1>3, Dispatch DEF Agrees
  <2> QED BY <1>1, <1>2, <2>1, SilentSchemas, SilentUtf8
<1>4. CASE method = <<"raftRpc", "InstallSnapshot">>
  <2>1. S = InstallSnapshotRequest /\ method[2] = "InstallSnapshot"
    BY <1>4, Dispatch DEF Agrees
  <2> QED BY <1>1, <1>2, <2>1, SilentSchemas, SilentUtf8
<1>5. CASE method = <<"raftRpc", "PreRequestVote">>
  <2>1. S = PreRequestVoteArgs /\ method[2] = "PreRequestVote"
    BY <1>5, Dispatch DEF Agrees
  <2> QED BY <1>1, <1>2, <2>1, SilentSchemas, SilentUtf8
<1>6. CASE method = <<"raftRpc", "ReadIndex">>
  <2>1. S = ReadIndexRequest /\ method[2] = "ReadIndex"
    BY <1>6, Dispatch DEF Agrees
  <2> QED BY <1>1, <1>2, <2>1, SilentSchemas, SilentUtf8
<1>7. CASE method = <<"kvServerRpc", "Get">>
  <2>1. S = GetArgs /\ method[2] = "Get"
    BY <1>7, Dispatch DEF Agrees
  <2> QED BY <1>1, <1>2, <2>1, SilentSchemas, SilentUtf8
<1>8. CASE method = <<"kvServerRpc", "PutAppend">>
  <2>1. S = PutAppendArgs /\ method[2] = "PutAppend"
    BY <1>8, Dispatch DEF Agrees
  <2> QED BY <1>1, <1>2, <2>1, SilentSchemas, SilentUtf8
<1>9. CASE method = <<"raftRpc", "AppendEntries">>
  <2>1. S = AppendEntriesArgs /\ method[2] = "AppendEntries"
    BY <1>9, Dispatch DEF Agrees
  <2> QED BY <1>1, <1>2, <2>1, EntriesUtf8
<1>10. CASE method = <<"kvServerRpc", "PutFeature">>
  <2> DEFINE P == PutFeatureArgs
             f == request.feature
  <2>1. S = P /\ method[2] = "PutFeature"
    BY <1>10, Dispatch DEF Agrees
  <2>2. /\ DOMAIN P = 1..3 /\ P[1].name = "feature" /\ P[1].type = "message"
        /\ P[1].of = ItemFeature /\ P[2].type = "bytes" /\ P[3].type = "int"
    BY PutFeatureArgsSchema
  <2>3. 1..3 = {1, 2, 3}
    OBVIOUS
  <2>4. f # Absent /\ IsMessage(P, request, MapKeys)
    BY <2>1 DEF Asked
  <2> HIDE DEF P
  <2>5. IsField(P[1], f, MapKeys)
    BY <2>2, <2>3, <2>4 DEF IsMessage
  <2>6. IsFlat(ItemFeature, f, MapKeys)
    BY <2>2, <2>4, <2>5 DEF IsField
  <2>7. Utf8Field(P[1], f) <=> Utf8Flat(ItemFeature, f)
    BY <2>2, <2>4 DEF Utf8Field
  <2>8. \A v : Utf8Field(P[2], v) /\ Utf8Field(P[3], v)
    BY <2>2 DEF Utf8Field, Utf8Value
  <2>9. Utf8Message(P, request) <=> Utf8Flat(ItemFeature, f)
    BY <2>2, <2>3, <2>7, <2>8 DEF Utf8Message
  <2>10. RequestTexts = FeatureTexts(f)
    BY <2>1 DEF RequestTexts
  <2> HIDE DEF f, S
  <2> QED BY <2>1, <2>6, <2>9, <2>10, FeatureUtf8
<1>11. CASE method = <<"kvServerRpc", "Search">>
  <2> DEFINE P == SearchRequest
             t == request.search_type
  <2>1. S = P /\ method[2] = "Search"
    BY <1>11, Dispatch DEF Agrees
  <2>2. /\ DOMAIN P = 1..3 /\ P[3].name = "search_type" /\ P[3].type = "string"
        /\ P[1].type = "floats" /\ P[2].type = "int"
    BY SearchRequestSchema
  <2>3. 1..3 = {1, 2, 3}
    OBVIOUS
  <2>4. IsMessage(P, request, MapKeys)
    BY <2>1 DEF Asked
  <2> HIDE DEF P
  <2>5. IsField(P[3], t, MapKeys)
    BY <2>2, <2>3, <2>4 DEF IsMessage
  <2>6. IsText(t)
    BY <2>2, <2>5 DEF IsField, IsValue
  <2>7. Utf8Field(P[3], t) <=> IsUtf8(t)
    BY <2>2 DEF Utf8Field, Utf8Value
  <2>8. \A v : Utf8Field(P[1], v) /\ Utf8Field(P[2], v)
    BY <2>2 DEF Utf8Field, Utf8Value
  <2>9. Utf8Message(P, request) <=> IsUtf8(t)
    BY <2>2, <2>3, <2>7, <2>8 DEF Utf8Message
  <2>10. RequestTexts = {t}
    BY <2>1 DEF RequestTexts
  <2>11. IsUtf8(t) <=> AllText({t})
    BY <2>6, TextUtf8 DEF AllText
  <2> HIDE DEF t, S
  <2> QED BY <2>1, <2>9, <2>10, <2>11
<1> QED BY <1>3, <1>4, <1>5, <1>6, <1>7, <1>8, <1>9, <1>10, <1>11 DEF Asked, ServiceMethods

Answered(m, r) == m \in ServiceMethods /\ IsMessage(ResponseFields(m, Stub(m)), r, MapKeys)

LEMMA ResponseUtf8 ==
    ASSUME Answered(method, response)
    PROVE  Utf8Message(ResponseFields(method, Stub(method)), response) <=> AllText(ResponseTexts)
<1> DEFINE S == ResponseFields(method, Stub(method))
<1> SUFFICES Utf8Message(S, response) <=> AllText(ResponseTexts)
  OBVIOUS
<1>1. AllText({})
  BY DEF AllText
<1>2. method[2] # "Search" => ResponseTexts = {}
  BY DEF ResponseTexts
<1>3. CASE method = <<"raftRpc", "AppendEntries">>
  <2>1. S = AppendEntriesReply /\ method[2] = "AppendEntries"
    BY <1>3, Dispatch DEF Agrees
  <2> QED BY <1>1, <1>2, <2>1, SilentSchemas, SilentUtf8
<1>4. CASE method = <<"raftRpc", "RequestVote">>
  <2>1. S = RequestVoteReply /\ method[2] = "RequestVote"
    BY <1>4, Dispatch DEF Agrees
  <2> QED BY <1>1, <1>2, <2>1, SilentSchemas, SilentUtf8
<1>5. CASE method = <<"raftRpc", "InstallSnapshot">>
  <2>1. S = InstallSnapshotResponse /\ method[2] = "InstallSnapshot"
    BY <1>5, Dispatch DEF Agrees
  <2> QED BY <1>1, <1>2, <2>1, SilentSchemas, SilentUtf8
<1>6. CASE method = <<"raftRpc", "PreRequestVote">>
  <2>1. S = PreRequestVoteReply /\ method[2] = "PreRequestVote"
    BY <1>6, Dispatch DEF Agrees
  <2> QED BY <1>1, <1>2, <2>1, SilentSchemas, SilentUtf8
<1>7. CASE method = <<"raftRpc", "ReadIndex">>
  <2>1. S = ReadIndexResponse /\ method[2] = "ReadIndex"
    BY <1>7, Dispatch DEF Agrees
  <2> QED BY <1>1, <1>2, <2>1, SilentSchemas, SilentUtf8
<1>8. CASE method = <<"kvServerRpc", "Get">>
  <2>1. S = GetReply /\ method[2] = "Get"
    BY <1>8, Dispatch DEF Agrees
  <2> QED BY <1>1, <1>2, <2>1, SilentSchemas, SilentUtf8
<1>9. CASE method = <<"kvServerRpc", "PutAppend">>
  <2>1. S = PutAppendReply /\ method[2] = "PutAppend"
    BY <1>9, Dispatch DEF Agrees
  <2> QED BY <1>1, <1>2, <2>1, SilentSchemas, SilentUtf8
<1>10. CASE method = <<"kvServerRpc", "PutFeature">>
  <2>1. S = PutFeatureReply /\ method[2] = "PutFeature"
    BY <1>10, Dispatch DEF Agrees
  <2> QED BY <1>1, <1>2, <2>1, SilentSchemas, SilentUtf8
<1>11. CASE method = <<"kvServerRpc", "Search">>
  <2> DEFINE P == SearchResponse
             v == response.item_ids
  <2>1. S = P /\ method[2] = "Search"
    BY <1>11, Dispatch DEF Agrees
  <2>2. /\ DOMAIN P = 1..3 /\ P[1].name = "item_ids" /\ P[1].type = "strings"
        /\ P[2].type = "floats" /\ P[3].type = "int"
    BY SearchResponseSchema
  <2>3. 1..3 = {1, 2, 3}
    OBVIOUS
  <2>4. IsMessage(P, response, MapKeys)
    BY <2>1 DEF Answered
  <2> HIDE DEF P
  <2>5. IsField(P[1], v, MapKeys)
    BY <2>2, <2>3, <2>4 DEF IsMessage
  <2>6. \A i \in DOMAIN v : IsText(v[i])
    BY <2>2, <2>5 DEF IsField, IsValue
  <2>7. Utf8Field(P[1], v) <=> \A i \in DOMAIN v : IsUtf8(v[i])
    BY <2>2 DEF Utf8Field, Utf8Value
  <2>8. \A x : Utf8Field(P[2], x) /\ Utf8Field(P[3], x)
    BY <2>2 DEF Utf8Field, Utf8Value
  <2>9. Utf8Message(P, response) <=> \A i \in DOMAIN v : IsUtf8(v[i])
    BY <2>2, <2>3, <2>7, <2>8 DEF Utf8Message
  <2>10. ResponseTexts = Range(v)
    BY <2>1 DEF ResponseTexts
  <2>11. (\A i \in DOMAIN v : IsUtf8(v[i])) <=> AllText(Range(v))
    BY <2>6, TextUtf8 DEF AllText, Range
  <2> HIDE DEF v, S
  <2> QED BY <2>1, <2>9, <2>10, <2>11
<1> QED BY <1>3, <1>4, <1>5, <1>6, <1>7, <1>8, <1>9, <1>10, <1>11 DEF Answered, ServiceMethods

-----------------------------------------------------------------------------
(* The operation in the log *)

Five(x, a, b, c, d, e) ==
    Len(x) = 5 /\ x[1] = a /\ x[2] = b /\ x[3] = c /\ x[4] = d /\ x[5] = e

LEMMA NextOne == ASSUME NEW s, IsSeq(s), NEW a PROVE Ends(s \o <<a>>, s, a)
BY ConcatOne DEF Ends

LEMMA FiveSeq ==
    ASSUME NEW a, NEW b, NEW c, NEW d, NEW e
    PROVE  Five(<<a>> \o <<b>> \o <<c>> \o <<d>> \o <<e>>, a, b, c, d, e)
<1> DEFINE p == <<a>>
           q == p \o <<b>>
           r == q \o <<c>>
           s == r \o <<d>>
           t == s \o <<e>>
<1> SUFFICES Five(t, a, b, c, d, e)
  OBVIOUS
<1>1. IsSeq(p) /\ Len(p) = 1 /\ p[1] = a
  BY OneSeq
<1> HIDE DEF p
<1>2. Ends(q, p, b)
  BY <1>1, NextOne
<1> HIDE DEF q
<1>3. IsSeq(q) /\ Len(q) = 2 /\ q[1] = a /\ q[2] = b
  BY <1>1, <1>2, EndsFacts
<1>4. Ends(r, q, c)
  BY <1>3, NextOne
<1> HIDE DEF r
<1>5. IsSeq(r) /\ Len(r) = 3 /\ r[1] = a /\ r[2] = b /\ r[3] = c
  <2>1. /\ IsSeq(r) /\ Len(r) = Len(q) + 1 /\ r[Len(q) + 1] = c
        /\ \A i \in 1..Len(q) : r[i] = q[i]
    BY <1>4, EndsFacts
  <2> QED BY <1>3, <2>1
<1>6. Ends(s, r, d)
  BY <1>5, NextOne
<1> HIDE DEF s
<1>7. IsSeq(s) /\ Len(s) = 4 /\ s[1] = a /\ s[2] = b /\ s[3] = c /\ s[4] = d
  <2>1. /\ IsSeq(s) /\ Len(s) = Len(r) + 1 /\ s[Len(r) + 1] = d
        /\ \A i \in 1..Len(r) : s[i] = r[i]
    BY <1>6, EndsFacts
  <2> QED BY <1>5, <2>1
<1>8. Ends(t, s, e)
  BY <1>7, NextOne
<1> HIDE DEF t
<1>9. Len(t) = 5 /\ t[1] = a /\ t[2] = b /\ t[3] = c /\ t[4] = d /\ t[5] = e
  <2>1. /\ IsSeq(t) /\ Len(t) = Len(s) + 1 /\ t[Len(s) + 1] = e
        /\ \A i \in 1..Len(s) : t[i] = s[i]
    BY <1>8, EndsFacts
  <2> QED BY <1>7, <2>1
<1> QED BY <1>9 DEF Five

IsOp(o) == /\ o = [Operation |-> o.Operation, Key |-> o.Key, Value |-> o.Value,
                   ClientId |-> o.ClientId, RequestId |-> o.RequestId]
           /\ IsBytes(o.Operation) /\ IsBytes(o.Key) /\ IsBytes(o.Value)
           /\ IsBytes(o.ClientId)

\* decodeOp reads what encodeOp wrote, up to the first field that is too large.
LEMMA OpRead ==
    ASSUME NEW o, IsOp(o), Length(o.Operation) <= FieldLimit, NEW junk
    PROVE  LET k == Length(o.Key) <= FieldLimit
               v == k /\ Length(o.Value) <= FieldLimit
               c == v /\ Length(o.ClientId) <= FieldLimit
           IN  decodeOp(encodeOp(o), junk) =
                 [Operation |-> o.Operation, Key |-> IF k THEN o.Key ELSE <<>>,
                  Value |-> IF v THEN o.Value ELSE <<>>,
                  ClientId |-> IF c THEN o.ClientId ELSE <<>>,
                  RequestId |-> IF c THEN o.RequestId ELSE junk]
<1> DEFINE A(s) == [field |-> s, length |-> Length(s)]
           t == to_string(o.RequestId)
           a == A(o.Operation)
           b == A(o.Key)
           c == A(o.Value)
           d == A(o.ClientId)
           e == A(t)
           x == encodeOp(o)
<1>1. \A s : encodeField(s) = <<A(s)>>
  BY DEF encodeField
<1>2. x = <<a>> \o <<b>> \o <<c>> \o <<d>> \o <<e>>
  BY <1>1 DEF encodeOp
<1>3. \A s : A(s).field = s /\ A(s).length = Length(s)
  OBVIOUS
<1>4. /\ a.field = o.Operation /\ b.field = o.Key /\ c.field = o.Value
      /\ d.field = o.ClientId /\ e.field = t
      /\ a.length = Length(o.Operation) /\ b.length = Length(o.Key)
      /\ c.length = Length(o.Value) /\ d.length = Length(o.ClientId) /\ e.length = Length(t)
  BY <1>3
<1> HIDE DEF a, b, c, d, e
<1> HIDE DEF x
<1>5. Five(x, a, b, c, d, e)
  BY <1>2, FiveSeq
<1>6. Len(x) = 5 /\ x[1] = a /\ x[2] = b /\ x[3] = c /\ x[4] = d /\ x[5] = e
  BY <1>5 DEF Five
<1>7. stoi(t) = o.RequestId
  BY DEF stoi, to_string, Has
<1>8. Length(t) <= FieldLimit
  <2> DEFINE u == [digits |-> o.RequestId]
  <2>1. DOMAIN u = {"digits"} /\ t = <<u>>
    BY DEF to_string
  <2> HIDE DEF u, t
  <2>2. AtomLength(u) = 1
    BY <2>1 DEF AtomLength, Has
  <2>3. Length(t) = 1
    BY <2>1, <2>2, BytesOne
  <2> QED BY <2>3 DEF FieldLimit
<1> HIDE DEF t
<1> DEFINE K == Length(o.Key) <= FieldLimit
           V == K /\ Length(o.Value) <= FieldLimit
           C == V /\ Length(o.ClientId) <= FieldLimit
<1>9. FieldRead(x, 1) /\ (FieldRead(x, 2) <=> K)
  BY <1>4, <1>6 DEF FieldRead
<1>10. FieldRead(x, 3) <=> V
  BY <1>4, <1>6 DEF FieldRead
<1>11. FieldRead(x, 4) <=> C
  BY <1>4, <1>6 DEF FieldRead
<1>12. FieldRead(x, 5) <=> C
  BY <1>4, <1>6, <1>8 DEF FieldRead
<1> HIDE DEF K, V, C
<1>13. decodeOp(x, junk) =
         [Operation |-> o.Operation, Key |-> IF K THEN o.Key ELSE <<>>,
          Value |-> IF V THEN o.Value ELSE <<>>, ClientId |-> IF C THEN o.ClientId ELSE <<>>,
          RequestId |-> IF C THEN o.RequestId ELSE junk]
  BY <1>4, <1>6, <1>7, <1>9, <1>10, <1>11, <1>12 DEF decodeOp
<1> QED BY <1>13 DEF x, K, V, C

LEMMA FieldLength ==
    ASSUME NEW s, IsBytes(s) PROVE IsBytes(encodeField(s))
<1> DEFINE a == [field |-> s, length |-> Length(s)]
<1>1. DOMAIN a = {"field", "length"} /\ a.length = Length(s)
  OBVIOUS
<1>2. encodeField(s) = <<a>>
  BY DEF encodeField
<1> HIDE DEF a
<1>3. AtomLength(a) = 4 + Length(s)
  BY <1>1 DEF AtomLength, Has
<1>4. Length(s) \in Nat
  BY LengthNat
<1> QED BY <1>2, <1>3, <1>4, BytesOne

LEMMA OpBytes ==
    ASSUME NEW o, IsOp(o) PROVE IsBytes(encodeOp(o))
<1> DEFINE t == to_string(o.RequestId)
           a == encodeField(o.Operation)
           b == encodeField(o.Key)
           c == encodeField(o.Value)
           d == encodeField(o.ClientId)
           e == encodeField(t)
<1>1. IsBytes(t)
  <2> DEFINE u == [digits |-> o.RequestId]
  <2>1. DOMAIN u = {"digits"} /\ t = <<u>>
    BY DEF to_string
  <2> HIDE DEF u, t
  <2>2. AtomLength(u) = 1
    BY <2>1 DEF AtomLength, Has
  <2> QED BY <2>1, <2>2, BytesOne
<1> HIDE DEF t
<1>2. IsBytes(a) /\ IsBytes(b) /\ IsBytes(c) /\ IsBytes(d) /\ IsBytes(e)
  BY <1>1, FieldLength DEF IsOp
<1>3. encodeOp(o) = a \o b \o c \o d \o e
  BY DEF encodeOp, t
<1> HIDE DEF a, b, c, d, e
<1>4. IsBytes(a \o b)
  BY <1>2, BytesConcat
<1>5. IsBytes(a \o b \o c)
  BY <1>2, <1>4, BytesConcat
<1>6. IsBytes(a \o b \o c \o d)
  BY <1>2, <1>5, BytesConcat
<1>7. IsBytes(a \o b \o c \o d \o e)
  BY <1>2, <1>6, BytesConcat
<1> QED BY <1>3, <1>7

\* A message that is given all its fields.
LEMMA WithFields ==
    ASSUME NEW S, "unknown" \notin Names(S), NEW g, DOMAIN g = Names(S)
    PROVE  /\ HasFields(S, With(S, g))
           /\ \A n \in Names(S) : With(S, g)[n] = g[n]
<1> DEFINE m == With(S, g)
           C == Clear(S)
<1>1. DOMAIN C = Names(S) \cup {"unknown"} /\ C.unknown = <<>>
  BY DEF Clear
<1>2. m = [x \in DOMAIN C |-> IF x \in DOMAIN g THEN g[x] ELSE C[x]]
  BY <1>1 DEF With
<1> HIDE DEF C, m
<1>3. /\ m = [n \in Names(S) \cup {"unknown"} |-> m[n]] /\ m.unknown = <<>>
      /\ \A n \in Names(S) : m[n] = g[n]
  BY <1>1, <1>2
<1>4. HasFields(S, m)
  BY <1>3, NoBytes, NoneSeq DEF HasFields
<1> QED BY <1>3, <1>4 DEF m

\* A command arrives at a Follower as it was put into the entry.
LEMMA CommandTrip ==
    ASSUME NEW c, IsBytes(c)
    PROVE  LET args == MakeAppendEntriesArgs(1, 2, 0, 0, <<MakeLogEntry(c, 1, 1)>>, 0, 1)
           IN  Parse(AppendEntriesArgs,
                     Serialize(AppendEntriesArgs, args, <<>>)).entries[1].command = c
<1> DEFINE S == AppendEntriesArgs
           L == LogEntry
           g == [command |-> c, logterm |-> 1, logindex |-> 1]
           e == MakeLogEntry(c, 1, 1)
           s == <<e>>
           h == [term |-> 1, leaderid |-> 2, prevlogindex |-> 0, prevlogterm |-> 0,
                 entries |-> s, leadercommit |-> 0, batchid |-> 1]
           m == MakeAppendEntriesArgs(1, 2, 0, 0, s, 0, 1)
<1> SUFFICES Parse(S, Serialize(S, m, <<>>)).entries[1].command = c
  OBVIOUS
<1>1. e = With(L, g)
  BY DEF MakeLogEntry
<1>2. m = With(S, h)
  BY DEF MakeAppendEntriesArgs
<1>3. /\ DOMAIN L = 1..3 /\ L[1].name = "command" /\ L[1].type = "bytes"
      /\ L[2].name = "logterm" /\ L[2].type = "int"
      /\ L[3].name = "logindex" /\ L[3].type = "int"
  BY LogEntrySchema
<1>4. /\ DOMAIN S = 1..7 /\ Schema(S)
      /\ \A i \in DOMAIN S : S[i].type = IF i = 5 THEN "messages" ELSE "int"
      /\ S[5].of = L
      /\ S[1].name = "term" /\ S[2].name = "leaderid"
      /\ S[3].name = "prevlogindex" /\ S[4].name = "prevlogterm"
      /\ S[5].name = "entries" /\ S[6].name = "leadercommit" /\ S[7].name = "batchid"
  BY AppendEntriesArgsSchema
<1>5. 1..3 = {1, 2, 3} /\ 1..7 = {1, 2, 3, 4, 5, 6, 7}
  OBVIOUS
<1>6. /\ DOMAIN g = {"command", "logterm", "logindex"}
      /\ g.command = c /\ g.logterm = 1 /\ g.logindex = 1
  OBVIOUS
<1>7. IsSeq(s) /\ Len(s) = 1 /\ s[1] = e /\ DOMAIN s = 1..1
  BY OneSeq, SeqFacts
<1> HIDE DEF S, L, g, e, s
<1>8. /\ DOMAIN h = {"term", "leaderid", "prevlogindex", "prevlogterm", "entries",
                    "leadercommit", "batchid"}
      /\ h.term = 1 /\ h.leaderid = 2 /\ h.prevlogindex = 0 /\ h.prevlogterm = 0
      /\ h.entries = s /\ h.leadercommit = 0 /\ h.batchid = 1
  OBVIOUS
<1> HIDE DEF h, m
<1>9. Names(L) = DOMAIN g
  BY <1>3, <1>5, <1>6 DEF Names
<1>10. Names(S) = DOMAIN h
  BY <1>4, <1>5, <1>8 DEF Names
<1>11. HasFields(L, e) /\ \A n \in DOMAIN g : e[n] = g[n]
  BY <1>1, <1>6, <1>9, WithFields
<1>12. HasFields(S, m) /\ \A n \in DOMAIN h : m[n] = h[n]
  BY <1>2, <1>8, <1>10, WithFields
<1>13. e.command = c /\ e.logterm = 1 /\ e.logindex = 1
  BY <1>6, <1>11
<1>14. ASSUME NEW i \in DOMAIN L PROVE IsValue(L[i], e[L[i].name], {})
  <2>1. CASE i = 1
    BY <1>3, <1>13, <2>1 DEF IsValue
  <2>2. CASE i = 2
    <3>1. L[i].type = "int" /\ e[L[i].name] \in Int
      BY <1>3, <1>13, <2>2
    <3> QED BY <3>1 DEF IsValue
  <2>3. CASE i = 3
    <3>1. L[i].type = "int" /\ e[L[i].name] \in Int
      BY <1>3, <1>13, <2>3
    <3> QED BY <3>1 DEF IsValue
  <2> QED BY <1>3, <1>5, <2>1, <2>2, <2>3
<1>15. IsFlat(L, e, {})
  BY <1>11, <1>14 DEF IsFlat
<1>16. m.entries = s
  BY <1>8, <1>12
<1>17. IsField(S[5], s, {})
  <2>1. \A i \in DOMAIN s : IsFlat(L, s[i], {})
    BY <1>7, <1>15
  <2>2. S[5].type = "messages"
    BY <1>4, <1>5
  <2> QED BY <1>4, <1>7, <2>1, <2>2 DEF IsField
<1>18. ASSUME NEW i \in DOMAIN S, i # 5 PROVE IsField(S[i], m[S[i].name], {})
  <2>1. S[i].type = "int"
    BY <1>4, <1>18
  <2>2. m[S[i].name] \in Int
    BY <1>4, <1>5, <1>8, <1>12, <1>18
  <2> QED BY <2>1, <2>2 DEF IsField, IsValue
<1>19. IsMessage(S, m, {})
  BY <1>4, <1>12, <1>16, <1>17, <1>18 DEF IsMessage
<1>20. Covers(<<>>, {})
  BY NoneSeq DEF Covers, Range
<1>21. Utf8Message(S, m)
  BY EntriesUtf8 DEF S
<1>22. Parse(S, Serialize(S, m, <<>>)) = m
  BY <1>4, <1>19, <1>20, <1>21, ParseTrip
<1> QED BY <1>7, <1>13, <1>16, <1>22

-----------------------------------------------------------------------------
(* The way of a call, stage by stage *)

Asks    == RequestFields(method, Stub(method))
Answers == ResponseFields(method, Stub(method))

\* The bytes under way are those of m, of the size that was announced.
Carries(S, m) ==
    \E keys \in MapOrders : size = ByteSizeLong(S, m, keys) /\ wire = Serialize(S, m, keys)

Stages == {"new", "sent", "refused", "parsed", "called", "logged", "copied", "applied",
           "answered", "done"}

CallInv ==
    /\ stage \in Stages
    /\ method \in Methods /\ request \in Requests(method)
    /\ method[2] = "PutAppend" => old \in StoredBefore
    /\ stage # "new" => index = Stub(method)

RequestInv ==
    /\ stage = "sent" => Carries(Asks, request)
    /\ stage = "refused" => ~Utf8Message(Asks, request)
    /\ stage \in {"parsed", "called", "logged", "copied", "applied"} =>
          seen = request /\ Utf8Message(Asks, request)
    /\ stage \in {"called", "logged", "copied", "applied"} => handler = method[2]

WriteInv ==
    /\ stage \in {"logged", "copied"} =>
          IsWrite /\ \E keys \in MapOrders : command = encodeOp(OpOf(keys))
    /\ stage = "applied" =>
          /\ IsWrite
          /\ \E keys \in MapOrders, junk \in Junk : op = decodeOp(encodeOp(OpOf(keys)), junk)
          /\ stored = StoredBytes(op)
          /\ feature \in ParseResults(ItemFeature, FeatureBytes(op, stored), Mixtures)

AnswerInv ==
    /\ stage = "answered" => response \in Responses(method) /\ Carries(Answers, response)
    /\ stage = "done" =>
          /\ response \in Responses(method)
          /\ answer = IF Utf8Message(Answers, response) THEN response ELSE Failed

\* What holds while a call is under way.
FlowInv == CallInv /\ RequestInv /\ WriteInv /\ AnswerInv

LEMMA Orders ==
    ASSUME NEW keys \in MapOrders PROVE Covers(keys, MapKeys) /\ IsSeq(keys)
BY OrdersAssumption DEF Covers

LEMMA CallFacts ==
    ASSUME CallInv
    PROVE  /\ method \in ServiceMethods /\ Asked(method, request)
           /\ Schema(Asks) /\ Schema(Answers) /\ IsMessage(Asks, request, MapKeys)
           /\ CallMethod(method, Stub(method)) = method[2]
<1>1. method \in Methods /\ method \in ServiceMethods
  BY MethodsAssumption DEF CallInv
<1>2. request \in Requests(method)
  BY DEF CallInv
<1>3. /\ IsMessage(RequestFields(method, Stub(method)), request, MapKeys)
      /\ method[2] = "PutFeature" => request.feature # Absent
  BY <1>1, <1>2, RequestsAssumption
<1> QED BY <1>1, <1>3, MethodFields DEF Asked, Asks, Answers

LEMMA Words ==
    /\ Text("Put") # Text("Append") /\ Text("Put") # Text("PutFeature")
    /\ Text("Append") # Text("PutFeature")
    /\ \A w : IsBytes(Text(w)) /\ Length(Text(w)) <= FieldLimit
<1>1. ASSUME NEW v, NEW w, Text(v) = Text(w) PROVE v = w
  <2>1. Text(v)[1].byte = v /\ Text(w)[1].byte = w
    BY DEF Text, Run
  <2> QED BY <1>1, <2>1
<1>2. ASSUME NEW w PROVE IsBytes(Text(w)) /\ Length(Text(w)) <= FieldLimit
  <2> DEFINE a == [byte |-> w, times |-> 1]
             b == Text(w)
  <2>1. DOMAIN a = {"byte", "times"} /\ a.times = 1 /\ b = <<a>>
    BY DEF Text, Run
  <2> HIDE DEF a, b
  <2>2. AtomLength(a) = 1
    BY <2>1 DEF AtomLength, Has
  <2>3. IsBytes(b) /\ Length(b) = 1
    BY <2>1, <2>2, BytesOne
  <2>4. IsBytes(b) /\ Length(b) <= FieldLimit
    BY <2>3 DEF FieldLimit
  <2> QED BY <2>4 DEF b
<1>3. Text("Put") # Text("Append")
  BY <1>1
<1>4. Text("Put") # Text("PutFeature")
  BY <1>1
<1>5. Text("Append") # Text("PutFeature")
  BY <1>1
<1> QED BY <1>2, <1>3, <1>4, <1>5

LEMMA PutAppendFacts ==
    ASSUME CallInv, method[2] = "PutAppend"
    PROVE  /\ request.op \in {Text("Put"), Text("Append")}
           /\ FromSerializer(ItemFeature, request.value)
           /\ IsBytes(request.op) /\ IsBytes(request.key) /\ IsBytes(request.value)
           /\ IsBytes(request.clientid)
<1> DEFINE S == PutAppendArgs
<1>1. method \in Methods /\ method \in ServiceMethods /\ request \in Requests(method)
  BY MethodsAssumption DEF CallInv
<1>2. method = <<"kvServerRpc", "PutAppend">>
  BY <1>1 DEF ServiceMethods
<1>3. Asks = S
  BY <1>2, Dispatch DEF Agrees, Asks
<1>4. IsMessage(S, request, MapKeys)
  BY <1>3, CallFacts
<1>5. /\ DOMAIN S = 1..5 /\ S[1].name = "key" /\ S[1].type = "bytes"
      /\ S[2].name = "value" /\ S[2].type = "bytes" /\ S[3].name = "op" /\ S[3].type = "bytes"
      /\ S[4].name = "clientid" /\ S[4].type = "bytes"
  BY PutAppendArgsSchema
<1>6. 1 \in DOMAIN S /\ 2 \in DOMAIN S /\ 3 \in DOMAIN S /\ 4 \in DOMAIN S
  BY <1>5
<1> HIDE DEF S
<1>7. /\ IsField(S[1], request.key, MapKeys) /\ IsField(S[2], request.value, MapKeys)
      /\ IsField(S[3], request.op, MapKeys) /\ IsField(S[4], request.clientid, MapKeys)
  BY <1>4, <1>5, <1>6 DEF IsMessage
<1>8. \A i \in DOMAIN S : \A v :
         S[i].type = "bytes" /\ IsField(S[i], v, MapKeys) => IsBytes(v)
  BY DEF IsField, IsValue
<1>9. /\ IsBytes(request.op) /\ IsBytes(request.key) /\ IsBytes(request.value)
      /\ IsBytes(request.clientid)
  BY <1>5, <1>6, <1>7, <1>8
<1>10. request.op \in {Text("Put"), Text("Append")} /\ FromSerializer(ItemFeature, request.value)
  BY <1>1, RequestsAssumption
<1> QED BY <1>9, <1>10

LEMMA PutFeatureFacts ==
    ASSUME CallInv, method[2] = "PutFeature"
    PROVE  /\ IsFlat(ItemFeature, request.feature, MapKeys)
           /\ IsBytes(request.feature.item_id) /\ IsBytes(request.clientid)
           /\ Utf8Message(Asks, request) => Utf8Message(ItemFeature, request.feature)
<1> DEFINE P == PutFeatureArgs
           f == request.feature
           S == ItemFeature
<1>1. method \in ServiceMethods /\ Asked(method, request)
  BY CallFacts
<1>2. method = <<"kvServerRpc", "PutFeature">>
  BY <1>1 DEF ServiceMethods
<1>3. Asks = P
  BY <1>2, Dispatch DEF Agrees, Asks
<1>4. IsMessage(P, request, MapKeys) /\ f # Absent
  BY <1>1, <1>3, CallFacts DEF Asked
<1>5. /\ DOMAIN P = 1..3 /\ P[1].name = "feature" /\ P[1].type = "message"
      /\ P[1].of = S /\ P[2].name = "clientid" /\ P[2].type = "bytes"
  BY PutFeatureArgsSchema
<1>6. 1 \in DOMAIN P /\ 2 \in DOMAIN P
  BY <1>5
<1>7. DOMAIN S = 1..4 /\ S[1].name = "item_id" /\ S[1].type = "string"
  BY ItemFeatureSchema
<1>8. 1 \in DOMAIN S
  BY <1>7
<1> HIDE DEF P, S
<1>9. IsField(P[1], f, MapKeys) /\ IsField(P[2], request.clientid, MapKeys)
  BY <1>4, <1>5, <1>6 DEF IsMessage
<1>10. IsFlat(S, f, MapKeys)
  BY <1>4, <1>5, <1>9 DEF IsField
<1>11. IsBytes(request.clientid)
  BY <1>5, <1>9 DEF IsField, IsValue
<1>12. IsValue(S[1], f.item_id, MapKeys)
  BY <1>7, <1>8, <1>10 DEF IsFlat
<1>13. IsBytes(f.item_id)
  BY <1>7, <1>12, TextBytes DEF IsValue
<1>14. ASSUME Utf8Message(P, request) PROVE Utf8Flat(S, f)
  <2>1. Utf8Field(P[1], f)
    BY <1>5, <1>6, <1>14 DEF Utf8Message
  <2> QED BY <1>4, <1>5, <2>1 DEF Utf8Field
<1>15. Utf8Message(S, f) <=> Utf8Flat(S, f)
  BY <1>10, FeatureUtf8 DEF S
<1> QED BY <1>3, <1>10, <1>11, <1>13, <1>14, <1>15 DEF S

\* The operation of a write is one that encodeOp can write.
LEMMA WriteOp ==
    ASSUME CallInv, seen = request, handler = method[2], IsWrite, NEW keys \in MapOrders
    PROVE  IsOp(OpOf(keys))
<1>1. CASE handler = "PutFeature"
  <2> DEFINE v == Serialize(ItemFeature, request.feature, keys)
  <2>1. /\ IsFlat(ItemFeature, request.feature, MapKeys)
        /\ IsBytes(request.feature.item_id) /\ IsBytes(request.clientid)
    BY <1>1, PutFeatureFacts
  <2>2. Schema(ItemFeature) /\ IsMessage(ItemFeature, request.feature, MapKeys)
    BY <2>1, FlatMessages, ItemFeatureSchema
  <2>3. IsBytes(v)
    BY <2>2, Orders, MessageBytes
  <2>4. OpOf(keys) = [Operation |-> Text("PutFeature"), Key |-> request.feature.item_id,
                      Value |-> v, ClientId |-> request.clientid,
                      RequestId |-> request.requestid]
    BY <1>1 DEF OpOf
  <2> HIDE DEF v
  <2> QED BY <2>1, <2>3, <2>4, Words DEF IsOp
<1>2. CASE handler = "PutAppend"
  <2>1. /\ IsBytes(request.op) /\ IsBytes(request.key) /\ IsBytes(request.value)
        /\ IsBytes(request.clientid)
    BY <1>2, PutAppendFacts
  <2>2. OpOf(keys) = [Operation |-> request.op, Key |-> request.key, Value |-> request.value,
                      ClientId |-> request.clientid, RequestId |-> request.requestid]
    BY <1>2 DEF OpOf
  <2> QED BY <2>1, <2>2 DEF IsOp
<1> QED BY <1>1, <1>2 DEF IsWrite

-----------------------------------------------------------------------------
(* Each step keeps it *)

LEMMA FlowStart == ASSUME FlowInit PROVE FlowInv
<1>1. CallInv
  BY DEF FlowInit, CallInv, Stages
<1>2. RequestInv
  BY DEF FlowInit, RequestInv
<1>3. WriteInv
  BY DEF FlowInit, WriteInv
<1>4. AnswerInv
  BY DEF FlowInit, AnswerInv
<1> QED BY <1>1, <1>2, <1>3, <1>4 DEF FlowInv

LEMMA StubCallStep == ASSUME FlowInv, StubCall PROVE FlowInv'
<1>1. /\ stage = "new" /\ stage' = "sent" /\ index' = Stub(method)
      /\ UNCHANGED <<method, request, seen, handler, command, op, old, stored, feature,
                     response, answer>>
  BY DEF StubCall, callVars, writeVars, replyVars
<1>2. CallInv'
  BY <1>1 DEF FlowInv, CallInv, Stages
<1>3. \E keys \in MapOrders : /\ size' = ByteSizeLong(Asks, request, keys)
                             /\ wire' = Serialize(Asks, request, keys)
  BY DEF StubCall, Write, Asks
<1>4. Asks' = Asks
  BY <1>1 DEF Asks
<1>5. Carries(Asks, request)'
  BY <1>1, <1>3, <1>4 DEF Carries
<1>6. RequestInv'
  BY <1>1, <1>5 DEF RequestInv
<1>7. WriteInv'
  BY <1>1 DEF WriteInv
<1>8. AnswerInv'
  BY <1>1 DEF AnswerInv
<1> QED BY <1>2, <1>6, <1>7, <1>8 DEF FlowInv

LEMMA ProviderParseStep == ASSUME FlowInv, ProviderParse PROVE FlowInv'
<1>1. /\ stage = "sent" /\ stage' = IF seen' = Failed THEN "refused" ELSE "parsed"
      /\ seen' = Parse(RequestFields(method, index), wire)
      /\ UNCHANGED <<method, request, index, size, wire, handler, command, op, old, stored,
                     feature, response, answer>>
  BY DEF ProviderParse, callVars, writeVars, replyVars
<1>2. CallInv /\ RequestInv
  BY DEF FlowInv
<1>3. index = Stub(method) /\ Carries(Asks, request)
  BY <1>1, <1>2 DEF CallInv, RequestInv
<1>4. PICK keys \in MapOrders : wire = Serialize(Asks, request, keys)
  BY <1>3 DEF Carries
<1>5. Parse(Asks, wire) = IF Utf8Message(Asks, request) THEN request ELSE Failed
  BY <1>2, <1>4, CallFacts, Orders, ParseTrip
<1>6. request # Failed
  BY <1>2, CallFacts, NotFailed
<1>7. seen' = Parse(Asks, wire)
  BY <1>1, <1>3 DEF Asks
<1>8. Asks' = Asks
  BY <1>1 DEF Asks
<1>9. CASE Utf8Message(Asks, request)
  <2>1. stage' = "parsed" /\ seen' = request'
    BY <1>1, <1>5, <1>6, <1>7, <1>9
  <2>2. CallInv'
    BY <1>1, <1>2, <2>1 DEF CallInv, Stages
  <2>3. RequestInv'
    BY <1>1, <1>8, <1>9, <2>1 DEF RequestInv
  <2>4. WriteInv' /\ AnswerInv'
    BY <2>1 DEF WriteInv, AnswerInv
  <2> QED BY <2>2, <2>3, <2>4 DEF FlowInv
<1>10. CASE ~Utf8Message(Asks, request)
  <2>1. stage' = "refused"
    BY <1>1, <1>5, <1>7, <1>10
  <2>2. CallInv'
    BY <1>1, <1>2, <2>1 DEF CallInv, Stages
  <2>3. RequestInv'
    BY <1>1, <1>8, <1>10, <2>1 DEF RequestInv
  <2>4. WriteInv' /\ AnswerInv'
    BY <2>1 DEF WriteInv, AnswerInv
  <2> QED BY <2>2, <2>3, <2>4 DEF FlowInv
<1> QED BY <1>9, <1>10

LEMMA ProviderCallStep == ASSUME FlowInv, ProviderCall PROVE FlowInv'
<1>1. /\ stage = "parsed" /\ stage' = "called" /\ handler' = CallMethod(method, index)
      /\ UNCHANGED <<method, request, index, size, wire, seen, command, op, old, stored,
                     feature, response, answer>>
  BY DEF ProviderCall, callVars, writeVars, replyVars
<1>2. CallInv /\ RequestInv
  BY DEF FlowInv
<1>3. index = Stub(method) /\ seen = request /\ Utf8Message(Asks, request)
  BY <1>1, <1>2 DEF CallInv, RequestInv
<1>4. handler' = method[2]
  BY <1>1, <1>2, <1>3, CallFacts
<1>5. Asks' = Asks
  BY <1>1 DEF Asks
<1>6. CallInv'
  BY <1>1, <1>2 DEF CallInv, Stages
<1>7. RequestInv'
  BY <1>1, <1>3, <1>4, <1>5 DEF RequestInv
<1>8. WriteInv' /\ AnswerInv'
  BY <1>1 DEF WriteInv, AnswerInv
<1> QED BY <1>6, <1>7, <1>8 DEF FlowInv

\* A step of a write: the request stays as it is.
LEMMA RequestStays ==
    ASSUME RequestInv, stage \in {"called", "logged", "copied"},
           stage' \in {"logged", "copied", "applied"},
           UNCHANGED <<method, request, seen, handler>>
    PROVE  RequestInv'
<1>1. seen = request /\ Utf8Message(Asks, request) /\ handler = method[2]
  BY DEF RequestInv
<1>2. Asks' = Asks
  BY DEF Asks
<1> QED BY <1>1, <1>2 DEF RequestInv

LEMMA HandleWriteStep == ASSUME FlowInv, HandleWrite PROVE FlowInv'
<1>1. /\ stage = "called" /\ IsWrite /\ stage' = "logged"
      /\ UNCHANGED <<method, request, index, size, wire, seen, handler, op, old, stored,
                     feature, response, answer>>
  BY DEF HandleWrite, callVars, replyVars
<1>2. PICK keys \in MapOrders : command' = encodeOp(OpOf(keys))
  BY DEF HandleWrite
<1>3. CallInv /\ RequestInv
  BY DEF FlowInv
<1>4. OpOf(keys)' = OpOf(keys) /\ IsWrite'
  BY <1>1 DEF OpOf, IsWrite
<1>5. CallInv'
  BY <1>1, <1>3 DEF CallInv, Stages
<1>6. RequestInv'
  BY <1>1, <1>3, RequestStays
<1>7. WriteInv'
  BY <1>1, <1>2, <1>4 DEF WriteInv
<1>8. AnswerInv'
  BY <1>1 DEF AnswerInv
<1> QED BY <1>5, <1>6, <1>7, <1>8 DEF FlowInv

LEMMA ReplicateStep == ASSUME FlowInv, Replicate PROVE FlowInv'
<1>1. /\ stage = "logged" /\ stage' = "copied"
      /\ UNCHANGED <<method, request, index, size, wire, seen, handler, op, old, stored,
                     feature, response, answer>>
  BY DEF Replicate, callVars, replyVars
<1>2. CallInv /\ RequestInv /\ WriteInv
  BY DEF FlowInv
<1>3. seen = request /\ handler = method[2] /\ IsWrite
  BY <1>1, <1>2 DEF RequestInv, WriteInv
<1>4. PICK keys \in MapOrders : command = encodeOp(OpOf(keys))
  BY <1>1, <1>2 DEF WriteInv
<1>5. IsOp(OpOf(keys))
  BY <1>2, <1>3, WriteOp
<1>6. IsBytes(command)
  BY <1>4, <1>5, OpBytes
<1>7. command' = command
  BY <1>6, CommandTrip DEF Replicate
<1>8. OpOf(keys)' = OpOf(keys) /\ IsWrite'
  BY <1>1, <1>3 DEF OpOf, IsWrite
<1>9. CallInv'
  BY <1>1, <1>2 DEF CallInv, Stages
<1>10. RequestInv'
  BY <1>1, <1>2, RequestStays
<1>11. WriteInv'
  BY <1>1, <1>4, <1>7, <1>8 DEF WriteInv
<1>12. AnswerInv'
  BY <1>1 DEF AnswerInv
<1> QED BY <1>9, <1>10, <1>11, <1>12 DEF FlowInv

LEMMA ApplyCommandStep == ASSUME FlowInv, ApplyCommand PROVE FlowInv'
<1>1. /\ stage \in {"logged", "copied"} /\ stage' = "applied"
      /\ UNCHANGED <<method, request, index, size, wire, seen, handler, command, old,
                     response, answer>>
  BY DEF ApplyCommand, callVars, replyVars
<1>2. PICK junk \in Junk : op' = decodeOp(command, junk)
  BY DEF ApplyCommand
<1>3. /\ stored' = StoredBytes(op')
      /\ feature' \in ParseResults(ItemFeature, FeatureBytes(op', stored'), Mixtures)
  BY DEF ApplyCommand
<1>4. CallInv /\ RequestInv /\ WriteInv
  BY DEF FlowInv
<1>5. seen = request /\ handler = method[2] /\ IsWrite
  BY <1>1, <1>4 DEF RequestInv, WriteInv
<1>6. PICK keys \in MapOrders : command = encodeOp(OpOf(keys))
  BY <1>1, <1>4 DEF WriteInv
<1>8. op' = decodeOp(encodeOp(OpOf(keys)), junk)
  BY <1>2, <1>6
<1>9. OpOf(keys)' = OpOf(keys) /\ IsWrite'
  BY <1>1, <1>5 DEF OpOf, IsWrite
<1>10. /\ StoredBytes(op)' = StoredBytes(op')
       /\ FeatureBytes(op, stored)' = FeatureBytes(op', stored')
  BY <1>1 DEF StoredBytes, FeatureBytes
<1>11. CallInv'
  BY <1>1, <1>4 DEF CallInv, Stages
<1>12. RequestInv'
  BY <1>1, <1>4, RequestStays
<1>13. WriteInv'
  <2>1. (\E k \in MapOrders, j \in Junk : op = decodeOp(encodeOp(OpOf(k)), j))'
    BY <1>8, <1>9
  <2> QED BY <1>1, <1>3, <1>9, <1>10, <2>1 DEF WriteInv
<1>14. AnswerInv'
  BY <1>1 DEF AnswerInv
<1> QED BY <1>11, <1>12, <1>13, <1>14 DEF FlowInv

LEMMA AnswerStep == ASSUME FlowInv, Answer PROVE FlowInv'
<1>1. /\ stage \in {"applied", "called"} /\ stage' = "answered"
      /\ response' \in Responses(method)
      /\ UNCHANGED <<method, request, index, seen, handler, command, op, old, stored,
                     feature, answer>>
  BY DEF Answer, callVars, writeVars
<1>2. \E keys \in MapOrders :
         /\ size' = ByteSizeLong(ResponseFields(method, index), response', keys)
         /\ wire' = Serialize(ResponseFields(method, index), response', keys)
  BY DEF Answer, Write
<1>3. CallInv
  BY DEF FlowInv
<1>4. index = Stub(method)
  BY <1>1, <1>3 DEF CallInv
<1>5. Answers' = ResponseFields(method, index)
  BY <1>1, <1>4 DEF Answers
<1>6. Carries(Answers, response)'
  BY <1>2, <1>5 DEF Carries
<1>7. CallInv'
  BY <1>1, <1>3 DEF CallInv, Stages
<1>8. RequestInv' /\ WriteInv'
  BY <1>1 DEF RequestInv, WriteInv
<1>9. AnswerInv'
  BY <1>1, <1>6 DEF AnswerInv
<1> QED BY <1>7, <1>8, <1>9 DEF FlowInv

LEMMA AnswerFacts ==
    ASSUME CallInv, response \in Responses(method)
    PROVE  IsMessage(Answers, response, MapKeys) /\ Answered(method, response)
<1>1. method \in Methods
  BY DEF CallInv
<1>2. IsMessage(ResponseFields(method, Stub(method)), response, MapKeys)
  BY <1>1, ResponsesAssumption
<1> QED BY <1>2, CallFacts DEF Answers, Answered

LEMMA ReadAnswerStep == ASSUME FlowInv, ReadAnswer PROVE FlowInv'
<1>1. /\ stage = "answered" /\ stage' = "done"
      /\ answer' = Parse(ResponseFields(method, index), wire)
      /\ UNCHANGED <<method, request, index, size, wire, seen, handler, command, op, old,
                     stored, feature, response>>
  BY DEF ReadAnswer, callVars, writeVars
<1>2. CallInv /\ AnswerInv
  BY DEF FlowInv
<1>3. /\ index = Stub(method) /\ response \in Responses(method)
      /\ Carries(Answers, response)
  BY <1>1, <1>2 DEF CallInv, AnswerInv
<1>4. PICK keys \in MapOrders : wire = Serialize(Answers, response, keys)
  BY <1>3 DEF Carries
<1>5. Parse(Answers, wire) = IF Utf8Message(Answers, response) THEN response ELSE Failed
  BY <1>2, <1>3, <1>4, CallFacts, AnswerFacts, Orders, ParseTrip
<1>6. answer' = Parse(Answers, wire)
  BY <1>1, <1>3 DEF Answers
<1>7. Answers' = Answers
  BY <1>1 DEF Answers
<1>8. CallInv'
  BY <1>1, <1>2 DEF CallInv, Stages
<1>9. RequestInv' /\ WriteInv'
  BY <1>1 DEF RequestInv, WriteInv
<1>10. AnswerInv'
  BY <1>1, <1>3, <1>5, <1>6, <1>7 DEF AnswerInv
<1> QED BY <1>8, <1>9, <1>10 DEF FlowInv

LEMMA FlowStutter == ASSUME FlowInv, UNCHANGED flowVars PROVE FlowInv'
<1>1. UNCHANGED <<stage, method, request, index, size, wire, seen, handler, command, op,
                  old, stored, feature, response, answer>>
  BY DEF flowVars, callVars, writeVars, replyVars
<1>2. Asks' = Asks /\ Answers' = Answers /\ IsWrite' = IsWrite
  BY <1>1 DEF Asks, Answers, IsWrite
<1>3. /\ Carries(Asks, request) => Carries(Asks, request)'
      /\ Carries(Answers, response) => Carries(Answers, response)'
  BY <1>1, <1>2 DEF Carries
<1>4. \A keys : OpOf(keys)' = OpOf(keys)
  BY <1>1 DEF OpOf
<1>5. StoredBytes(op)' = StoredBytes(op)
  BY <1>1 DEF StoredBytes
<1>6. CallInv'
  BY <1>1 DEF FlowInv, CallInv
<1>7. RequestInv'
  BY <1>1, <1>2, <1>3 DEF FlowInv, RequestInv
<1>8. WriteInv'
  BY <1>1, <1>2, <1>4, <1>5 DEF FlowInv, WriteInv
<1>9. AnswerInv'
  BY <1>1, <1>2, <1>3 DEF FlowInv, AnswerInv
<1> QED BY <1>6, <1>7, <1>8, <1>9 DEF FlowInv

LEMMA FlowSteps == FlowInv /\ [FlowNext]_flowVars => FlowInv'
BY StubCallStep, ProviderParseStep, ProviderCallStep, HandleWriteStep, ReplicateStep,
   ApplyCommandStep, AnswerStep, ReadAnswerStep, FlowStutter DEF FlowNext

-----------------------------------------------------------------------------
(* What a call may rely on *)

\* FlowInv holds in every state of a call: what the stub, the provider, the log
\* and the replicas hand on to each other is at every stage what the caller or
\* the handler put in.
THEOREM FlowInvariant == FlowSpec => []FlowInv
<1>1. FlowInit => FlowInv
  BY FlowStart
<1> QED BY <1>1, FlowSteps, PTL DEF FlowSpec

\* ByteSizeLong announces exactly the bytes that _InternalSerialize writes, for
\* every message of the two services and every order of a map.
THEOREM SizeIsAnnounced == FlowSpec => []SizeAnnounced
<1>1. ASSUME FlowInv PROVE SizeAnnounced
  <2>1. CallInv /\ RequestInv /\ AnswerInv
    BY <1>1 DEF FlowInv
  <2>2. ASSUME stage = "sent" PROVE size = Length(wire)
    <3>1. PICK keys \in MapOrders : /\ size = ByteSizeLong(Asks, request, keys)
                                   /\ wire = Serialize(Asks, request, keys)
      BY <2>1, <2>2 DEF RequestInv, Carries
    <3> QED BY <2>1, <3>1, CallFacts, Orders, MessageBytes
  <2>3. ASSUME stage = "answered" PROVE size = Length(wire)
    <3>1. response \in Responses(method)
      BY <2>1, <2>3 DEF AnswerInv
    <3>2. PICK keys \in MapOrders : /\ size = ByteSizeLong(Answers, response, keys)
                                   /\ wire = Serialize(Answers, response, keys)
      BY <2>1, <2>3 DEF AnswerInv, Carries
    <3> QED BY <2>1, <3>1, <3>2, CallFacts, AnswerFacts, Orders, MessageBytes
  <2> QED BY <2>2, <2>3 DEF SizeAnnounced
<1> QED BY <1>1, FlowInvariant, PTL

\* CallMethod runs the handler of the method that the stub named, with the
\* request that the caller made.
THEOREM RequestsArrive == FlowSpec => []RequestArrives
<1>1. ASSUME FlowInv PROVE RequestArrives
  BY <1>1 DEF FlowInv, RequestInv, RequestArrives
<1> QED BY <1>1, FlowInvariant, PTL

\* The provider refuses a request exactly if VerifyUTF8 finds a text in it that
\* is none.
THEOREM OnlyTextIsRefused == FlowSpec => []RefusedForText
<1>1. ASSUME FlowInv PROVE RefusedForText
  <2>1. CallInv /\ RequestInv
    BY <1>1 DEF FlowInv
  <2>2. Utf8Message(Asks, request) <=> AllText(RequestTexts)
    BY <2>1, CallFacts, RequestUtf8 DEF Asks
  <2> QED BY <2>1, <2>2 DEF RequestInv, RefusedForText
<1> QED BY <1>1, FlowInvariant, PTL

\* What a replica decodes from the command of a write.
LEMMA OpDecoded ==
    ASSUME FlowInv, stage = "applied"
    PROVE  \E keys \in MapOrders, junk \in Junk :
             LET o == OpAsked(keys)
                 k == Length(o.Key) <= FieldLimit
                 v == k /\ Length(o.Value) <= FieldLimit
                 c == v /\ Length(o.ClientId) <= FieldLimit
             IN  /\ IsOp(o) /\ Length(o.Operation) <= FieldLimit
                 /\ op = [Operation |-> o.Operation, Key |-> IF k THEN o.Key ELSE <<>>,
                          Value |-> IF v THEN o.Value ELSE <<>>,
                          ClientId |-> IF c THEN o.ClientId ELSE <<>>,
                          RequestId |-> IF c THEN o.RequestId ELSE junk]
<1>1. CallInv /\ RequestInv /\ WriteInv
  BY DEF FlowInv
<1>2. seen = request /\ handler = method[2] /\ IsWrite
  BY <1>1 DEF RequestInv, WriteInv
<1>3. PICK keys \in MapOrders, junk \in Junk : op = decodeOp(encodeOp(OpOf(keys)), junk)
  BY <1>1 DEF WriteInv
<1> DEFINE o == OpOf(keys)
<1>4. o = OpAsked(keys)
  BY <1>2 DEF OpOf, OpAsked
<1>5. IsOp(o)
  BY <1>1, <1>2, WriteOp
<1>6. o.Operation = IF method[2] = "PutFeature" THEN Text("PutFeature") ELSE request.op
  BY <1>2 DEF OpOf
<1>7. method[2] # "PutFeature" => request.op \in {Text("Put"), Text("Append")}
  BY <1>1, <1>2, PutAppendFacts DEF IsWrite
<1> HIDE DEF o
<1>8. Length(o.Operation) <= FieldLimit
  BY <1>6, <1>7, Words
<1> WITNESS keys \in MapOrders, junk \in Junk
<1> QED BY <1>3, <1>4, <1>5, <1>8, OpRead DEF o

\* Each replica decodes the operation that the client asked for, and reads the
\* client's feature in it, although the Leader serialized it anew; if a field is
\* larger than decodeOp accepts, it decodes the operation without its client.
THEOREM WritesArrive == FlowSpec => []WriteArrives
<1>1. ASSUME FlowInv, stage = "applied"
      PROVE  \E keys \in MapOrders :
               IF Fits(OpAsked(keys))
               THEN /\ op = OpAsked(keys)
                    /\ method[2] = "PutFeature" => feature = request.feature
               ELSE /\ op.Operation = OpAsked(keys).Operation
                    /\ op.ClientId = <<>> /\ op.RequestId \in Junk
  <2>1. CallInv /\ RequestInv /\ WriteInv
    BY <1>1 DEF FlowInv
  <2>2. Utf8Message(Asks, request)
    BY <1>1, <2>1 DEF RequestInv
  <2>3. PICK keys \in MapOrders, junk \in Junk :
          LET o == OpAsked(keys)
              k == Length(o.Key) <= FieldLimit
              v == k /\ Length(o.Value) <= FieldLimit
              c == v /\ Length(o.ClientId) <= FieldLimit
          IN  /\ IsOp(o) /\ Length(o.Operation) <= FieldLimit
              /\ op = [Operation |-> o.Operation, Key |-> IF k THEN o.Key ELSE <<>>,
                       Value |-> IF v THEN o.Value ELSE <<>>,
                       ClientId |-> IF c THEN o.ClientId ELSE <<>>,
                       RequestId |-> IF c THEN o.RequestId ELSE junk]
    BY <1>1, OpDecoded
  <2> DEFINE o == OpAsked(keys)
  <2> WITNESS keys \in MapOrders
  <2>4. CASE ~Fits(o)
    <3>1. ~(/\ Length(o.Key) <= FieldLimit /\ Length(o.Value) <= FieldLimit
            /\ Length(o.ClientId) <= FieldLimit)
      BY <2>3, <2>4 DEF Fits
    <3> HIDE DEF o
    <3>2. op.Operation = o.Operation /\ op.ClientId = <<>> /\ op.RequestId = junk
      BY <2>3, <3>1 DEF o
    <3> QED BY <2>4, <3>2 DEF o
  <2>5. CASE Fits(o)
    <3>1. op = o
      <4>1. /\ Length(o.Key) <= FieldLimit /\ Length(o.Value) <= FieldLimit
            /\ Length(o.ClientId) <= FieldLimit
        BY <2>5 DEF Fits
      <4>2. o = [Operation |-> o.Operation, Key |-> o.Key, Value |-> o.Value,
                 ClientId |-> o.ClientId, RequestId |-> o.RequestId]
        BY <2>3 DEF IsOp
      <4> HIDE DEF o
      <4> QED BY <2>3, <4>1, <4>2 DEF o
    <3>2. ASSUME method[2] = "PutFeature" PROVE feature = request.feature
      <4> DEFINE v == Serialize(ItemFeature, request.feature, keys)
      <4>1. op.Operation = Text("PutFeature") /\ op.Value = v
        BY <3>1, <3>2 DEF OpAsked
      <4>2. /\ IsFlat(ItemFeature, request.feature, MapKeys)
            /\ Utf8Message(ItemFeature, request.feature)
        BY <2>1, <2>2, <3>2, PutFeatureFacts
      <4>3. Schema(ItemFeature) /\ IsMessage(ItemFeature, request.feature, MapKeys)
        BY <4>2, FlatMessages, ItemFeatureSchema
      <4>4. Parse(ItemFeature, v) = request.feature
        BY <4>2, <4>3, Orders, ParseTrip
      <4>5. request.feature # Failed
        BY <4>3, NotFailed
      <4> HIDE DEF v
      <4>6. feature \in ParseResults(ItemFeature, v, Mixtures)
        BY <1>1, <2>1, <4>1 DEF WriteInv, FeatureBytes
      <4> QED BY <4>4, <4>5, <4>6, ReadOnce
    <3> QED BY <2>5, <3>1, <3>2
  <2> QED BY <2>4, <2>5
<1>2. FlowInv => WriteArrives
  BY <1>1 DEF WriteArrives
<1> QED BY <1>2, FlowInvariant, PTL

\* What the build of the index reads from a value that was put, or appended to a
\* whole one: the old feature with the new one merged into it, or none if one of
\* them cannot be read.
THEOREM AppendsMerge == FlowSpec => []StoredMerges
<1>1. ASSUME FlowInv, stage = "applied", method[2] = "PutAppend"
      PROVE  LET fits == Length(request.key) <= FieldLimit /\ Length(request.value) <= FieldLimit
                 o    == Parse(ItemFeature, old)
                 v    == Parse(ItemFeature, IF fits THEN request.value ELSE <<>>)
             IN  /\ request.op = Text("Put") => feature = v
                 /\ request.op = Text("Append") /\ Whole(old) =>
                       feature = IF o = Failed \/ v = Failed THEN Failed
                                 ELSE MergeFrom(ItemFeature, o, v)
  <2> DEFINE fits == Length(request.key) <= FieldLimit /\ Length(request.value) <= FieldLimit
             w == IF fits THEN request.value ELSE <<>>
             u == old \o w
  <2>1. CallInv /\ WriteInv
    BY <1>1 DEF FlowInv
  <2>2. op.Operation = request.op /\ op.Value = w
    BY <1>1, OpDecoded DEF OpAsked
  <2>3. /\ stored = StoredBytes(op)
        /\ feature \in ParseResults(ItemFeature, FeatureBytes(op, stored), Mixtures)
    BY <1>1, <2>1 DEF WriteInv
  <2>4. /\ request.op \in {Text("Put"), Text("Append")}
        /\ FromSerializer(ItemFeature, request.value)
    BY <1>1, <2>1, PutAppendFacts
  <2>5. FromSerializer(ItemFeature, <<>>)
    BY NoneSeq, NoBytes DEF FromSerializer, NoDefaults, CutLast
  <2>6. FromSerializer(ItemFeature, w)
    BY <2>4, <2>5
  <2>7. FromSerializer(ItemFeature, old)
    BY <1>1, <2>1, StoredAssumption DEF CallInv
  <2> HIDE DEF w
  <2>8. feature \in ParseResults(ItemFeature, stored, Mixtures)
    BY <2>2, <2>3, <2>4, Words DEF FeatureBytes
  <2>9. ASSUME request.op = Text("Put") PROVE feature = Parse(ItemFeature, w)
    <3>1. stored = w
      BY <2>2, <2>3, <2>9, Words DEF StoredBytes
    <3>2. CutLast(w)
      BY <2>6 DEF FromSerializer
    <3> QED BY <2>8, <3>1, <3>2, ReadOnce
  <2>10. ASSUME request.op = Text("Append"), Whole(old)
         PROVE  feature = IF Parse(ItemFeature, old) = Failed \/ Parse(ItemFeature, w) = Failed
                          THEN Failed
                          ELSE MergeFrom(ItemFeature, Parse(ItemFeature, old),
                                         Parse(ItemFeature, w))
    <3>1. stored = u
      BY <2>2, <2>3, <2>10, Words DEF StoredBytes
    <3>2. Parse(ItemFeature, u) =
            IF Parse(ItemFeature, old) = Failed \/ Parse(ItemFeature, w) = Failed
            THEN Failed
            ELSE MergeFrom(ItemFeature, Parse(ItemFeature, old), Parse(ItemFeature, w))
      BY <2>6, <2>7, <2>10, ItemFeatureSchema, ParseBoth
    <3>3. CutLast(u)
      BY <2>6, <2>7, <2>10, CutBehind DEF FromSerializer, IsBytes
    <3> HIDE DEF u
    <3>4. feature = Parse(ItemFeature, u)
      BY <2>8, <3>1, <3>3, ReadOnce
    <3> QED BY <3>2, <3>4
  <2> QED BY <2>9, <2>10 DEF w
<1>2. FlowInv => StoredMerges
  BY <1>1 DEF StoredMerges
<1> QED BY <1>2, FlowInvariant, PTL

\* The caller reads the response that the handler gave, or nothing at all if an
\* id in it is no text.
THEOREM AnswersArrive == FlowSpec => []AnswerArrives
<1>1. ASSUME FlowInv, stage = "done"
      PROVE  answer = IF AllText(ResponseTexts) THEN response ELSE Failed
  <2>1. CallInv /\ AnswerInv
    BY <1>1 DEF FlowInv
  <2>2. /\ response \in Responses(method)
        /\ answer = IF Utf8Message(Answers, response) THEN response ELSE Failed
    BY <1>1, <2>1 DEF AnswerInv
  <2>3. Utf8Message(Answers, response) <=> AllText(ResponseTexts)
    BY <2>1, <2>2, AnswerFacts, ResponseUtf8 DEF Answers
  <2> QED BY <2>2, <2>3
<1>2. FlowInv => AnswerArrives
  BY <1>1 DEF AnswerArrives
<1> QED BY <1>2, FlowInvariant, PTL
=============================================================================
