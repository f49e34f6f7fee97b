-------------------------- MODULE LarsProtoProofs --------------------------
(***************************************************************************)
(* What lars.pb.cc writes, it reads back: the round trip of every message  *)
(* of lars.proto, for every message whose numbers fit an int32, and the    *)
(* agreement of ByteSizeLong with the bytes written.                       *)
(***************************************************************************)
EXTENDS Encoding, WellFoundedInduction, TLAPS

-----------------------------------------------------------------------------
(* What is known of sequences                                              *)

\* The positions of a sequence.
LEMMA SeqLen ==
    ASSUME NEW S, NEW s \in Seq(S)
    PROVE  Len(s) \in Nat /\ DOMAIN s = 1 .. Len(s) /\ s \in [1 .. Len(s) -> S]
OBVIOUS

\* The elements of a sequence.
LEMMA SeqAt == ASSUME NEW S, NEW s \in Seq(S), NEW k \in 1 .. Len(s) PROVE s[k] \in S
OBVIOUS

\* Two sequences, one after the other.
LEMMA SeqConcat ==
    ASSUME NEW S, NEW s \in Seq(S), NEW t \in Seq(S)
    PROVE  /\ s \o t \in Seq(S) /\ Len(s \o t) = Len(s) + Len(t)
           /\ \A k \in 1 .. Len(s) + Len(t) : (s \o t)[k] = IF k <= Len(s) THEN s[k] ELSE t[k - Len(s)]
OBVIOUS

\* A sequence with an empty one before or after it.
LEMMA SeqConcatNone == ASSUME NEW S, NEW s \in Seq(S) PROVE s \o <<>> = s /\ <<>> \o s = s
OBVIOUS

\* Sequences with the same elements are the same.
LEMMA SeqSame ==
    ASSUME NEW S, NEW s \in Seq(S), NEW t \in Seq(S), Len(s) = Len(t),
           \A k \in 1 .. Len(s) : s[k] = t[k]
    PROVE  s = t
OBVIOUS

\* Three sequences, one after the other.
LEMMA SeqAssoc ==
    ASSUME NEW S, NEW s \in Seq(S), NEW t \in Seq(S), NEW u \in Seq(S)
    PROVE  (s \o t) \o u = s \o (t \o u)
OBVIOUS

\* A sequence without its first element.
LEMMA SeqTail ==
    ASSUME NEW S, NEW s \in Seq(S), s # <<>>
    PROVE  /\ Head(s) \in S /\ Tail(s) \in Seq(S) /\ Len(Tail(s)) = Len(s) - 1
           /\ \A k \in 1 .. Len(Tail(s)) : Tail(s)[k] = s[k + 1]
OBVIOUS

\* A part of a sequence.
LEMMA SeqPart ==
    ASSUME NEW S, NEW s, NEW m \in Int, NEW n \in Int, \A k \in m .. n : s[k] \in S
    PROVE  /\ SubSeq(s, m, n) \in Seq(S) /\ Len(SubSeq(s, m, n)) = IF m <= n THEN n - m + 1 ELSE 0
           /\ \A k \in 1 .. n - m + 1 : SubSeq(s, m, n)[k] = s[m + k - 1]
OBVIOUS

\* The part that is all of a sequence.
LEMMA SeqWhole == ASSUME NEW S, NEW s \in Seq(S) PROVE SubSeq(s, 1, Len(s)) = s
OBVIOUS

\* Append, as a concatenation.
LEMMA SeqAppendIs == ASSUME NEW S, NEW s \in Seq(S), NEW e \in S PROVE Append(s, e) = s \o <<e>>
OBVIOUS

\* An empty part.
LEMMA SeqPartNone == ASSUME NEW s, NEW m \in Int, NEW n \in Int, n < m PROVE SubSeq(s, m, n) = <<>>
OBVIOUS

\* A part that is longer by one.
LEMMA SeqPartMore ==
    ASSUME NEW S, NEW s \in Seq(S), NEW m \in 1 .. Len(s), NEW n \in m .. Len(s)
    PROVE  SubSeq(s, m, n) = SubSeq(s, m, n - 1) \o <<s[n]>>
OBVIOUS

-----------------------------------------------------------------------------
(* Induction over numbers                                                  *)

\* A set of numbers has a least one.
LEMMA Least ==
    ASSUME NEW D, D \subseteq Nat, D # {}
    PROVE  \E x \in D : \A y \in D : x <= y
<1> DEFINE less == {p \in Nat \X Nat : p[1] < p[2]}
<1>1. IsWellFoundedOn(less, Nat)
  BY NatLessThanWellFounded DEF OpToRel
<1>2. \E x \in D : \A y \in D : ~(<<y, x>> \in less)
  <2> HIDE DEF less
  <2> QED
    BY <1>1, WFMin, Zenon
<1>3. PICK x \in D : \A y \in D : ~(<<y, x>> \in less)
  BY <1>2
<1>4. ASSUME NEW y \in D PROVE x <= y
  <2>1. x \in Nat /\ y \in Nat /\ <<y, x>> \notin less
    BY <1>3
  <2> QED
    BY <2>1
<1> QED
  BY <1>4

\* A set that holds the first row of a table, and with each row the next, holds
\* them all: how every loop over a table is reasoned about.
LEMMA Climb ==
    ASSUME NEW n \in Nat, NEW S, 0 \in S, \A k \in 0 .. n - 1 : k \in S => k + 1 \in S
    PROVE  \A k \in 0 .. n : k \in S
<1> DEFINE D == {k \in 0 .. n : k \notin S}
<1>1. D \subseteq Nat
  OBVIOUS
<1>2. D = {}
  <2> SUFFICES ASSUME D # {} PROVE FALSE
    OBVIOUS
  <2>1. PICK x \in D : \A y \in D : x <= y
    BY <1>1, Least, Zenon
  <2>2. x # 0 /\ x - 1 \in 0 .. n - 1
    BY <2>1
  <2>3. x - 1 \in S
    BY <2>1, <2>2
  <2> QED
    BY <2>1, <2>2, <2>3
<1> QED
  BY <1>2

\* The same from the last row to the first.
LEMMA Descend ==
    ASSUME NEW n \in Nat, NEW S, n + 1 \in S, \A k \in 1 .. n : k + 1 \in S => k \in S
    PROVE  \A k \in 1 .. n + 1 : k \in S
<1> DEFINE U == {j \in 0 .. n : n + 1 - j \in S}
<1>1. 0 \in U /\ \A j \in 0 .. n - 1 : j \in U => j + 1 \in U
  <2>1. 0 \in U
    OBVIOUS
  <2>2. ASSUME NEW j \in 0 .. n - 1, j \in U PROVE j + 1 \in U
    <3>1. n - j \in 1 .. n /\ (n - j) + 1 = n + 1 - j /\ n + 1 - (j + 1) = n - j
      OBVIOUS
    <3> QED
      BY <2>2, <3>1
  <2> QED
    BY <2>1, <2>2
<1>2. \A j \in 0 .. n : j \in U
  <2> HIDE DEF U
  <2> QED
    BY <1>1, Climb, Zenon
<1>3. ASSUME NEW k \in 1 .. n + 1 PROVE k \in S
  <2>1. n + 1 - k \in 0 .. n /\ n + 1 - (n + 1 - k) = k
    OBVIOUS
  <2> QED
    BY <1>2, <2>1
<1> QED
  BY <1>3

-----------------------------------------------------------------------------
(* Join and Total                                                          *)

Joins(f, n, ss) ==
    /\ f = [i \in 1 .. n + 1 |-> f[i]]
    /\ f[n + 1] = <<>>
    /\ \A i \in 1 .. n : f[i] = ss[i] \o f[i + 1]

Totals(f, n, ns) ==
    /\ f = [i \in 1 .. n + 1 |-> f[i]]
    /\ f[n + 1] = 0
    /\ \A i \in 1 .. n : f[i] = ns[i] + f[i + 1]

\* The end of such a function, from row j on.
JoinsFrom(f, j, n, ss) ==
    /\ f = [i \in j .. n + 1 |-> f[i]]
    /\ f[n + 1] = <<>>
    /\ \A i \in j .. n : f[i] = ss[i] \o f[i + 1]
TotalsFrom(f, j, n, ns) ==
    /\ f = [i \in j .. n + 1 |-> f[i]]
    /\ f[n + 1] = 0
    /\ \A i \in j .. n : f[i] = ns[i] + f[i + 1]

\* What Join computes (the loop of InternalSerializeWithCachedSizesToArray).
LEMMA JoinsExist == ASSUME NEW n \in Nat, NEW ss PROVE \E f : Joins(f, n, ss)
<1> DEFINE S == {j \in 1 .. n + 1 : \E f : JoinsFrom(f, j, n, ss)}
<1>1. n + 1 \in S
  <2> DEFINE f == [i \in n + 1 .. n + 1 |-> <<>>]
  <2>1. n + 1 \in n + 1 .. n + 1 /\ n + 1 \in 1 .. n + 1 /\ \A i \in n + 1 .. n : FALSE
    OBVIOUS
  <2>2. f = [i \in n + 1 .. n + 1 |-> f[i]] /\ f[n + 1] = <<>>
    BY <2>1, Zenon
  <2> HIDE DEF f
  <2> QED
    BY <2>1, <2>2, Zenon DEF JoinsFrom
<1>2. ASSUME NEW j \in 1 .. n, j + 1 \in S PROVE j \in S
  <2>1. PICK f : JoinsFrom(f, j + 1, n, ss)
    BY <1>2, Zenon
  <2> DEFINE g == [i \in j .. n + 1 |-> IF i = j THEN ss[j] \o f[j + 1] ELSE f[i]]
  <2>2. g = [i \in j .. n + 1 |-> g[i]]
    BY Zenon
  <2>3. \A i \in j .. n + 1 : g[i] = IF i = j THEN ss[j] \o f[j + 1] ELSE f[i]
    BY Zenon
  <2> HIDE DEF g
  <2>4. n + 1 \in j .. n + 1 /\ n + 1 # j /\ j \in 1 .. n + 1
    OBVIOUS
  <2>5. g[n + 1] = <<>>
    BY <2>1, <2>3, <2>4, Zenon DEF JoinsFrom
  <2>6. ASSUME NEW i \in j .. n PROVE g[i] = ss[i] \o g[i + 1]
    <3>1. i \in j .. n + 1 /\ i + 1 \in j .. n + 1 /\ i + 1 # j /\ (i # j => i \in j + 1 .. n)
      OBVIOUS
    <3>2. g[i + 1] = f[i + 1] /\ g[i] = IF i = j THEN ss[j] \o f[j + 1] ELSE f[i]
      BY <2>3, <3>1, Zenon
    <3> QED
      BY <2>1, <3>1, <3>2, Zenon DEF JoinsFrom
  <2>7. JoinsFrom(g, j, n, ss)
    BY <2>2, <2>5, <2>6, Zenon DEF JoinsFrom
  <2> QED
    BY <2>4, <2>7, Zenon
<1> HIDE DEF S
<1>3. \A k \in 1 .. n + 1 : k \in S
  BY <1>1, <1>2, Descend, Zenon
<1>4. 1 \in S
  BY <1>3
<1> QED
  BY <1>4, Zenon DEF S, JoinsFrom, Joins

\* Join is the first of what such a function gives.
LEMMA JoinIs ==
    ASSUME NEW n \in Nat, NEW ss
    PROVE  \E f : Joins(f, n, ss) /\ Join(n, ss) = f[1]
<1> DEFINE Rec(f) == f = [i \in 1 .. n + 1 |-> IF i > n THEN <<>> ELSE ss[i] \o f[i + 1]]
           from == CHOOSE f : Rec(f)
<1>1. /\ \A i \in 1 .. n + 1 : i > n => i = n + 1
      /\ \A i \in 1 .. n + 1 : ~(i > n) => i \in 1 .. n
      /\ \A i \in 1 .. n : i \in 1 .. n + 1 /\ ~(i > n)
      /\ n + 1 \in 1 .. n + 1 /\ n + 1 > n
  OBVIOUS
<1>2. PICK f : Joins(f, n, ss)
  BY JoinsExist, Zenon
<1>3. Rec(f)
  <2>1. \A i \in 1 .. n + 1 : f[i] = IF i > n THEN <<>> ELSE ss[i] \o f[i + 1]
    BY <1>1, <1>2, Zenon DEF Joins
  <2>2. f = [i \in 1 .. n + 1 |-> f[i]]
    BY <1>2, Zenon DEF Joins
  <2> QED
    BY <2>1, <2>2, Zenon
<1>4. Rec(from)
  BY <1>3, Zenon
<1>5. Join(n, ss) = from[1]
  BY Zenon DEF Join
<1> HIDE DEF from
<1>6. \A i \in 1 .. n + 1 : from[i] = IF i > n THEN <<>> ELSE ss[i] \o from[i + 1]
  BY <1>4, Zenon
<1>7. from = [i \in 1 .. n + 1 |-> from[i]]
  BY <1>4, <1>6, Zenon
<1>8. Joins(from, n, ss)
  BY <1>1, <1>6, <1>7, Zenon DEF Joins
<1> QED
  BY <1>5, <1>8, Zenon

\* What Total computes (the loop of ByteSizeLong).
LEMMA TotalsExist == ASSUME NEW n \in Nat, NEW ns PROVE \E f : Totals(f, n, ns)
<1> DEFINE S == {j \in 1 .. n + 1 : \E f : TotalsFrom(f, j, n, ns)}
<1>1. n + 1 \in S
  <2> DEFINE f == [i \in n + 1 .. n + 1 |-> 0]
  <2>1. n + 1 \in n + 1 .. n + 1 /\ n + 1 \in 1 .. n + 1 /\ \A i \in n + 1 .. n : FALSE
    OBVIOUS
  <2>2. f = [i \in n + 1 .. n + 1 |-> f[i]] /\ f[n + 1] = 0
    BY <2>1, Zenon
  <2> HIDE DEF f
  <2> QED
    BY <2>1, <2>2, Zenon DEF TotalsFrom
<1>2. ASSUME NEW j \in 1 .. n, j + 1 \in S PROVE j \in S
  <2>1. PICK f : TotalsFrom(f, j + 1, n, ns)
    BY <1>2, Zenon
  <2> DEFINE g == [i \in j .. n + 1 |-> IF i = j THEN ns[j] + f[j + 1] ELSE f[i]]
  <2>2. g = [i \in j .. n + 1 |-> g[i]]
    BY Zenon
  <2>3. \A i \in j .. n + 1 : g[i] = IF i = j THEN ns[j] + f[j + 1] ELSE f[i]
    BY Zenon
  <2> HIDE DEF g
  <2>4. n + 1 \in j .. n + 1 /\ n + 1 # j /\ j \in 1 .. n + 1
    OBVIOUS
  <2>5. g[n + 1] = 0
    BY <2>1, <2>3, <2>4, Zenon DEF TotalsFrom
  <2>6. ASSUME NEW i \in j .. n PROVE g[i] = ns[i] + g[i + 1]
    <3>1. i \in j .. n + 1 /\ i + 1 \in j .. n + 1 /\ i + 1 # j /\ (i # j => i \in j + 1 .. n)
      OBVIOUS
    <3>2. g[i + 1] = f[i + 1] /\ g[i] = IF i = j THEN ns[j] + f[j + 1] ELSE f[i]
      BY <2>3, <3>1, Zenon
    <3> QED
      BY <2>1, <3>1, <3>2, Zenon DEF TotalsFrom
  <2>7. TotalsFrom(g, j, n, ns)
    BY <2>2, <2>5, <2>6, Zenon DEF TotalsFrom
  <2> QED
    BY <2>4, <2>7, Zenon
<1> HIDE DEF S
<1>3. \A k \in 1 .. n + 1 : k \in S
  BY <1>1, <1>2, Descend, Zenon
<1>4. 1 \in S
  BY <1>3
<1> QED
  BY <1>4, Zenon DEF S, TotalsFrom, Totals

\* Total is the first of what such a function gives.
LEMMA TotalIs ==
    ASSUME NEW n \in Nat, NEW ns
    PROVE  \E f : Totals(f, n, ns) /\ Total(n, ns) = f[1]
<1> DEFINE Rec(f) == f = [i \in 1 .. n + 1 |-> IF i > n THEN 0 ELSE ns[i] + f[i + 1]]
           from == CHOOSE f : Rec(f)
<1>1. /\ \A i \in 1 .. n + 1 : i > n => i = n + 1
      /\ \A i \in 1 .. n + 1 : ~(i > n) => i \in 1 .. n
      /\ \A i \in 1 .. n : i \in 1 .. n + 1 /\ ~(i > n)
      /\ n + 1 \in 1 .. n + 1 /\ n + 1 > n
  OBVIOUS
<1>2. PICK f : Totals(f, n, ns)
  BY TotalsExist, Zenon
<1>3. Rec(f)
  <2>1. \A i \in 1 .. n + 1 : f[i] = IF i > n THEN 0 ELSE ns[i] + f[i + 1]
    BY <1>1, <1>2, Zenon DEF Totals
  <2>2. f = [i \in 1 .. n + 1 |-> f[i]]
    BY <1>2, Zenon DEF Totals
  <2> QED
    BY <2>1, <2>2, Zenon
<1>4. Rec(from)
  BY <1>3, Zenon
<1>5. Total(n, ns) = from[1]
  BY Zenon DEF Total
<1> HIDE DEF from
<1>6. \A i \in 1 .. n + 1 : from[i] = IF i > n THEN 0 ELSE ns[i] + from[i + 1]
  BY <1>4, Zenon
<1>7. from = [i \in 1 .. n + 1 |-> from[i]]
  BY <1>4, <1>6, Zenon
<1>8. Totals(from, n, ns)
  BY <1>1, <1>6, <1>7, Zenon DEF Totals
<1> QED
  BY <1>5, <1>8, Zenon

-----------------------------------------------------------------------------
(* The loop of MergePartialFromCodedStream: the states after each turn     *)

InnerRuns(at, T, b, msg, n) ==
    /\ at = [k \in 0 .. n |-> at[k]]
    /\ at[0] = Start(b, msg)
    /\ \A k \in 1 .. n : at[k] = IF Ended(at[k - 1]) THEN at[k - 1]
                                ELSE InnerTurn(T, at[k - 1], Field(at[k - 1].rest))

\* There is such a function, for a message inside another.
LEMMA InnerRunsExist ==
    ASSUME NEW n \in Nat, NEW T, NEW b, NEW msg PROVE \E at : InnerRuns(at, T, b, msg, n)
<1> DEFINE S == {j \in 0 .. n : \E at : InnerRuns(at, T, b, msg, j)}
<1>1. 0 \in S
  <2> DEFINE f == [k \in 0 .. 0 |-> Start(b, msg)]
  <2>1. 0 \in 0 .. 0 /\ 0 \in 0 .. n /\ \A k \in 1 .. 0 : FALSE
    OBVIOUS
  <2>2. f = [k \in 0 .. 0 |-> f[k]] /\ f[0] = Start(b, msg)
    BY <2>1, Zenon
  <2> HIDE DEF f
  <2> QED
    BY <2>1, <2>2, Zenon DEF InnerRuns
<1>2. ASSUME NEW j \in 0 .. n - 1, j \in S PROVE j + 1 \in S
  <2>1. PICK f : InnerRuns(f, T, b, msg, j)
    BY <1>2, Zenon
  <2> DEFINE e == IF Ended(f[j]) THEN f[j] ELSE InnerTurn(T, f[j], Field(f[j].rest))
             g == [k \in 0 .. j + 1 |-> IF k = j + 1 THEN e ELSE f[k]]
  <2> HIDE DEF e
  <2>2. g = [k \in 0 .. j + 1 |-> g[k]]
    BY Zenon
  <2>3. \A k \in 0 .. j + 1 : g[k] = IF k = j + 1 THEN e ELSE f[k]
    BY Zenon
  <2> HIDE DEF g
  <2>4. 0 \in 0 .. j + 1 /\ 0 # j + 1 /\ j + 1 \in 0 .. n
    OBVIOUS
  <2>5. g[0] = Start(b, msg)
    BY <2>1, <2>3, <2>4, Zenon DEF InnerRuns
  <2>6. ASSUME NEW k \in 1 .. j + 1
        PROVE  g[k] = IF Ended(g[k - 1]) THEN g[k - 1]
                      ELSE InnerTurn(T, g[k - 1], Field(g[k - 1].rest))
    <3>1. /\ k \in 0 .. j + 1 /\ k - 1 \in 0 .. j + 1 /\ k - 1 # j + 1
          /\ k # j + 1 => k \in 1 .. j
          /\ k = j + 1 => k - 1 = j
      OBVIOUS
    <3>2. g[k - 1] = f[k - 1] /\ g[k] = IF k = j + 1 THEN e ELSE f[k]
      BY <2>3, <3>1, Zenon
    <3>3. CASE k = j + 1
      <4>1. g[k] = e /\ g[k - 1] = f[j]
        BY <3>1, <3>2, <3>3, Zenon
      <4> QED
        BY <4>1, Zenon DEF e
    <3>4. CASE k # j + 1
      <4>1. f[k] = IF Ended(f[k - 1]) THEN f[k - 1]
                   ELSE InnerTurn(T, f[k - 1], Field(f[k - 1].rest))
        BY <2>1, <3>1, <3>4, Zenon DEF InnerRuns
      <4> QED
        BY <3>2, <3>4, <4>1, Zenon
    <3> QED
      BY <3>3, <3>4, Zenon
  <2>7. InnerRuns(g, T, b, msg, j + 1)
    BY <2>2, <2>5, <2>6, Zenon DEF InnerRuns
  <2> QED
    BY <2>4, <2>7, Zenon
<1> HIDE DEF S
<1>3. \A k \in 0 .. n : k \in S
  BY <1>1, <1>2, Climb, Zenon
<1>4. n \in S
  BY <1>3
<1> QED
  BY <1>4, Zenon DEF S

\* Parsing gives a state of such a run at which the loop has ended.
LEMMA InnerPartialIs ==
    ASSUME NEW T, NEW b, Len(b) \in Nat, NEW msg
    PROVE  \E at : /\ InnerRuns(at, T, b, msg, Len(b))
                   /\ InnerPartial(T, b, msg) = at[CHOOSE k \in 0 .. Len(b) : Ended(at[k])]
<1> DEFINE n == Len(b)
           Rec(f) == f = [k \in 0 .. n |-> IF k = 0 THEN Start(b, msg)
                            ELSE IF Ended(f[k - 1]) THEN f[k - 1]
                            ELSE InnerTurn(T, f[k - 1], Field(f[k - 1].rest))]
           at == CHOOSE f : Rec(f)
<1>1. 0 \in 0 .. n /\ \A k \in 0 .. n : k # 0 => k \in 1 .. n
  OBVIOUS
<1>2. \A k \in 1 .. n : k \in 0 .. n /\ k # 0
  OBVIOUS
<1>3. PICK f : InnerRuns(f, T, b, msg, n)
  BY InnerRunsExist, Zenon
<1>4. Rec(f)
  <2>1. \A k \in 0 .. n : f[k] = IF k = 0 THEN Start(b, msg)
                                 ELSE IF Ended(f[k - 1]) THEN f[k - 1]
                                 ELSE InnerTurn(T, f[k - 1], Field(f[k - 1].rest))
    BY <1>1, <1>3, Zenon DEF InnerRuns
  <2>2. f = [k \in 0 .. n |-> f[k]]
    BY <1>3, Zenon DEF InnerRuns
  <2> QED
    BY <2>1, <2>2, Zenon
<1>5. Rec(at)
  BY <1>4, Zenon
<1>6. InnerPartial(T, b, msg) = at[CHOOSE k \in 0 .. Len(b) : Ended(at[k])]
  BY Zenon DEF InnerPartial
<1> HIDE DEF at
<1>7. \A k \in 0 .. n : at[k] = IF k = 0 THEN Start(b, msg)
                               ELSE IF Ended(at[k - 1]) THEN at[k - 1]
                               ELSE InnerTurn(T, at[k - 1], Field(at[k - 1].rest))
  BY <1>5, Zenon
<1>8. at = [k \in 0 .. n |-> at[k]]
  BY <1>5, <1>7, Zenon
<1>9. InnerRuns(at, T, b, msg, n)
  BY <1>1, <1>2, <1>7, <1>8, Zenon DEF InnerRuns
<1> QED
  BY <1>6, <1>9, Zenon

Runs(at, T, b, msg, n) ==
    /\ at = [k \in 0 .. n |-> at[k]]
    /\ at[0] = Start(b, msg)
    /\ \A k \in 1 .. n : at[k] = IF Ended(at[k - 1]) THEN at[k - 1]
                                ELSE Turn(T, at[k - 1], Field(at[k - 1].rest))

\* There is such a function, for a message that is not inside another.
LEMMA RunsExist ==
    ASSUME NEW n \in Nat, NEW T, NEW b, NEW msg PROVE \E at : Runs(at, T, b, msg, n)
<1> DEFINE S == {j \in 0 .. n : \E at : Runs(at, T, b, msg, j)}
<1>1. 0 \in S
  <2> DEFINE f == [k \in 0 .. 0 |-> Start(b, msg)]
  <2>1. 0 \in 0 .. 0 /\ 0 \in 0 .. n /\ \A k \in 1 .. 0 : FALSE
    OBVIOUS
  <2>2. f = [k \in 0 .. 0 |-> f[k]] /\ f[0] = Start(b, msg)
    BY <2>1, Zenon
  <2> HIDE DEF f
  <2> QED
    BY <2>1, <2>2, Zenon DEF Runs
<1>2. ASSUME NEW j \in 0 .. n - 1, j \in S PROVE j + 1 \in S
  <2>1. PICK f : Runs(f, T, b, msg, j)
    BY <1>2, Zenon
  <2> DEFINE e == IF Ended(f[j]) THEN f[j] ELSE Turn(T, f[j], Field(f[j].rest))
             g == [k \in 0 .. j + 1 |-> IF k = j + 1 THEN e ELSE f[k]]
  <2> HIDE DEF e
  <2>2. g = [k \in 0 .. j + 1 |-> g[k]]
    BY Zenon
  <2>3. \A k \in 0 .. j + 1 : g[k] = IF k = j + 1 THEN e ELSE f[k]
    BY Zenon
  <2> HIDE DEF g
  <2>4. 0 \in 0 .. j + 1 /\ 0 # j + 1 /\ j + 1 \in 0 .. n
    OBVIOUS
  <2>5. g[0] = Start(b, msg)
    BY <2>1, <2>3, <2>4, Zenon DEF Runs
  <2>6. ASSUME NEW k \in 1 .. j + 1
        PROVE  g[k] = IF Ended(g[k - 1]) THEN g[k - 1]
                      ELSE Turn(T, g[k - 1], Field(g[k - 1].rest))
    <3>1. /\ k \in 0 .. j + 1 /\ k - 1 \in 0 .. j + 1 /\ k - 1 # j + 1
          /\ k # j + 1 => k \in 1 .. j
          /\ k = j + 1 => k - 1 = j
      OBVIOUS
    <3>2. g[k - 1] = f[k - 1] /\ g[k] = IF k = j + 1 THEN e ELSE f[k]
      BY <2>3, <3>1, Zenon
    <3>3. CASE k = j + 1
      <4>1. g[k] = e /\ g[k - 1] = f[j]
        BY <3>1, <3>2, <3>3, Zenon
      <4> QED
        BY <4>1, Zenon DEF e
    <3>4. CASE k # j + 1
      <4>1. f[k] = IF Ended(f[k - 1]) THEN f[k - 1]
                   ELSE Turn(T, f[k - 1], Field(f[k - 1].rest))
        BY <2>1, <3>1, <3>4, Zenon DEF Runs
      <4> QED
        BY <3>2, <3>4, <4>1, Zenon
    <3> QED
      BY <3>3, <3>4, Zenon
  <2>7. Runs(g, T, b, msg, j + 1)
    BY <2>2, <2>5, <2>6, Zenon DEF Runs
  <2> QED
    BY <2>4, <2>7, Zenon
<1> HIDE DEF S
<1>3. \A k \in 0 .. n : k \in S
  BY <1>1, <1>2, Climb, Zenon
<1>4. n \in S
  BY <1>3
<1> QED
  BY <1>4, Zenon DEF S

\* Parsing gives a state of such a run at which the loop has ended.
LEMMA MergePartialIs ==
    ASSUME NEW T, NEW b, Len(b) \in Nat, NEW msg
    PROVE  \E at : /\ Runs(at, T, b, msg, Len(b))
                   /\ MergePartial(T, b, msg) = at[CHOOSE k \in 0 .. Len(b) : Ended(at[k])]
<1> DEFINE n == Len(b)
           Rec(f) == f = [k \in 0 .. n |-> IF k = 0 THEN Start(b, msg)
                            ELSE IF Ended(f[k - 1]) THEN f[k - 1]
                            ELSE Turn(T, f[k - 1], Field(f[k - 1].rest))]
           at == CHOOSE f : Rec(f)
<1>1. 0 \in 0 .. n /\ \A k \in 0 .. n : k # 0 => k \in 1 .. n
  OBVIOUS
<1>2. \A k \in 1 .. n : k \in 0 .. n /\ k # 0
  OBVIOUS
<1>3. PICK f : Runs(f, T, b, msg, n)
  BY RunsExist, Zenon
<1>4. Rec(f)
  <2>1. \A k \in 0 .. n : f[k] = IF k = 0 THEN Start(b, msg)
                                 ELSE IF Ended(f[k - 1]) THEN f[k - 1]
                                 ELSE Turn(T, f[k - 1], Field(f[k - 1].rest))
    BY <1>1, <1>3, Zenon DEF Runs
  <2>2. f = [k \in 0 .. n |-> f[k]]
    BY <1>3, Zenon DEF Runs
  <2> QED
    BY <2>1, <2>2, Zenon
<1>5. Rec(at)
  BY <1>4, Zenon
<1>6. MergePartial(T, b, msg) = at[CHOOSE k \in 0 .. Len(b) : Ended(at[k])]
  BY Zenon DEF MergePartial
<1> HIDE DEF at
<1>7. \A k \in 0 .. n : at[k] = IF k = 0 THEN Start(b, msg)
                               ELSE IF Ended(at[k - 1]) THEN at[k - 1]
                               ELSE Turn(T, at[k - 1], Field(at[k - 1].rest))
  BY <1>5, Zenon
<1>8. at = [k \in 0 .. n |-> at[k]]
  BY <1>5, <1>7, Zenon
<1>9. Runs(at, T, b, msg, n)
  BY <1>1, <1>2, <1>7, <1>8, Zenon DEF Runs
<1> QED
  BY <1>6, <1>9, Zenon

\* s is reached with as many turns left as there are bytes left.
Reached(at, n, s) == \E k \in 0 .. n : at[k] = s /\ k + Len(s.rest) <= n

\* Once the loop has ended nothing changes any more.
LEMMA Settled ==
    ASSUME NEW at, NEW n \in Nat, \A k \in 1 .. n : Ended(at[k - 1]) => at[k] = at[k - 1],
           NEW s, Reached(at, n, s), Ended(s)
    PROVE  at[CHOOSE k \in 0 .. n : Ended(at[k])] = s
<1>1. ASSUME NEW j \in 0 .. n, Ended(at[j]), NEW k \in 0 .. n, j <= k PROVE at[k] = at[j]
  <2> DEFINE S == {i \in 0 .. n - j : at[j + i] = at[j]}
  <2>1. 0 \in S
    OBVIOUS
  <2>2. ASSUME NEW i \in 0 .. (n - j) - 1, i \in S PROVE i + 1 \in S
    <3>1. j + (i + 1) \in 1 .. n /\ (j + (i + 1)) - 1 = j + i /\ i + 1 \in 0 .. n - j
      OBVIOUS
    <3>2. at[j + i] = at[j]
      BY <2>2, Zenon
    <3>3. at[j + (i + 1)] = at[j + i]
      BY <1>1, <3>1, <3>2, Zenon
    <3> QED
      BY <3>1, <3>2, <3>3, Zenon
  <2> HIDE DEF S
  <2>3. n - j \in Nat
    OBVIOUS
  <2>4. \A i \in 0 .. n - j : i \in S
    BY <2>1, <2>2, <2>3, Climb, Zenon
  <2>5. k - j \in 0 .. n - j /\ j + (k - j) = k
    BY <1>1
  <2> QED
    BY <2>4, <2>5 DEF S
<1>2. PICK j \in 0 .. n : at[j] = s
  BY Zenon DEF Reached
<1> DEFINE c == CHOOSE k \in 0 .. n : Ended(at[k])
<1>3. c \in 0 .. n /\ Ended(at[c])
  BY <1>2, Zenon
<1> HIDE DEF c
<1>4. j <= c \/ c <= j
  BY <1>3
<1>5. at[c] = s
  BY <1>1, <1>2, <1>3, <1>4, Zenon
<1> QED
  BY <1>5, Zenon DEF c

\* A turn that takes bytes leads on.
LEMMA InnerOn ==
    ASSUME NEW at, NEW T, NEW b, NEW msg, NEW n \in Nat, InnerRuns(at, T, b, msg, n),
           NEW s, Reached(at, n, s), ~Ended(s),
           NEW t, t = InnerTurn(T, s, Field(s.rest)),
           Len(s.rest) \in Nat, Len(t.rest) \in Nat, Len(t.rest) < Len(s.rest)
    PROVE  Reached(at, n, t)
<1>1. PICK k \in 0 .. n : at[k] = s /\ k + Len(s.rest) <= n
  BY Zenon DEF Reached
<1>2. k + 1 \in 1 .. n /\ (k + 1) - 1 = k /\ k + 1 \in 0 .. n /\ (k + 1) + Len(t.rest) <= n
  <2> DEFINE x == Len(s.rest)
             y == Len(t.rest)
  <2>1. x \in Nat /\ y \in Nat /\ y < x /\ k + x <= n
    BY <1>1, Zenon
  <2> HIDE DEF x, y
  <2>2. k + 1 \in 1 .. n /\ (k + 1) - 1 = k /\ k + 1 \in 0 .. n /\ (k + 1) + y <= n
    BY <2>1
  <2> QED
    BY <2>2, Zenon DEF y
<1>3. at[k + 1] = t
  BY <1>1, <1>2, Zenon DEF InnerRuns
<1> QED
  BY <1>2, <1>3, Zenon DEF Reached

\* The same of a message that is not inside another.
LEMMA On ==
    ASSUME NEW at, NEW T, NEW b, NEW msg, NEW n \in Nat, Runs(at, T, b, msg, n),
           NEW s, Reached(at, n, s), ~Ended(s),
           NEW t, t = Turn(T, s, Field(s.rest)),
           Len(s.rest) \in Nat, Len(t.rest) \in Nat, Len(t.rest) < Len(s.rest)
    PROVE  Reached(at, n, t)
<1>1. PICK k \in 0 .. n : at[k] = s /\ k + Len(s.rest) <= n
  BY Zenon DEF Reached
<1>2. k + 1 \in 1 .. n /\ (k + 1) - 1 = k /\ k + 1 \in 0 .. n /\ (k + 1) + Len(t.rest) <= n
  <2> DEFINE x == Len(s.rest)
             y == Len(t.rest)
  <2>1. x \in Nat /\ y \in Nat /\ y < x /\ k + x <= n
    BY <1>1, Zenon
  <2> HIDE DEF x, y
  <2>2. k + 1 \in 1 .. n /\ (k + 1) - 1 = k /\ k + 1 \in 0 .. n /\ (k + 1) + y <= n
    BY <2>1
  <2> QED
    BY <2>2, Zenon DEF y
<1>3. at[k + 1] = t
  BY <1>1, <1>2, Zenon DEF Runs
<1> QED
  BY <1>2, <1>3, Zenon DEF Reached

-----------------------------------------------------------------------------
(* Varints                                                                 *)

\* The powers of 128 that weigh the groups of a varint.
LEMMA Powers ==
    /\ Power[1] = 1 /\ Power[2] = 128 /\ Power[3] = 16384
    /\ Power[4] = 2097152 /\ Power[5] = 268435456
BY DEF Power

\* A number has one to ten groups of 7 bits, five unless it is negative.
LEMMA VarintSizes ==
    ASSUME NEW n \in INT32
    PROVE  /\ VarintSize(n) \in Int /\ 1 <= VarintSize(n) /\ VarintSize(n) <= 10
           /\ n >= 0 => VarintSize(n) <= 5
BY Powers DEF VarintSize, INT32

\* A group of a varint has seven bits.
LEMMA Groups ==
    ASSUME NEW n \in INT32, NEW k \in 1 .. 10
    PROVE  Group(n, k) \in Int /\ 0 <= Group(n, k) /\ Group(n, k) < 128
<1>1. n \in Int
  BY DEF INT32
<1>2. k \in 1 .. 5 => Power[k] \in Nat \ {0}
  BY Powers
<1>3. CASE k <= 5
  <2>1. n \div Power[k] \in Int
    BY <1>1, <1>2, <1>3
  <2> QED
    BY <1>3, <2>1 DEF Group
<1>4. CASE ~(k <= 5)
  BY <1>4 DEF Group
<1> QED
  BY <1>3, <1>4

\* The bytes of a number: all but the last have their top bit set.
LEMMA VarintBytes ==
    ASSUME NEW n \in INT32
    PROVE  /\ Varint(n) \in Seq(Int) /\ Len(Varint(n)) = VarintSize(n)
           /\ \A k \in 1 .. VarintSize(n) - 1 : Varint(n)[k] = Group(n, k) + 128
           /\ VarintSize(n) # 10 => Varint(n)[VarintSize(n)] = Group(n, VarintSize(n))
           /\ VarintSize(n) = 10 => Varint(n)[10] = 1
<1> DEFINE size == VarintSize(n)
           v == Varint(n)
<1>1. size \in Int /\ 1 <= size /\ size <= 10
  BY VarintSizes, Zenon
<1>2. v = [k \in 1 .. size |-> IF k = 10 THEN 1 ELSE Group(n, k) + (IF k < size THEN 128 ELSE 0)]
  BY Zenon DEF Varint
<1> HIDE DEF size, v
<1>3. \A k \in 1 .. size : Group(n, k) \in Int
  BY <1>1, Groups
<1>4. v \in [1 .. size -> Int]
  BY <1>2, <1>3
<1>5. v \in Seq(Int) /\ Len(v) = size
  BY <1>1, <1>4
<1>6. \A k \in 1 .. size - 1 : v[k] = Group(n, k) + 128
  BY <1>1, <1>2, <1>3
<1>7. (size # 10 => v[size] = Group(n, size)) /\ (size = 10 => v[10] = 1)
  BY <1>1, <1>2, <1>3
<1> QED
  BY <1>5, <1>6, <1>7, Zenon DEF size, v

\* Five groups of an int32, the last with its sign, make the int32 again.
LEMMA Regroup ==
    ASSUME NEW n \in INT32
    PROVE  n = Group(n, 1) + 128 * Group(n, 2) + 16384 * Group(n, 3) + 2097152 * Group(n, 4)
               + 268435456 * (((Group(n, 5) + 8) % 16) - 8)
<1> DEFINE q1 == n \div 128
           q2 == n \div 16384
           q3 == n \div 2097152
           q4 == n \div 268435456
<1>1. n \in Int /\ -2147483648 <= n /\ n <= 2147483647
  BY DEF INT32
<1>2. /\ Group(n, 1) = n % 128 /\ Group(n, 2) = q1 % 128 /\ Group(n, 3) = q2 % 128
      /\ Group(n, 4) = q3 % 128 /\ Group(n, 5) = q4 % 128
  BY <1>1, Powers DEF Group
<1>3. /\ q1 \in Int /\ q2 \in Int /\ q3 \in Int /\ q4 \in Int
      /\ n = (n % 128) + 128 * q1 /\ q1 = (q1 % 128) + 128 * q2
      /\ q2 = (q2 % 128) + 128 * q3 /\ q3 = (q3 % 128) + 128 * q4
      /\ -8 <= q4 /\ q4 <= 7
  BY <1>1
<1> HIDE DEF q1, q2, q3, q4
<1>4. (((q4 % 128) + 8) % 16) - 8 = q4
  BY <1>3
<1> QED
  BY <1>1, <1>2, <1>3, <1>4

\* ReadVarint reads back what WriteVarint has written, whatever follows it.
LEMMA VarintRead ==
    ASSUME NEW n \in INT32, NEW r \in Seq(Int)
    PROVE  /\ VarintLength(Varint(n) \o r) = VarintSize(n)
           /\ Int32(Varint(n) \o r) = n
<1> DEFINE size == VarintSize(n)
           v == Varint(n)
           b == v \o r
<1>1. size \in Int /\ 1 <= size /\ size <= 10
  BY VarintSizes, Zenon
<1>2. /\ v \in Seq(Int) /\ Len(v) = size
      /\ \A k \in 1 .. size - 1 : v[k] = Group(n, k) + 128
      /\ size # 10 => v[size] = Group(n, size)
      /\ size = 10 => v[10] = 1
  BY VarintBytes, Zenon
<1> HIDE DEF size, v
<1>3. ASSUME NEW k \in 1 .. size
      PROVE  Group(n, k) \in Int /\ 0 <= Group(n, k) /\ Group(n, k) < 128
  <2>1. k \in 1 .. 10
    BY <1>1
  <2> QED
    BY <2>1, Groups, Zenon
<1>5. Len(b) \in Nat /\ Len(b) >= size /\ \A k \in 1 .. size : b[k] = v[k]
  BY <1>2, <1>1
<1> HIDE DEF b
<1>6. ASSUME NEW k \in 1 .. size - 1 PROVE b[k] = Group(n, k) + 128 /\ b[k] >= 128
  <2>1. k \in 1 .. size
    BY <1>1
  <2>2. b[k] = Group(n, k) + 128
    BY <1>2, <1>5, <2>1, Zenon
  <2> QED
    BY <1>3, <2>1, <2>2
<1>7. b[size] < 128 /\ (size # 10 => b[size] = Group(n, size))
  <2>1. size \in 1 .. size
    BY <1>1
  <2>2. b[size] = v[size]
    BY <1>5, <2>1, Zenon
  <2>3. CASE size = 10
    BY <1>2, <2>2, <2>3
  <2>4. CASE size # 10
    BY <1>2, <1>3, <2>1, <2>2, <2>4
  <2> QED
    BY <2>3, <2>4, Zenon
<1>8. size \in 1 .. Len(b) /\ EndsAt(b, size)
  BY <1>1, <1>5, <1>6, <1>7 DEF EndsAt
<1>9. ASSUME NEW k \in 1 .. Len(b), EndsAt(b, k) PROVE k = size
  <2>1. ~(k < size)
    <3> SUFFICES ASSUME k < size PROVE FALSE
      OBVIOUS
    <3>1. k \in 1 .. size - 1 /\ k \in 1 .. size
      BY <1>1
    <3>2. b[k] = Group(n, k) + 128 /\ b[k] < 128
      BY <1>6, <1>9, <3>1, Zenon DEF EndsAt
    <3> QED
      BY <1>3, <3>1, <3>2
  <2>2. ~(size < k)
    <3> SUFFICES ASSUME size < k PROVE FALSE
      OBVIOUS
    <3>1. size \in 1 .. k - 1 /\ size \in 1 .. size
      BY <1>1
    <3>2. b[size] >= 128 /\ b[size] = v[size]
      BY <1>5, <1>9, <3>1, Zenon DEF EndsAt
    <3>3. b[size] \in Int
      BY <1>2, <3>1, <3>2
    <3> QED
      BY <1>7, <3>2, <3>3
  <2> QED
    BY <1>1, <2>1, <2>2
<1>10. VarintLength(b) = size
  BY <1>8, <1>9, Zenon DEF VarintLength
<1> DEFINE at(k) == IF k <= size THEN b[k] % 128 ELSE 0
<1>11. Int32(b) = at(1) + Power[2] * at(2) + Power[3] * at(3) + Power[4] * at(4)
                  + Power[5] * (((at(5) + 8) % 16) - 8)
  BY <1>10 DEF Int32
<1>13. ASSUME NEW k \in 1 .. 5 PROVE at(k) = Group(n, k)
  <2>1. CASE k <= size - 1
    <3>1. k \in 1 .. size - 1 /\ k \in 1 .. size /\ k <= size
      BY <1>1, <2>1
    <3>2. at(k) = (Group(n, k) + 128) % 128
      BY <1>6, <3>1, Zenon
    <3> QED
      BY <1>3, <3>1, <3>2
  <2>2. CASE k = size
    <3>1. k \in 1 .. size /\ k # 10 /\ k <= size
      BY <1>1, <2>2
    <3>2. at(k) = Group(n, k) % 128
      BY <1>7, <2>2, <3>1, Zenon
    <3> QED
      BY <1>3, <3>1, <3>2
  <2>3. CASE k > size
    <3>1. n \in Int /\ 0 <= n /\ n < Power[k] /\ Power[k] \in Nat \ {0}
      BY <2>3, Powers DEF size, VarintSize, INT32
    <3>2. n \div Power[k] = 0
      <4> DEFINE q == Power[k]
      <4>1. q \in Nat \ {0} /\ n < q
        BY <3>1
      <4> HIDE DEF q
      <4>2. n \div q = 0
        BY <3>1, <4>1
      <4> QED
        BY <4>2, Zenon DEF q
    <3>3. Group(n, k) = 0
      BY <3>2 DEF Group
    <3>4. ~(k <= size)
      BY <1>1, <2>3
    <3> QED
      BY <3>3, <3>4, Zenon
  <2> QED
    BY <1>1, <2>1, <2>2, <2>3
<1> HIDE DEF at
<1>12. Int32(b) = n
  BY <1>11, <1>13, Powers, Regroup
<1> QED
  BY <1>10, <1>12, Zenon DEF b, v, size

-----------------------------------------------------------------------------
(* The bytes of a field                                                    *)

\* What is between two sequences.
LEMMA Middle ==
    ASSUME NEW p \in Seq(Int), NEW c \in Seq(Int), NEW r \in Seq(Int)
    PROVE  SubSeq(p \o (c \o r), Len(p) + 1, Len(p) + Len(c)) = c
<1> DEFINE b == p \o (c \o r)
           s == SubSeq(b, Len(p) + 1, Len(p) + Len(c))
           lp == Len(p)
           lc == Len(c)
<1>1. lp \in Nat /\ lc \in Nat /\ Len(r) \in Nat
  OBVIOUS
<1>2. /\ c \o r \in Seq(Int) /\ Len(c \o r) = lc + Len(r)
      /\ \A i \in 1 .. lc + Len(r) : (c \o r)[i] = IF i <= lc THEN c[i] ELSE r[i - lc]
  BY SeqConcat, Zenon
<1>3. /\ b \in Seq(Int) /\ Len(b) = lp + (lc + Len(r))
      /\ \A i \in 1 .. lp + (lc + Len(r)) : b[i] = IF i <= lp THEN p[i] ELSE (c \o r)[i - lp]
  BY <1>2, SeqConcat
<1> HIDE DEF b
<1>4. \A i \in lp + 1 .. lp + lc : b[i] \in Int
  <2>1. \A i \in 1 .. Len(b) : b[i] \in Int
    BY <1>3, SeqAt, Zenon
  <2> QED
    BY <1>1, <1>3, <2>1
<1>5. lp + 1 \in Int /\ lp + lc \in Int
  BY <1>1
<1>6. /\ s \in Seq(Int)
      /\ Len(s) = IF lp + 1 <= lp + lc THEN (lp + lc) - (lp + 1) + 1 ELSE 0
      /\ \A i \in 1 .. (lp + lc) - (lp + 1) + 1 : s[i] = b[(lp + 1) + i - 1]
  BY <1>4, <1>5, SeqPart
<1> HIDE DEF s, lp, lc
<1>7. Len(s) = lc
  BY <1>1, <1>6
<1>8. ASSUME NEW i \in 1 .. lc PROVE s[i] = c[i]
  <2>1. /\ i \in 1 .. (lp + lc) - (lp + 1) + 1 /\ (lp + 1) + i - 1 = lp + i
        /\ lp + i \in 1 .. lp + (lc + Len(r)) /\ ~(lp + i <= lp) /\ (lp + i) - lp = i
        /\ i \in 1 .. lc + Len(r) /\ i <= lc
    BY <1>1
  <2>2. s[i] = b[lp + i]
    BY <1>6, <2>1
  <2>3. b[lp + i] = (c \o r)[i]
    BY <1>3, <2>1, Zenon
  <2> QED
    BY <1>2, <2>1, <2>2, <2>3, Zenon
<1>9. s = c
  BY <1>6, <1>7, <1>8, SeqSame, Zenon DEF lc
<1> QED
  BY <1>9, Zenon DEF s, b, lp, lc

\* The order in which bytes are put together does not matter.
LEMMA Assoc ==
    ASSUME NEW s \in Seq(Int), NEW t \in Seq(Int), NEW u \in Seq(Int)
    PROVE  (s \o t) \o u = s \o (t \o u)
BY SeqAssoc

CutInto(b, x, v, c, r) ==
    /\ b \in Seq(Int) /\ Len(b) = 1 + Len(v) + Len(c) + Len(r) /\ b[1] = x
    /\ Tail(b) = v \o (c \o r)
    /\ SubSeq(b, Len(v) + 2, 1 + Len(v) + Len(c)) = c
    /\ SubSeq(b, 1 + Len(v) + Len(c) + 1, Len(b)) = r

\* A tag, a varint and what the varint gives the length of.
LEMMA Cut ==
    ASSUME NEW x \in Int, NEW v \in Seq(Int), NEW c \in Seq(Int), NEW r \in Seq(Int)
    PROVE  CutInto((<<x>> \o (v \o c)) \o r, x, v, c, r)
<1> DEFINE b == (<<x>> \o (v \o c)) \o r
           h == <<x>>
           w == v \o (c \o r)
<1>1. h \in Seq(Int) /\ Len(h) = 1 /\ h[1] = x /\ <<>> \in Seq(Int)
  OBVIOUS
<1>0. b = (h \o (v \o c)) \o r
  OBVIOUS
<1> HIDE DEF h, b
<1>2. /\ c \o r \in Seq(Int) /\ v \o c \in Seq(Int) /\ w \in Seq(Int)
      /\ Len(c \o r) = Len(c) + Len(r) /\ Len(w) = Len(v) + Len(c \o r)
      /\ Len(v \o c) = Len(v) + Len(c)
  BY SeqConcat, Zenon
<1>20. h \in Seq(Int)
  BY <1>1, Zenon
<1>21. v \o c \in Seq(Int)
  BY <1>2, Zenon
<1>22. c \o r \in Seq(Int)
  BY <1>2, Zenon
<1>3. b = h \o w
  <2>2. (h \o (v \o c)) \o r = h \o ((v \o c) \o r)
    <3> DEFINE y == v \o c
    <3> HIDE DEF y
    <3>1. y \in Seq(Int)
      BY <1>21, Zenon DEF y
    <3>2. (h \o y) \o r = h \o (y \o r)
      BY <1>20, <3>1, Assoc, ZenonT(30)
    <3> QED
      BY <3>2, Zenon DEF y
  <2>3. (v \o c) \o r = v \o (c \o r)
    BY Assoc, Zenon
  <2> QED
    BY <1>0, <2>2, <2>3, Zenon
<1>4. /\ b \in Seq(Int) /\ Len(b) = Len(h) + Len(w)
      /\ \A i \in 1 .. Len(h) + Len(w) : b[i] = IF i <= Len(h) THEN h[i] ELSE w[i - Len(h)]
  <2>1. w \in Seq(Int)
    BY <1>2, Zenon
  <2> HIDE DEF w
  <2> QED
    BY <1>3, <1>20, <2>1, SeqConcat
<1>5. Len(v) \in Nat /\ Len(c) \in Nat /\ Len(r) \in Nat /\ Len(w) \in Nat
  BY <1>2
<1>6. Len(b) = 1 + Len(v) + Len(c) + Len(r)
  BY <1>1, <1>2, <1>4, <1>5
<1>7. b[1] = x
  BY <1>1, <1>4, <1>5
<1>8. Tail(b) = w
  <2>1. b # <<>> /\ Len(b) = 1 + Len(w)
    BY <1>1, <1>4, <1>5
  <2>2. /\ Tail(b) \in Seq(Int) /\ Len(Tail(b)) = Len(b) - 1
        /\ \A i \in 1 .. Len(Tail(b)) : Tail(b)[i] = b[i + 1]
    BY <1>4, <2>1, SeqTail, Zenon
  <2>3. Len(Tail(b)) = Len(w)
    BY <1>5, <2>1, <2>2
  <2>4. ASSUME NEW i \in 1 .. Len(w) PROVE Tail(b)[i] = w[i]
    <3>1. i + 1 \in 1 .. Len(h) + Len(w) /\ ~(i + 1 <= Len(h)) /\ (i + 1) - Len(h) = i
      BY <1>1, <1>5
    <3> QED
      BY <1>4, <2>2, <2>3, <3>1, Zenon
  <2> HIDE DEF w
  <2> QED
    BY <1>2, <2>2, <2>3, <2>4, SeqSame, Zenon
<1> DEFINE hv == h \o v
           hvc == hv \o c
<1>9. hv \in Seq(Int) /\ Len(hv) = 1 + Len(v)
  BY <1>1, SeqConcat, ZenonT(30)
<1>10. b = hv \o (c \o r)
  <2>1. (h \o v) \o (c \o r) = h \o (v \o (c \o r))
    <3> DEFINE y == c \o r
    <3> HIDE DEF y
    <3>1. y \in Seq(Int)
      BY <1>22, Zenon DEF y
    <3>2. (h \o v) \o y = h \o (v \o y)
      BY <1>20, <3>1, Assoc, Zenon
    <3> QED
      BY <3>2, Zenon DEF y
  <2> QED
    BY <1>3, <2>1, Zenon
<1>11. hvc \in Seq(Int) /\ Len(hvc) = 1 + Len(v) + Len(c)
  BY <1>9, SeqConcat, Zenon
<1>12. b = hvc \o (r \o <<>>)
  <2>1. b = hvc \o r
    <3> HIDE DEF hv
    <3>1. (hv \o c) \o r = hv \o (c \o r)
      BY <1>9, Assoc, Zenon
    <3> QED
      BY <1>10, <3>1, Zenon
  <2>2. r \o <<>> = r
    BY SeqConcatNone, Zenon
  <2> QED
    BY <2>1, <2>2, Zenon
<1> HIDE DEF hv, hvc, w
<1>13. SubSeq(b, Len(hv) + 1, Len(hv) + Len(c)) = c
  BY <1>9, <1>10, Middle
<1>14. SubSeq(b, Len(hvc) + 1, Len(hvc) + Len(r)) = r
  <2>1. SubSeq(hvc \o (r \o <<>>), Len(hvc) + 1, Len(hvc) + Len(r)) = r
    BY <1>1, <1>11, Middle, Zenon
  <2> QED
    BY <1>12, <2>1, Zenon
<1>15. /\ Len(hv) + 1 = Len(v) + 2 /\ Len(hv) + Len(c) = 1 + Len(v) + Len(c)
       /\ Len(hvc) + Len(r) = Len(b)
  BY <1>5, <1>6, <1>9, <1>11
<1>16. SubSeq(b, Len(v) + 2, 1 + Len(v) + Len(c)) = c
  BY <1>13, <1>15, Zenon
<1>17. SubSeq(b, 1 + Len(v) + Len(c) + 1, Len(b)) = r
  BY <1>11, <1>14, <1>15, Zenon
<1> QED
  BY <1>4, <1>6, <1>7, <1>8, <1>16, <1>17, Zenon DEF w, CutInto, b

FieldOf(b, x, n, c, r, msg) ==
    /\ b \in Seq(Int) /\ Len(r) < Len(b)
    /\ Field(b).tag = x /\ Field(b).n = n
    /\ ~CutOff(Start(b, msg), Field(b)) /\ Behind(Start(b, msg), Field(b)) = r
    /\ SubSeq(b, Field(b).len + 2, Field(b).last) = c

\* The field that a tag, a varint and, for a tag of wire type 2, what the
\* varint gives the length of are read as.
LEMMA FieldIs ==
    ASSUME NEW x \in Nat, NEW n \in INT32, NEW c \in Seq(Int), NEW r \in Seq(Int),
           Len(c) = IF x % 8 = 2 THEN n ELSE 0,
           NEW b, b = (<<x>> \o (Varint(n) \o c)) \o r, NEW msg
    PROVE  FieldOf(b, x, n, c, r, msg)
<1> DEFINE v == Varint(n)
           size == VarintSize(n)
           f == Field(b)
           s == Start(b, msg)
<1>1. v \in Seq(Int) /\ Len(v) = size
  BY VarintBytes, Zenon
<1>2. size \in Int /\ 1 <= size
  BY VarintSizes, Zenon
<1>3. x \in Int
  OBVIOUS
<1>4. b = (<<x>> \o (v \o c)) \o r
  BY Zenon
<1> HIDE DEF v
<1>5. /\ b \in Seq(Int) /\ Len(b) = 1 + Len(v) + Len(c) + Len(r) /\ b[1] = x
      /\ Tail(b) = v \o (c \o r)
      /\ SubSeq(b, Len(v) + 2, 1 + Len(v) + Len(c)) = c
      /\ SubSeq(b, 1 + Len(v) + Len(c) + 1, Len(b)) = r
  <2>1. CutInto((<<x>> \o (v \o c)) \o r, x, v, c, r)
    BY <1>1, <1>3, Cut, Zenon
  <2>2. CutInto(b, x, v, c, r)
    BY <1>4, <2>1, Zenon
  <2> QED
    BY <2>2, Zenon DEF CutInto
<1>6. c \o r \in Seq(Int)
  BY SeqConcat, Zenon
<1>7. VarintLength(Tail(b)) = size /\ Int32(Tail(b)) = n
  <2> DEFINE y == c \o r
  <2> HIDE DEF y
  <2>1. y \in Seq(Int)
    BY <1>6, Zenon DEF y
  <2>2. VarintLength(Varint(n) \o y) = size /\ Int32(Varint(n) \o y) = n
    BY <2>1, VarintRead, Zenon
  <2> QED
    BY <1>5, <2>2, Zenon DEF v, y
<1>8. /\ f.tag = b[1] /\ f.n = Int32(Tail(b)) /\ f.len = VarintLength(Tail(b))
      /\ f.last = 1 + VarintLength(Tail(b)) + (IF b[1] % 8 = 2 THEN Int32(Tail(b)) ELSE 0)
  BY DEF Field
<1>9. s.rest = b
  BY DEF Start
<1> HIDE DEF f, size, s
<1>10. f.tag = x /\ f.n = n /\ f.len = size
  BY <1>5, <1>7, <1>8, Zenon
<1>11. f.last = 1 + size + Len(c)
  BY <1>5, <1>7, <1>8, Zenon
<1>12. Len(c) \in Nat /\ Len(r) \in Nat
  OBVIOUS
<1>13. Len(b) = 1 + size + Len(c) + Len(r)
  BY <1>1, <1>5, Zenon
<1>14. Len(r) < Len(b) /\ ~(f.last > Len(b)) /\ f.len # 0
  BY <1>2, <1>10, <1>11, <1>12, <1>13
<1>15. ~CutOff(s, f)
  BY <1>9, <1>14, Zenon DEF CutOff
<1>16. Behind(s, f) = r
  BY <1>1, <1>5, <1>9, <1>11, Zenon DEF Behind
<1>17. SubSeq(b, f.len + 2, f.last) = c
  BY <1>1, <1>5, <1>10, <1>11, Zenon
<1> QED
  BY <1>5, <1>10, <1>14, <1>15, <1>16, <1>17, Zenon DEF f, s, FieldOf

\* The row of a tag.
RowIs(T, tag, name, type) == Known(T, tag) /\ Row(T, tag) = <<tag, name, type>>

\* What a field of a type of numbers may hold.
Holds(v, type) ==
    /\ type \in {"int32", "uint32", "bool"}
    /\ IF type = "bool" THEN v \in BOOLEAN ELSE v \in INT32

Reads(T, b, msg, r, name, v) ==
    /\ b \in Seq(Int) /\ Len(r) < Len(b)
    /\ InnerTurn(T, Start(b, msg), Field(b)) = Start(r, [msg EXCEPT ![name] = v])
    /\ Turn(T, Start(b, msg), Field(b)) = Start(r, [msg EXCEPT ![name] = v])

\* A number that is written is the one parsing sets.
LEMMA ScalarTurn ==
    ASSUME NEW T, NEW no \in Nat, NEW name, NEW type, NEW v, Holds(v, type),
           Number(v, type) # 0, RowIs(T, 8 * no, name, type),
           NEW r \in Seq(Int), NEW b, b = ScalarArray(no, v, type) \o r, NEW msg
    PROVE  Reads(T, b, msg, r, name, v)
<1> DEFINE n == Number(v, type)
           x == 8 * no
           f == Field(b)
           s == Start(b, msg)
<1>1. n \in INT32
  BY DEF Holds, Number, INT32
<1>2. (IF type = "bool" THEN n # 0 ELSE n) = v
  BY DEF Holds, Number
<1>3. ~IsMessage(type)
  BY DEF Holds, IsMessage
<1>4. x \in Nat /\ x % 8 # 2
  OBVIOUS
<1>5. b = (<<x>> \o (Varint(n) \o <<>>)) \o r
  <2>1. Varint(n) \in Seq(Int)
    BY <1>1, VarintBytes, Zenon
  <2>2. Varint(n) \o <<>> = Varint(n)
    BY <2>1, SeqConcatNone, Zenon
  <2> QED
    BY <2>2, Zenon DEF ScalarArray
<1> HIDE DEF n, x
<1>6. <<>> \in Seq(Int) /\ Len(<<>>) = IF x % 8 = 2 THEN n ELSE 0
  BY <1>4
<1>7. /\ b \in Seq(Int) /\ Len(r) < Len(b)
      /\ f.tag = x /\ f.n = n /\ ~CutOff(s, f) /\ Behind(s, f) = r
  <2> DEFINE c == <<>>
  <2>1. c \in Seq(Int) /\ Len(c) = (IF x % 8 = 2 THEN n ELSE 0) /\ b = (<<x>> \o (Varint(n) \o c)) \o r
    BY <1>5, <1>6, Zenon
  <2> HIDE DEF c
  <2>2. FieldOf(b, x, n, c, r, msg)
    BY <1>1, <1>4, <2>1, FieldIs, Zenon
  <2> QED
    BY <2>2, Zenon DEF FieldOf
<1>8. s.msg = msg
  BY DEF Start
<1> HIDE DEF f, s
<1>9. Known(T, f.tag) /\ Row(T, f.tag) = <<x, name, type>>
  BY <1>7, Zenon DEF RowIs, x
<1> DEFINE row == Row(T, f.tag)
<1>10. row[2] = name /\ row[3] = type
  BY <1>9
<1>11. InnerTurn(T, s, f) =
        [rest |-> Behind(s, f), ok |-> TRUE,
         msg |-> [s.msg EXCEPT ![row[2]] = IF row[3] = "bool" THEN f.n # 0 ELSE f.n]]
  BY <1>7, <1>9, Zenon DEF InnerTurn
<1> HIDE DEF row
<1>12. InnerTurn(T, s, f) = Start(r, [msg EXCEPT ![name] = v])
  BY <1>2, <1>7, <1>8, <1>10, <1>11, Zenon DEF Start
<1>13. Turn(T, s, f) = InnerTurn(T, s, f)
  BY <1>3, <1>7, <1>9, <1>10, Zenon DEF Turn, row
<1> QED
  BY <1>7, <1>12, <1>13, Zenon DEF f, s, Reads

-----------------------------------------------------------------------------
(* The tables of a type                                                    *)

Tag(w) == 8 * w[1] + (IF IsMessage(w[3]) THEN 2 ELSE 0)
Default(type) == IF IsMessage(type) THEN <<>> ELSE IF type = "bool" THEN FALSE ELSE 0
Name(T, i) == T.write[i][2]
Type(T, i) == T.write[i][3]

\* Every field is written once, and the tag it is written with is the one
\* parsing knows it by; a new message has the value that is not written, and
\* Clear resets every field.
InStep(T) ==
    /\ Len(T.write) \in Nat
    /\ T.new = [f \in DOMAIN T.new |-> T.new[f]]
    /\ DOMAIN T.new = {Name(T, i) : i \in 1 .. Len(T.write)}
    /\ DOMAIN T.new \subseteq T.clear
    /\ \A i \in 1 .. Len(T.write) :
          /\ T.write[i][1] \in Nat
          /\ RowIs(T, Tag(T.write[i]), Name(T, i), Type(T, i))
          /\ T.new[Name(T, i)] = Default(Type(T, i))
          /\ \A j \in 1 .. Len(T.write) : Name(T, i) = Name(T, j) => i = j

\* ByteSizeLong counts the fields in the order they are written, and they are few.
SizeInStep(T) ==
    /\ Len(T.size) = Len(T.write) /\ Len(T.write) <= 15
    /\ \A i \in 1 .. Len(T.write) : T.size[i][1] = Name(T, i) /\ T.size[i][2] = Type(T, i)

\* A message with numbers only, each in its range.
InnerHolds(T, m) ==
    /\ m = [f \in DOMAIN T.new |-> m[f]]
    /\ \A i \in 1 .. Len(T.write) : Holds(m[Name(T, i)], Type(T, i))

\* A message in which the first i rows are set.
Upto(T, m, i) ==
    [f \in DOMAIN T.new |-> IF \E j \in 1 .. i : Name(T, j) = f THEN m[f] ELSE T.new[f]]

FieldSet(T, v, x, u, w) ==
    /\ [u EXCEPT ![x] = v] = w
    /\ v = T.new[x] => u = w
    /\ x \in DOMAIN T.new /\ u[x] = T.new[x]
    /\ u = [f \in DOMAIN T.new |-> u[f]]

\* Setting the field of the next row, or leaving it when it has that value.
LEMMA UptoNext ==
    ASSUME NEW T, InStep(T), NEW m, NEW i \in 1 .. Len(T.write)
    PROVE  FieldSet(T, m[Name(T, i)], Name(T, i), Upto(T, m, i - 1), Upto(T, m, i))
<1> DEFINE D == DOMAIN T.new
           x == Name(T, i)
           Set(k, f) == \E j \in 1 .. k : Name(T, j) = f
           u == Upto(T, m, i - 1)
           w == Upto(T, m, i)
<1>1. x \in D
  BY Zenon DEF InStep
<1>2. /\ u = [f \in D |-> IF Set(i - 1, f) THEN m[f] ELSE T.new[f]]
      /\ w = [f \in D |-> IF Set(i, f) THEN m[f] ELSE T.new[f]]
  BY Zenon DEF Upto
<1>3. Len(T.write) \in Nat
  BY Zenon DEF InStep
<1>4. /\ \A j \in 1 .. i : j # i => j \in 1 .. i - 1
      /\ \A j \in 1 .. i - 1 : j \in 1 .. i /\ j \in 1 .. Len(T.write) /\ j # i
      /\ i \in 1 .. i
  BY <1>3
<1>5. \A f : Set(i, f) <=> Set(i - 1, f) \/ f = x
  BY <1>4, Zenon
<1>6. ~Set(i - 1, x)
  BY <1>4, Zenon DEF InStep
<1> HIDE DEF Set, u, w, x
<1>7. u[x] = T.new[x]
  BY <1>1, <1>2, <1>6, Zenon
<1>8. [u EXCEPT ![x] = m[x]] = w
  <2>1. /\ [u EXCEPT ![x] = m[x]] = [f \in D |-> IF f = x THEN m[x] ELSE u[f]]
    BY <1>2, Zenon
  <2>2. \A f \in D : (IF f = x THEN m[x] ELSE u[f]) = w[f]
    BY <1>2, <1>5, Zenon
  <2>3. w = [f \in D |-> w[f]]
    BY <1>2, Zenon
  <2> QED
    BY <2>1, <2>2, <2>3, Zenon
<1>9. ASSUME m[x] = T.new[x] PROVE u = w
  <2>1. \A f \in D : u[f] = w[f]
    BY <1>2, <1>5, <1>6, <1>9, Zenon
  <2>2. u = [f \in D |-> u[f]] /\ w = [f \in D |-> w[f]]
    BY <1>2, Zenon
  <2> QED
    BY <2>1, <2>2, Zenon
<1>10. u = [f \in D |-> u[f]]
  BY <1>2, Zenon
<1> QED
  BY <1>1, <1>7, <1>8, <1>9, <1>10, Zenon DEF u, w, x, FieldSet

\* No row set is a new message, all rows set the message.
LEMMA UptoEnds ==
    ASSUME NEW T, InStep(T), NEW m, m = [f \in DOMAIN T.new |-> m[f]]
    PROVE  Upto(T, m, 0) = T.new /\ Upto(T, m, Len(T.write)) = m
<1> DEFINE D == DOMAIN T.new
           n == Len(T.write)
           Set(k, f) == \E j \in 1 .. k : Name(T, j) = f
<1>1. \A f : ~Set(0, f)
  <2>1. \A j \in 1 .. 0 : FALSE
    OBVIOUS
  <2> QED
    BY <2>1, Zenon
<1>2. \A f \in D : Set(n, f)
  BY Zenon DEF InStep
<1>3. /\ Upto(T, m, 0) = [f \in D |-> IF Set(0, f) THEN m[f] ELSE T.new[f]]
      /\ Upto(T, m, n) = [f \in D |-> IF Set(n, f) THEN m[f] ELSE T.new[f]]
  BY Zenon DEF Upto
<1> HIDE DEF Set
<1>4. Upto(T, m, 0) = [f \in D |-> T.new[f]] /\ Upto(T, m, n) = [f \in D |-> m[f]]
  BY <1>1, <1>2, <1>3, Zenon
<1> QED
  BY <1>4, Zenon DEF InStep

-----------------------------------------------------------------------------
(* A message inside another                                                *)

\* The bytes of a number, as many as are counted for it.
LEMMA ScalarBytes ==
    ASSUME NEW no \in Nat, NEW v, NEW type, Holds(v, type)
    PROVE  /\ ScalarArray(no, v, type) \in Seq(Int)
           /\ Len(ScalarArray(no, v, type)) = ScalarSize(v, type)
           /\ ScalarSize(v, type) <= 11
<1> DEFINE n == Number(v, type)
<1>1. n \in INT32
  BY DEF Holds, Number, INT32
<1>2. ScalarArray(no, v, type) = IF n = 0 THEN <<>> ELSE <<8 * no>> \o Varint(n)
  BY Zenon DEF ScalarArray
<1>3. ScalarSize(v, type) = IF n = 0 THEN 0 ELSE 1 + VarintSize(n)
  BY Zenon DEF ScalarSize
<1> HIDE DEF n
<1>4. CASE n = 0
  BY <1>2, <1>3, <1>4
<1>5. CASE n # 0
  <2> DEFINE h == <<8 * no>>
             w == Varint(n)
             size == VarintSize(n)
  <2>1. w \in Seq(Int) /\ Len(w) = size /\ size \in Int /\ size <= 10
    BY <1>1, VarintBytes, VarintSizes, Zenon
  <2>2. h \in Seq(Int) /\ Len(h) = 1
    OBVIOUS
  <2>3. ScalarArray(no, v, type) = h \o w /\ ScalarSize(v, type) = 1 + size
    BY <1>2, <1>3, <1>5, Zenon
  <2> HIDE DEF h, w, size
  <2>4. h \o w \in Seq(Int) /\ Len(h \o w) = Len(h) + Len(w)
    BY <2>1, <2>2, SeqConcat, Zenon
  <2> QED
    BY <2>1, <2>2, <2>3, <2>4
<1> QED
  BY <1>4, <1>5, Zenon

\* The bytes of a message of numbers, as many as ByteSizeLong says and few:
\* what the length before the message is written from is the length of what
\* is written after it.
LEMMA InnerBytes ==
    ASSUME NEW T, InStep(T), SizeInStep(T), NEW m, InnerHolds(T, m)
    PROVE  /\ InnerArray(T, m) \in Seq(Int)
           /\ Len(InnerArray(T, m)) = InnerSize(T, m)
           /\ InnerSize(T, m) \in INT32 /\ 0 <= InnerSize(T, m) /\ InnerSize(T, m) <= 165
<1> DEFINE n == Len(T.write)
           ss == [i \in 1 .. n |-> ScalarArray(T.write[i][1], m[T.write[i][2]], T.write[i][3])]
           k == Len(T.size)
           ns == [i \in 1 .. k |-> ScalarSize(m[T.size[i][1]], T.size[i][2])]
<1>1. n \in Nat /\ k = n /\ n <= 15
  BY Zenon DEF InStep, SizeInStep
<1>2. InnerArray(T, m) = Join(n, ss) /\ InnerSize(T, m) = Total(n, ns)
  BY <1>1, Zenon DEF InnerArray, InnerSize
<1>3. ASSUME NEW i \in 1 .. n
      PROVE  ss[i] \in Seq(Int) /\ Len(ss[i]) = ns[i] /\ ns[i] <= 11
  <2>1. /\ ss[i] = ScalarArray(T.write[i][1], m[Name(T, i)], Type(T, i))
        /\ ns[i] = ScalarSize(m[Name(T, i)], Type(T, i))
    <3>1. ss[i] = ScalarArray(T.write[i][1], m[T.write[i][2]], T.write[i][3])
      BY Zenon
    <3>2. i \in 1 .. k
      BY <1>1, Zenon
    <3>3. ns[i] = ScalarSize(m[T.size[i][1]], T.size[i][2])
      BY <3>2, Zenon
    <3>4. T.size[i][1] = Name(T, i) /\ T.size[i][2] = Type(T, i)
      BY Zenon DEF SizeInStep
    <3> HIDE DEF ss, ns, n, k
    <3>5. T.write[i][2] = Name(T, i) /\ T.write[i][3] = Type(T, i)
      BY Zenon DEF Name, Type
    <3> QED
      BY <3>1, <3>3, <3>4, <3>5, Zenon
  <2>2. T.write[i][1] \in Nat /\ Holds(m[Name(T, i)], Type(T, i))
    BY Zenon DEF InStep, InnerHolds
  <2> HIDE DEF ss, ns
  <2>3. /\ ScalarArray(T.write[i][1], m[Name(T, i)], Type(T, i)) \in Seq(Int)
        /\ Len(ScalarArray(T.write[i][1], m[Name(T, i)], Type(T, i)))
             = ScalarSize(m[Name(T, i)], Type(T, i))
        /\ ScalarSize(m[Name(T, i)], Type(T, i)) <= 11
    BY <2>2, ScalarBytes, Zenon
  <2> QED
    BY <2>1, <2>3, Zenon
<1> HIDE DEF n, ss, k, ns
<1>4. PICK f : Joins(f, n, ss) /\ Join(n, ss) = f[1]
  BY <1>1, JoinIs, Zenon
<1>5. PICK g : Totals(g, n, ns) /\ Total(n, ns) = g[1]
  BY <1>1, TotalIs, Zenon
<1> DEFINE Good(i) == f[i] \in Seq(Int) /\ g[i] = Len(f[i]) /\ Len(f[i]) <= 11 * (n + 1 - i)
           S == {i \in 1 .. n + 1 : Good(i)}
<1>6. n + 1 \in S
  <2>1. f[n + 1] = <<>> /\ g[n + 1] = 0
    BY <1>4, <1>5, Zenon DEF Joins, Totals
  <2>2. <<>> \in Seq(Int) /\ Len(<<>>) = 0
    OBVIOUS
  <2>3. 0 <= 11 * (n + 1 - (n + 1)) /\ n + 1 \in 1 .. n + 1
    BY <1>1
  <2>4. Good(n + 1)
    BY <2>1, <2>2, <2>3, Zenon
  <2> QED
    BY <2>3, <2>4, Zenon
<1>7. ASSUME NEW i \in 1 .. n, i + 1 \in S PROVE i \in S
  <2> DEFINE a == ss[i]
             c == f[i + 1]
  <2>1. f[i] = a \o c /\ g[i] = ns[i] + g[i + 1]
    BY <1>4, <1>5, Zenon DEF Joins, Totals
  <2>2. a \in Seq(Int) /\ Len(a) = ns[i] /\ ns[i] <= 11
    BY <1>3, Zenon
  <2>3. c \in Seq(Int) /\ g[i + 1] = Len(c) /\ Len(c) <= 11 * (n + 1 - (i + 1))
    BY <1>7, Zenon
  <2> HIDE DEF a, c
  <2>4. a \o c \in Seq(Int) /\ Len(a \o c) = Len(a) + Len(c)
    BY <2>2, <2>3, SeqConcat, Zenon
  <2>5. Len(a) \in Nat /\ Len(c) \in Nat
    BY <2>2, <2>3
  <2>6. Len(a) + Len(c) <= 11 * (n + 1 - i) /\ i \in 1 .. n + 1
    BY <1>1, <2>2, <2>3, <2>5
  <2>7. Good(i)
    BY <2>1, <2>2, <2>3, <2>4, <2>6, Zenon
  <2> QED
    BY <2>6, <2>7, Zenon
<1> HIDE DEF S
<1>8. \A i \in 1 .. n + 1 : i \in S
  BY <1>1, <1>6, <1>7, Descend, Zenon
<1>9. 1 \in 1 .. n + 1
  BY <1>1
<1>10. Good(1)
  BY <1>8, <1>9, Zenon DEF S
<1>11. Len(f[1]) \in Nat /\ Len(f[1]) <= 165
  BY <1>1, <1>10
<1>12. Len(f[1]) \in INT32 /\ 0 <= Len(f[1])
  BY <1>11 DEF INT32
<1> QED
  BY <1>2, <1>4, <1>5, <1>10, <1>11, <1>12, Zenon

\* What the fields give in turn are bytes again.
LEMMA JoinBytes ==
    ASSUME NEW n \in Nat, NEW ss, \A i \in 1 .. n : ss[i] \in Seq(Int), NEW f, Joins(f, n, ss)
    PROVE  \A i \in 1 .. n + 1 : f[i] \in Seq(Int)
<1> DEFINE S == {i \in 1 .. n + 1 : f[i] \in Seq(Int)}
<1>1. n + 1 \in S
  <2>1. f[n + 1] = <<>>
    BY Zenon DEF Joins
  <2>2. n + 1 \in 1 .. n + 1 /\ <<>> \in Seq(Int)
    OBVIOUS
  <2> QED
    BY <2>1, <2>2, Zenon
<1>2. ASSUME NEW i \in 1 .. n, i + 1 \in S PROVE i \in S
  <2>1. f[i] = ss[i] \o f[i + 1] /\ ss[i] \in Seq(Int) /\ f[i + 1] \in Seq(Int)
    BY <1>2, Zenon DEF Joins
  <2> DEFINE a == ss[i]
             c == f[i + 1]
  <2>4. a \in Seq(Int) /\ c \in Seq(Int)
    BY <2>1, Zenon
  <2> HIDE DEF a, c
  <2>5. a \o c \in Seq(Int)
    BY <2>4, SeqConcat, Zenon
  <2>2. f[i] \in Seq(Int)
    BY <2>1, <2>5, Zenon DEF a, c
  <2>3. i \in 1 .. n + 1
    OBVIOUS
  <2> QED
    BY <2>2, <2>3, Zenon
<1> HIDE DEF S
<1>3. \A i \in 1 .. n + 1 : i \in S
  BY <1>1, <1>2, Descend, Zenon
<1> QED
  BY <1>3, Zenon DEF S

\* From bytes b and message u a turn leads to r and w, or they are the same.
Leads(T, b, u, r, w) ==
    \/ b = r /\ u = w
    \/ /\ b \in Seq(Int) /\ Len(r) < Len(b) /\ ~Ended(Start(b, u))
       /\ InnerTurn(T, Start(b, u), Field(b)) = Start(r, w)
       /\ Turn(T, Start(b, u), Field(b)) = Start(r, w)

\* A row with a number: it is written and read, or has the value of a new message.
LEMMA ScalarRow ==
    ASSUME NEW T, InStep(T), NEW m, NEW i \in 1 .. Len(T.write),
           Holds(m[Name(T, i)], Type(T, i)), NEW r \in Seq(Int)
    PROVE  Leads(T, ScalarArray(T.write[i][1], m[Name(T, i)], Type(T, i)) \o r,
                 Upto(T, m, i - 1), r, Upto(T, m, i))
<1> DEFINE no == T.write[i][1]
           x == Name(T, i)
           v == m[x]
           type == Type(T, i)
           b == ScalarArray(no, v, type) \o r
           u == Upto(T, m, i - 1)
           w == Upto(T, m, i)
<1>1. /\ no \in Nat /\ T.new[x] = Default(type) /\ RowIs(T, Tag(T.write[i]), x, type)
      /\ Holds(v, type)
  BY Zenon DEF InStep
<1>2. ~IsMessage(type)
  BY <1>1 DEF Holds, IsMessage
<1>3. Tag(T.write[i]) = 8 * no
  <2>1. Tag(T.write[i]) = 8 * no + 0
    BY <1>2, Zenon DEF Tag, Type
  <2> QED
    BY <1>1, <2>1
<1>4. /\ [u EXCEPT ![x] = v] = w
      /\ v = T.new[x] => u = w
  <2>1. FieldSet(T, v, x, u, w)
    BY UptoNext, Zenon
  <2> QED
    BY <2>1, Zenon DEF FieldSet
<1> HIDE DEF no, x, v, type, u, w
<1>5. CASE Number(v, type) = 0
  <2>1. v = T.new[x]
    <3>1. CASE type = "bool"
      <4>1. v \in BOOLEAN /\ (IF v THEN 1 ELSE 0) = 0 /\ T.new[x] = FALSE
        BY <1>1, <1>2, <1>5, <3>1, Zenon DEF Default, Number, Holds
      <4>2. 1 # 0
        OBVIOUS
      <4> QED
        BY <4>1, <4>2, Zenon
    <3>2. CASE type # "bool"
      BY <1>1, <1>2, <1>5, <3>2, Zenon DEF Default, Number
    <3> QED
      BY <3>1, <3>2, Zenon
  <2>2. b = <<>> \o r
    BY <1>5, Zenon DEF ScalarArray
  <2>3. b = r
    BY <2>2, SeqConcatNone
  <2> QED
    BY <1>4, <2>1, <2>3, Zenon DEF Leads, no, x, v, type, u, w
<1>6. CASE Number(v, type) # 0
  <2>1. RowIs(T, 8 * no, x, type)
    BY <1>1, <1>3, Zenon
  <2> HIDE DEF b
  <2>2. /\ b \in Seq(Int) /\ Len(r) < Len(b)
        /\ InnerTurn(T, Start(b, u), Field(b)) = Start(r, [u EXCEPT ![x] = v])
        /\ Turn(T, Start(b, u), Field(b)) = Start(r, [u EXCEPT ![x] = v])
    <3>1. b = ScalarArray(no, v, type) \o r
      BY Zenon DEF b
    <3>2. Reads(T, b, u, r, x, v)
      BY <1>1, <1>6, <2>1, <3>1, ScalarTurn, Zenon
    <3> QED
      BY <3>2, Zenon DEF Reads
  <2>3. ~Ended(Start(b, u))
    <3>1. b # <<>>
      BY <2>2
    <3> QED
      BY <3>1 DEF Ended, Start
  <2>4. Leads(T, b, u, r, w)
    BY <1>4, <2>2, <2>3, Zenon DEF Leads
  <2> QED
    BY <2>4, Zenon DEF b, no, x, v, type, u, w
<1> QED
  BY <1>5, <1>6, Zenon

\* A message inside another is read back as it was written.
LEMMA InnerTrip ==
    ASSUME NEW T, InStep(T), NEW m, InnerHolds(T, m)
    PROVE  InnerPartial(T, InnerArray(T, m), T.new) = Start(<<>>, m)
<1> DEFINE n == Len(T.write)
           ss == [i \in 1 .. n |-> ScalarArray(T.write[i][1], m[T.write[i][2]], T.write[i][3])]
           b == InnerArray(T, m)
<1>1. n \in Nat
  BY Zenon DEF InStep
<1>2. \A i \in 1 .. n : ss[i] = ScalarArray(T.write[i][1], m[Name(T, i)], Type(T, i))
  BY Zenon DEF Name, Type
<1>3. b = Join(n, ss)
  BY Zenon DEF InnerArray
<1> HIDE DEF n, ss, b
<1>4. \A i \in 1 .. n : T.write[i][1] \in Nat /\ Holds(m[Name(T, i)], Type(T, i))
  BY Zenon DEF InStep, InnerHolds, n
<1>5. ASSUME NEW i \in 1 .. n PROVE ss[i] \in Seq(Int)
  BY <1>2, <1>4, ScalarBytes, ZenonT(30)
<1>6. PICK f : Joins(f, n, ss) /\ b = f[1]
  BY <1>1, <1>3, JoinIs, Zenon
<1>7. \A i \in 1 .. n + 1 : f[i] \in Seq(Int)
  BY <1>1, <1>5, <1>6, JoinBytes, Zenon
<1>8. 1 \in 1 .. n + 1
  BY <1>1
<1>9. b \in Seq(Int) /\ Len(b) \in Nat
  <2>1. b \in Seq(Int)
    BY <1>6, <1>7, <1>8, Zenon
  <2> QED
    BY <2>1
<1>10. PICK at : /\ InnerRuns(at, T, b, T.new, Len(b))
                 /\ InnerPartial(T, b, T.new) = at[CHOOSE k \in 0 .. Len(b) : Ended(at[k])]
  BY <1>9, InnerPartialIs, Zenon
<1> DEFINE Good(i) == Reached(at, Len(b), Start(f[i + 1], Upto(T, m, i)))
           S == {i \in 0 .. n : Good(i)}
<1>11. 0 \in S
  <2>1. Upto(T, m, 0) = T.new
    BY UptoEnds, Zenon DEF InnerHolds
  <2>2. at[0] = Start(b, T.new)
    BY <1>10, Zenon DEF InnerRuns
  <2>3. Start(b, T.new).rest = b
    BY DEF Start
  <2>4. 0 \in 0 .. Len(b) /\ 0 + Len(b) <= Len(b) /\ 0 + 1 = 1 /\ 0 \in 0 .. n
    BY <1>1, <1>9
  <2>5. Reached(at, Len(b), Start(b, T.new))
    BY <2>2, <2>3, <2>4, Zenon DEF Reached
  <2>6. Good(0)
    BY <1>6, <2>1, <2>4, <2>5, Zenon
  <2> QED
    BY <2>4, <2>6, Zenon
<1>12. ASSUME NEW k \in 0 .. n - 1, k \in S PROVE k + 1 \in S
  <2> DEFINE i == k + 1
             c == f[i]
             r == f[i + 1]
             u == Upto(T, m, i - 1)
             w == Upto(T, m, i)
  <2>1. i \in 1 .. n /\ i \in 1 .. n + 1 /\ i + 1 \in 1 .. n + 1 /\ i - 1 = k /\ i \in 0 .. n
    BY <1>1
  <2>2. c = ss[i] \o r /\ c \in Seq(Int) /\ r \in Seq(Int)
    BY <1>6, <1>7, <2>1, Zenon DEF Joins
  <2>3. Good(k)
    BY <1>12, Zenon
  <2> HIDE DEF i
  <2>4. Reached(at, Len(b), Start(c, u))
    BY <2>1, <2>3, Zenon DEF i
  <2> HIDE DEF r
  <2>5. Leads(T, ss[i] \o r, u, r, w)
    BY <1>2, <1>4, <2>1, <2>2, ScalarRow, Zenon DEF n
  <2> HIDE DEF c, u, w
  <2>6. Leads(T, c, u, r, w)
    BY <2>2, <2>5, Zenon
  <2>7. Reached(at, Len(b), Start(r, w))
    <3>1. CASE c = r /\ u = w
      BY <2>4, <3>1, Zenon
    <3>2. CASE ~(c = r /\ u = w)
      <4> DEFINE s == Start(c, u)
                 t == Start(r, w)
      <4>1. Len(r) < Len(c) /\ ~Ended(s) /\ t = InnerTurn(T, s, Field(c))
        BY <2>6, <3>2, Zenon DEF Leads
      <4>2. s.rest = c /\ t.rest = r
        BY DEF Start
      <4> HIDE DEF s, t
      <4>3. Len(c) \in Nat /\ Len(r) \in Nat
        BY <2>2
      <4>4. Reached(at, Len(b), s)
        BY <2>4, Zenon DEF s
      <4>5. Reached(at, Len(b), t)
        BY <1>9, <1>10, <4>1, <4>2, <4>3, <4>4, InnerOn, Zenon
      <4> QED
        BY <4>5, Zenon DEF t
    <3> QED
      BY <3>1, <3>2, Zenon
  <2> QED
    BY <2>1, <2>7, Zenon DEF i, r, w
<1> HIDE DEF S
<1>13. \A k \in 0 .. n : k \in S
  BY <1>1, <1>11, <1>12, Climb, Zenon
<1>14. n \in 0 .. n
  BY <1>1
<1> DEFINE e == Start(<<>>, m)
<1>15. Reached(at, Len(b), e)
  <2>1. Good(n)
    BY <1>13, <1>14, Zenon DEF S
  <2>2. Upto(T, m, n) = m
    BY UptoEnds, Zenon DEF InnerHolds, n
  <2>3. f[n + 1] = <<>>
    BY <1>6, Zenon DEF Joins
  <2> QED
    BY <2>1, <2>2, <2>3, Zenon
<1>16. Ended(e)
  BY DEF Ended, Start
<1> HIDE DEF e
<1>17. \A k \in 1 .. Len(b) : Ended(at[k - 1]) => at[k] = at[k - 1]
  BY <1>10, Zenon DEF InnerRuns
<1>18. at[CHOOSE k \in 0 .. Len(b) : Ended(at[k])] = e
  BY <1>9, <1>15, <1>16, <1>17, Settled, Zenon
<1> QED
  BY <1>10, <1>18, Zenon DEF b, e

-----------------------------------------------------------------------------
(* Fields of a message type                                                *)

\* The messages a field of a message type may hold.
Msgs(T) == {m \in [DOMAIN T.new -> INT32 \cup BOOLEAN] : InnerHolds(T, m)}

MessagesHold(T, v, type) ==
    /\ v \in Seq(Msgs(T.of))
    /\ type = "message" => Len(v) <= 1

MessageBytesAre(T, no, x) ==
    /\ MessageArray(T, no, x) \in Seq(Int)
    /\ Len(MessageArray(T, no, x)) = MessageSize(T, x)
    /\ MessageSize(T, x) \in Nat

\* The bytes of a message inside another with its tag and size.
LEMMA MessageBytes ==
    ASSUME NEW T, InStep(T), SizeInStep(T), NEW no \in Nat, NEW x, InnerHolds(T, x)
    PROVE  MessageBytesAre(T, no, x)
<1> DEFINE n == InnerSize(T, x)
           h == <<8 * no + 2>>
           w == Varint(n)
           c == InnerArray(T, x)
<1>1. c \in Seq(Int) /\ Len(c) = n /\ n \in INT32 /\ 0 <= n
  BY InnerBytes, Zenon
<1>2. w \in Seq(Int) /\ Len(w) = VarintSize(n)
  BY <1>1, VarintBytes, Zenon
<1>3. h \in Seq(Int) /\ Len(h) = 1
  OBVIOUS
<1>4. MessageArray(T, no, x) = h \o (w \o c)
  BY Zenon DEF MessageArray
<1>5. MessageSize(T, x) = 1 + VarintSize(n) + n
  BY Zenon DEF MessageSize
<1>6. VarintSize(n) \in Int /\ 1 <= VarintSize(n)
  BY <1>1, VarintSizes, Zenon
<1> HIDE DEF n, h, w, c
<1>7. w \o c \in Seq(Int) /\ Len(w \o c) = Len(w) + Len(c)
  BY <1>1, <1>2, SeqConcat, Zenon
<1> DEFINE y == w \o c
<1> HIDE DEF y
<1>8. h \o y \in Seq(Int) /\ Len(h \o y) = Len(h) + Len(y)
  BY <1>3, <1>7, SeqConcat, Zenon DEF y
<1>9. Len(h) + Len(y) = 1 + VarintSize(n) + n /\ 1 + VarintSize(n) + n \in Nat
  <2>1. n \in Int
    BY <1>1 DEF INT32
  <2>2. Len(y) = VarintSize(n) + n
    BY <1>1, <1>2, <1>7, Zenon DEF y
  <2> QED
    BY <1>1, <1>3, <1>6, <2>1, <2>2
<1> QED
  BY <1>4, <1>5, <1>8, <1>9, Zenon DEF MessageBytesAre, y

ReadsMessage(T, b, msg, r, name, v) ==
    /\ b \in Seq(Int) /\ Len(r) < Len(b)
    /\ Turn(T, Start(b, msg), Field(b)) = Start(r, [msg EXCEPT ![name] = v])

\* A message that is written is the one parsing adds.
LEMMA MessageTurn ==
    ASSUME NEW T, InStep(T.of), SizeInStep(T.of), NEW no \in Nat, NEW name, NEW type,
           IsMessage(type), RowIs(T, 8 * no + 2, name, type), NEW x, InnerHolds(T.of, x),
           NEW r \in Seq(Int), NEW b, b = MessageArray(T.of, no, x) \o r,
           NEW msg, type = "message" => msg[name] = <<>>
    PROVE  ReadsMessage(T, b, msg, r, name, Append(msg[name], x))
<1> DEFINE n == InnerSize(T.of, x)
           c == InnerArray(T.of, x)
           tag == 8 * no + 2
           f == Field(b)
           s == Start(b, msg)
           row == Row(T, f.tag)
<1>1. c \in Seq(Int) /\ Len(c) = n /\ n \in INT32
  BY InnerBytes, Zenon
<1>2. tag \in Nat /\ tag % 8 = 2
  OBVIOUS
<1>3. b = (<<tag>> \o (Varint(n) \o c)) \o r
  BY Zenon DEF MessageArray
<1>4. InnerPartial(T.of, c, T.of.new) = Start(<<>>, x)
  BY InnerTrip, Zenon
<1> HIDE DEF n, c, tag
<1>5. Len(c) = IF tag % 8 = 2 THEN n ELSE 0
  BY <1>1, <1>2, Zenon
<1>6. FieldOf(b, tag, n, c, r, msg)
  BY <1>1, <1>2, <1>3, <1>5, FieldIs, Zenon
<1>7. s.msg = msg /\ s.rest = b
  BY DEF Start
<1>8. /\ b \in Seq(Int) /\ Len(r) < Len(b) /\ f.tag = tag /\ ~CutOff(s, f)
      /\ Behind(s, f) = r /\ SubSeq(b, f.len + 2, f.last) = c
  BY <1>6, Zenon DEF FieldOf
<1> HIDE DEF f, s
<1>9. Known(T, f.tag) /\ row = <<tag, name, type>>
  BY <1>8, Zenon DEF RowIs, tag
<1>10. row[2] = name /\ row[3] = type
  BY <1>9
<1> DEFINE sub == Sub(T, s, f, row)
<1> HIDE DEF row
<1>11. sub = Start(<<>>, x)
  <2>1. ~(row[3] = "message" /\ s.msg[row[2]] # <<>>)
    BY <1>7, <1>10, Zenon
  <2>2. sub = InnerPartial(T.of, SubSeq(s.rest, f.len + 2, f.last), T.of.new)
    BY <2>1, Zenon DEF Sub
  <2> QED
    BY <1>4, <1>7, <1>8, <2>2, Zenon
<1>12. sub.ok = TRUE /\ sub.msg = x
  BY <1>11 DEF Start
<1>13. Turn(T, s, f) =
        [rest |-> Behind(s, f), ok |-> sub.ok,
         msg |-> [s.msg EXCEPT ![row[2]] =
                     IF row[3] = "message" THEN <<sub.msg>> ELSE Append(@, sub.msg)]]
  BY <1>8, <1>9, <1>10, Zenon DEF Turn, row
<1> HIDE DEF sub
<1>14. (IF type = "message" THEN <<x>> ELSE Append(msg[name], x)) = Append(msg[name], x)
  <2>1. <<x>> = Append(<<>>, x)
    OBVIOUS
  <2> QED
    BY <2>1, Zenon
<1>15. Turn(T, s, f) = [rest |-> r, ok |-> TRUE, msg |-> [msg EXCEPT ![name] = Append(msg[name], x)]]
  BY <1>7, <1>8, <1>10, <1>12, <1>13, <1>14, Zenon
<1>16. Turn(T, s, f) = Start(r, [msg EXCEPT ![name] = Append(msg[name], x)])
  BY <1>15 DEF Start
<1> QED
  BY <1>8, <1>16, Zenon DEF ReadsMessage, s, f

\* The messages of a field, in turn.
LEMMA MessageRow ==
    ASSUME NEW T, InStep(T), InStep(T.of), SizeInStep(T.of), NEW m,
           NEW i \in 1 .. Len(T.write), IsMessage(Type(T, i)),
           MessagesHold(T, m[Name(T, i)], Type(T, i)), NEW r \in Seq(Int),
           NEW at, NEW b, NEW m0, NEW n \in Nat, Runs(at, T, b, m0, n),
           Reached(at, n, Start(FieldArray(T, T.write[i][1], m[Name(T, i)], Type(T, i)) \o r,
                                Upto(T, m, i - 1)))
    PROVE  Reached(at, n, Start(r, Upto(T, m, i)))
<1> DEFINE no == T.write[i][1]
           x == Name(T, i)
           v == m[x]
           type == Type(T, i)
           u == Upto(T, m, i - 1)
           w == Upto(T, m, i)
           len == Len(v)
           ss == [k \in 1 .. len |-> MessageArray(T.of, no, v[k])]
<1>1. /\ no \in Nat /\ T.new[x] = Default(type) /\ RowIs(T, Tag(T.write[i]), x, type)
      /\ IsMessage(type) /\ MessagesHold(T, v, type)
  BY Zenon DEF InStep
<1>2. RowIs(T, 8 * no + 2, x, type)
  BY <1>1, Zenon DEF Tag, Type
<1>3. FieldSet(T, v, x, u, w)
  BY UptoNext, Zenon
<1>4. u[x] = <<>> /\ x \in DOMAIN T.new /\ u = [f \in DOMAIN T.new |-> u[f]] /\ [u EXCEPT ![x] = v] = w
  BY <1>1, <1>3, Zenon DEF FieldSet, Default
<1>5. Reached(at, n, Start(Join(len, ss) \o r, u))
  <2>1. FieldArray(T, no, v, type) = Join(len, ss)
    BY <1>1 DEF FieldArray
  <2> HIDE DEF ss, len
  <2> QED
    BY <2>1, Zenon
<1> HIDE DEF no, x, v, type, u, w
<1>6. len \in Nat /\ v \in Seq(Msgs(T.of)) /\ (type = "message" => len <= 1)
  <2>1. v \in Seq(Msgs(T.of)) /\ (type = "message" => len <= 1)
    BY <1>1, Zenon DEF MessagesHold
  <2> QED
    BY <2>1, SeqLen, Zenon
<1>7. ASSUME NEW k \in 1 .. len PROVE InnerHolds(T.of, v[k])
  <2>1. v[k] \in Msgs(T.of)
    BY <1>6, SeqAt, Zenon
  <2> QED
    BY <2>1, Zenon DEF Msgs
<1>8. ASSUME NEW k \in 1 .. len PROVE ss[k] = MessageArray(T.of, no, v[k]) /\ ss[k] \in Seq(Int)
  <2>1. ss[k] = MessageArray(T.of, no, v[k])
    BY Zenon
  <2>2. MessageBytesAre(T.of, no, v[k])
    BY <1>1, <1>7, MessageBytes, Zenon
  <2> QED
    BY <2>1, <2>2, Zenon DEF MessageBytesAre
<1> HIDE DEF ss, len
<1>9. PICK g : Joins(g, len, ss) /\ Join(len, ss) = g[1]
  BY <1>6, JoinIs, Zenon
<1>10. \A k \in 1 .. len + 1 : g[k] \in Seq(Int)
  BY <1>6, <1>8, <1>9, JoinBytes, Zenon
<1> DEFINE Part(j) == [u EXCEPT ![x] = SubSeq(v, 1, j)]
           Good(j) == Reached(at, n, Start(g[j + 1] \o r, Part(j)))
           S == {j \in 0 .. len : Good(j)}
<1>11. 0 \in S
  <2>1. SubSeq(v, 1, 0) = <<>>
    BY SeqPartNone
  <2>2. Part(0) = u
    BY <1>4, <2>1, Zenon
  <2>3. 0 + 1 = 1 /\ 0 \in 0 .. len
    BY <1>6
  <2> HIDE DEF Part
  <2>4. Good(0)
    BY <1>5, <1>9, <2>2, <2>3, Zenon
  <2> QED
    BY <2>3, <2>4, Zenon
<1>12. ASSUME NEW k \in 0 .. len - 1, k \in S PROVE k + 1 \in S
  <2> DEFINE j == k + 1
             a == ss[j]
             c == g[j + 1]
             rest == c \o r
             p == Part(k)
             q == Part(j)
             e == v[j]
  <2>1. /\ j \in 1 .. len /\ j \in 1 .. len + 1 /\ j + 1 \in 1 .. len + 1 /\ j - 1 = k
        /\ j \in 0 .. len /\ (len <= 1 => k = 0) /\ 1 \in 1 .. len /\ j \in 1 .. len
    BY <1>6
  <2>2. g[j] = a \o c /\ a \in Seq(Int) /\ c \in Seq(Int)
    BY <1>8, <1>9, <1>10, <2>1, Zenon DEF Joins
  <2>3. a = MessageArray(T.of, no, e) /\ InnerHolds(T.of, e)
    BY <1>7, <1>8, <2>1, Zenon
  <2>4. p[x] = SubSeq(v, 1, k)
    BY <1>4, Zenon
  <2>5. [p EXCEPT ![x] = SubSeq(v, 1, j)] = q
    <3>1. p = [f \in DOMAIN T.new |-> IF f = x THEN SubSeq(v, 1, k) ELSE u[f]]
      BY <1>4, Zenon
    <3>2. q = [f \in DOMAIN T.new |-> IF f = x THEN SubSeq(v, 1, j) ELSE u[f]]
      BY <1>4, Zenon
    <3>3. [p EXCEPT ![x] = SubSeq(v, 1, j)] =
            [f \in DOMAIN T.new |-> IF f = x THEN SubSeq(v, 1, j) ELSE p[f]]
      BY <3>1, Zenon
    <3>4. \A f \in DOMAIN T.new : f # x => p[f] = u[f]
      BY <3>1, Zenon
    <3> HIDE DEF p, q
    <3> QED
      BY <3>2, <3>3, <3>4, Zenon
  <2>6. Append(SubSeq(v, 1, k), e) = SubSeq(v, 1, j)
    <3>1. j \in 1 .. Len(v) /\ 1 \in 1 .. Len(v)
      BY <2>1, Zenon DEF len
    <3>2. SubSeq(v, 1, j) = SubSeq(v, 1, j - 1) \o <<v[j]>>
      BY <1>6, <3>1, SeqPartMore, Zenon
    <3>3. SubSeq(v, 1, k) \in Seq(Msgs(T.of)) /\ e \in Msgs(T.of)
      BY <1>6, <2>1, <3>1
    <3> DEFINE y == SubSeq(v, 1, k)
    <3> HIDE DEF y, e
    <3>4. Append(y, e) = y \o <<e>>
      BY <3>3, SeqAppendIs, Zenon DEF y
    <3> QED
      BY <2>1, <3>2, <3>4, Zenon DEF y, e
  <2>7. type = "message" => p[x] = <<>>
    <3>1. SubSeq(v, 1, 0) = <<>>
      BY SeqPartNone
    <3> QED
      BY <1>6, <2>1, <2>4, <3>1, Zenon
  <2>8. Good(k)
    BY <1>12, Zenon
  <2> HIDE DEF Part, j, a, c, p, q, e
  <2>9. rest \in Seq(Int) /\ (a \o c) \o r = a \o rest
    BY <2>2, Assoc, SeqConcat, Zenon
  <2> HIDE DEF rest
  <2> DEFINE d == a \o rest
  <2>10. Reached(at, n, Start(d, p))
    BY <2>2, <2>8, <2>9, Zenon DEF j, p
  <2>11. d = MessageArray(T.of, no, e) \o rest
    BY <2>3, Zenon
  <2> HIDE DEF d
  <2>12. ReadsMessage(T, d, p, rest, x, Append(p[x], e))
    BY <1>1, <1>2, <2>3, <2>7, <2>9, <2>11, MessageTurn, Zenon
  <2>13. d \in Seq(Int) /\ Len(rest) < Len(d) /\ Turn(T, Start(d, p), Field(d)) = Start(rest, q)
    BY <2>4, <2>5, <2>6, <2>12, Zenon DEF ReadsMessage
  <2> DEFINE s == Start(d, p)
             t == Start(rest, q)
  <2>14. s.rest = d /\ t.rest = rest /\ s.ok = TRUE
    BY DEF Start
  <2>15. Len(d) \in Nat /\ Len(rest) \in Nat /\ d # <<>>
    BY <2>9, <2>13
  <2>16. ~Ended(s)
    BY <2>14, <2>15, Zenon DEF Ended
  <2>17. t = Turn(T, s, Field(s.rest)) /\ Reached(at, n, s)
    BY <2>10, <2>13, <2>14, Zenon
  <2> HIDE DEF s, t
  <2>18. Len(s.rest) \in Nat /\ Len(t.rest) \in Nat /\ Len(t.rest) < Len(s.rest)
    BY <2>13, <2>14, <2>15, Zenon
  <2>19. Reached(at, n, t)
    BY <2>16, <2>17, <2>18, On, Zenon
  <2>20. Good(j)
    BY <2>19, Zenon DEF t, rest, c, q
  <2> QED
    BY <2>1, <2>20, Zenon DEF j
<1> HIDE DEF S
<1>13. \A k \in 0 .. len : k \in S
  BY <1>6, <1>11, <1>12, Climb, Zenon
<1>14. len \in 0 .. len
  BY <1>6
<1>15. Good(len)
  BY <1>13, <1>14, Zenon DEF S
<1>16. SubSeq(v, 1, len) = v
  BY <1>6, SeqWhole DEF len
<1>17. g[len + 1] \o r = r
  <2>1. g[len + 1] = <<>>
    BY <1>9, Zenon DEF Joins
  <2>2. <<>> \o r = r
    BY SeqConcatNone
  <2> QED
    BY <2>1, <2>2, Zenon
<1>18. Part(len) = w
  BY <1>4, <1>16, Zenon
<1> HIDE DEF Part
<1>19. Reached(at, n, Start(r, w))
  BY <1>15, <1>17, <1>18, Zenon
<1> QED
  BY <1>19, Zenon DEF w

-----------------------------------------------------------------------------
(* The round trip                                                          *)

\* The messages of a field's type have their tables in step too.
Nested(T) ==
    \A i \in 1 .. Len(T.write) : IsMessage(Type(T, i)) => InStep(T.of) /\ SizeInStep(T.of)

\* A message whose numbers fit their types.
Fits(T, m) ==
    /\ m = [f \in DOMAIN T.new |-> m[f]]
    /\ \A i \in 1 .. Len(T.write) :
          IF IsMessage(Type(T, i)) THEN MessagesHold(T, m[Name(T, i)], Type(T, i))
          ELSE Holds(m[Name(T, i)], Type(T, i))

\* The bytes of a field.
LEMMA FieldBytes ==
    ASSUME NEW T, InStep(T), Nested(T), NEW m, Fits(T, m), NEW i \in 1 .. Len(T.write)
    PROVE  FieldArray(T, T.write[i][1], m[Name(T, i)], Type(T, i)) \in Seq(Int)
<1> DEFINE no == T.write[i][1]
           v == m[Name(T, i)]
           type == Type(T, i)
<1>1. no \in Nat
  BY Zenon DEF InStep
<1>2. CASE ~IsMessage(type)
  <2>1. Holds(v, type) /\ FieldArray(T, no, v, type) = ScalarArray(no, v, type)
    BY <1>2, Zenon DEF Fits, FieldArray
  <2> QED
    BY <1>1, <2>1, ScalarBytes, Zenon
<1>3. CASE IsMessage(type)
  <2> DEFINE len == Len(v)
             ss == [k \in 1 .. len |-> MessageArray(T.of, no, v[k])]
  <2>1. v \in Seq(Msgs(T.of)) /\ InStep(T.of) /\ SizeInStep(T.of)
    BY <1>3, Zenon DEF Fits, MessagesHold, Nested
  <2>2. len \in Nat
    BY <2>1, SeqLen, Zenon
  <2>3. FieldArray(T, no, v, type) = Join(len, ss)
    BY <1>3 DEF FieldArray
  <2> HIDE DEF v
  <2>4. ASSUME NEW k \in 1 .. len PROVE ss[k] \in Seq(Int)
    <3>1. ss[k] = MessageArray(T.of, no, v[k])
      BY Zenon
    <3>2. InnerHolds(T.of, v[k])
      <4>1. v[k] \in Msgs(T.of)
        BY <2>1, SeqAt, Zenon
      <4> QED
        BY <4>1, Zenon DEF Msgs
    <3>3. MessageBytesAre(T.of, no, v[k])
      BY <1>1, <2>1, <3>2, MessageBytes, Zenon
    <3> QED
      BY <3>1, <3>3, Zenon DEF MessageBytesAre
  <2> HIDE DEF len, ss
  <2>5. PICK g : Joins(g, len, ss) /\ Join(len, ss) = g[1]
    BY <2>2, JoinIs, Zenon
  <2>6. \A k \in 1 .. len + 1 : g[k] \in Seq(Int)
    BY <2>2, <2>4, <2>5, JoinBytes, Zenon
  <2>7. 1 \in 1 .. len + 1
    BY <2>2
  <2> QED
    BY <2>3, <2>5, <2>6, <2>7, Zenon DEF v
<1> QED
  BY <1>2, <1>3, Zenon

\* What ToArray writes, MergePartialFromCodedStream reads back into a new message.
LEMMA Trip ==
    ASSUME NEW T, InStep(T), Nested(T), NEW m, Fits(T, m)
    PROVE  MergePartial(T, ToArray(T, m), T.new) = Start(<<>>, m) /\ ToArray(T, m) \in Seq(Int)
<1> DEFINE n == Len(T.write)
           ss == [i \in 1 .. n |-> FieldArray(T, T.write[i][1], m[T.write[i][2]], T.write[i][3])]
           b == ToArray(T, m)
<1>1. n \in Nat
  BY Zenon DEF InStep
<1>2. \A i \in 1 .. n : ss[i] = FieldArray(T, T.write[i][1], m[Name(T, i)], Type(T, i))
  BY Zenon DEF Name, Type
<1>3. b = Join(n, ss)
  BY Zenon DEF ToArray
<1>4. \A i \in 1 .. n : FieldArray(T, T.write[i][1], m[Name(T, i)], Type(T, i)) \in Seq(Int)
  BY FieldBytes, Zenon
<1> HIDE DEF n, ss, b
<1>5. ASSUME NEW i \in 1 .. n PROVE ss[i] \in Seq(Int)
  BY <1>2, <1>4, Zenon
<1>6. PICK f : Joins(f, n, ss) /\ b = f[1]
  BY <1>1, <1>3, JoinIs, Zenon
<1>7. \A i \in 1 .. n + 1 : f[i] \in Seq(Int)
  BY <1>1, <1>5, <1>6, JoinBytes, Zenon
<1>8. 1 \in 1 .. n + 1
  BY <1>1
<1>9. b \in Seq(Int) /\ Len(b) \in Nat
  <2>1. b \in Seq(Int)
    BY <1>6, <1>7, <1>8, Zenon
  <2> QED
    BY <2>1
<1>10. PICK at : /\ Runs(at, T, b, T.new, Len(b))
                 /\ MergePartial(T, b, T.new) = at[CHOOSE k \in 0 .. Len(b) : Ended(at[k])]
  BY <1>9, MergePartialIs, Zenon
<1> DEFINE Good(i) == Reached(at, Len(b), Start(f[i + 1], Upto(T, m, i)))
           S == {i \in 0 .. n : Good(i)}
<1>11. 0 \in S
  <2>1. Upto(T, m, 0) = T.new
    BY UptoEnds, Zenon DEF Fits
  <2>2. at[0] = Start(b, T.new)
    BY <1>10, Zenon DEF Runs
  <2>3. Start(b, T.new).rest = b
    BY DEF Start
  <2>4. 0 \in 0 .. Len(b) /\ 0 + Len(b) <= Len(b) /\ 0 + 1 = 1 /\ 0 \in 0 .. n
    BY <1>1, <1>9
  <2>5. Reached(at, Len(b), Start(b, T.new))
    BY <2>2, <2>3, <2>4, Zenon DEF Reached
  <2>6. Good(0)
    BY <1>6, <2>1, <2>4, <2>5, Zenon
  <2> QED
    BY <2>4, <2>6, Zenon
<1>12. ASSUME NEW k \in 0 .. n - 1, k \in S PROVE k + 1 \in S
  <2> DEFINE i == k + 1
             c == f[i]
             r == f[i + 1]
             u == Upto(T, m, i - 1)
             w == Upto(T, m, i)
  <2>1. i \in 1 .. n /\ i \in 1 .. n + 1 /\ i + 1 \in 1 .. n + 1 /\ i - 1 = k /\ i \in 0 .. n
    BY <1>1
  <2>2. c = ss[i] \o r /\ c \in Seq(Int) /\ r \in Seq(Int)
    BY <1>6, <1>7, <2>1, Zenon DEF Joins
  <2>3. Good(k)
    BY <1>12, Zenon
  <2> HIDE DEF i
  <2>4. Reached(at, Len(b), Start(c, u))
    BY <2>1, <2>3, Zenon DEF i
  <2> HIDE DEF r
  <2> DEFINE fld == FieldArray(T, T.write[i][1], m[Name(T, i)], Type(T, i))
  <2>5. c = fld \o r
    BY <1>2, <2>1, <2>2, Zenon
  <2>6. ASSUME IsMessage(Type(T, i)) PROVE Reached(at, Len(b), Start(r, w))
    <3>1. MessagesHold(T, m[Name(T, i)], Type(T, i)) /\ InStep(T.of) /\ SizeInStep(T.of)
      BY <2>1, <2>6, Zenon DEF Fits, Nested, n
    <3>2. Reached(at, Len(b), Start(fld \o r, u))
      BY <2>4, <2>5, Zenon
    <3>3. i \in 1 .. Len(T.write)
      BY <2>1, Zenon DEF n
    <3> QED
      BY <1>9, <1>10, <2>2, <2>6, <3>1, <3>2, <3>3, MessageRow, Zenon
  <2>7. ASSUME ~IsMessage(Type(T, i)) PROVE Reached(at, Len(b), Start(r, w))
    <3>1. fld = ScalarArray(T.write[i][1], m[Name(T, i)], Type(T, i))
      BY <2>7, Zenon DEF FieldArray
    <3>2. Holds(m[Name(T, i)], Type(T, i)) /\ i \in 1 .. Len(T.write)
      BY <2>1, <2>7, Zenon DEF Fits, n
    <3> HIDE DEF fld
    <3>3. Leads(T, ScalarArray(T.write[i][1], m[Name(T, i)], Type(T, i)) \o r, u, r, w)
      BY <2>2, <3>2, ScalarRow, Zenon
    <3>4. Leads(T, c, u, r, w)
      BY <2>5, <3>1, <3>3, Zenon
    <3> HIDE DEF c, u, w
    <3>5. CASE c = r /\ u = w
      BY <2>4, <3>5, Zenon
    <3>6. CASE ~(c = r /\ u = w)
      <4> DEFINE s == Start(c, u)
                 t == Start(r, w)
      <4>1. Len(r) < Len(c) /\ ~Ended(s) /\ t = Turn(T, s, Field(c))
        BY <3>4, <3>6, Zenon DEF Leads
      <4>2. s.rest = c /\ t.rest = r
        BY DEF Start
      <4> HIDE DEF s, t
      <4>3. Len(c) \in Nat /\ Len(r) \in Nat
        BY <2>2
      <4>4. Reached(at, Len(b), s)
        BY <2>4, Zenon DEF s
      <4>5. Reached(at, Len(b), t)
        BY <1>9, <1>10, <4>1, <4>2, <4>3, <4>4, On, Zenon
      <4> QED
        BY <4>5, Zenon DEF t
    <3> QED
      BY <3>5, <3>6, Zenon
  <2>8. Reached(at, Len(b), Start(r, w))
    BY <2>6, <2>7, Zenon
  <2> QED
    BY <2>1, <2>8, Zenon DEF i, r
<1> HIDE DEF S
<1>13. \A k \in 0 .. n : k \in S
  BY <1>1, <1>11, <1>12, Climb, Zenon
<1>14. n \in 0 .. n
  BY <1>1
<1> DEFINE e == Start(<<>>, m)
<1>15. Reached(at, Len(b), e)
  <2>1. Good(n)
    BY <1>13, <1>14, Zenon DEF S
  <2>2. Upto(T, m, n) = m
    BY UptoEnds, Zenon DEF Fits, n
  <2>3. f[n + 1] = <<>>
    BY <1>6, Zenon DEF Joins
  <2> QED
    BY <2>1, <2>2, <2>3, Zenon
<1>16. Ended(e)
  BY DEF Ended, Start
<1> HIDE DEF e
<1>17. \A k \in 1 .. Len(b) : Ended(at[k - 1]) => at[k] = at[k - 1]
  BY <1>10, Zenon DEF Runs
<1>18. at[CHOOSE k \in 0 .. Len(b) : Ended(at[k])] = e
  BY <1>9, <1>15, <1>16, <1>17, Settled, Zenon
<1> QED
  BY <1>9, <1>10, <1>18, Zenon DEF b, e

\* ParseFromArray reads what ToArray has written, whatever the object it reads
\* into held before.
LEMMA RoundTrip ==
    ASSUME NEW T, InStep(T), Nested(T), NEW m, Fits(T, m), NEW old, DOMAIN old = DOMAIN T.new
    PROVE  /\ ParseFromArray(T, ToArray(T, m), old).ok = TRUE
           /\ ParseFromArray(T, ToArray(T, m), old).msg = m
<1>1. Clear(T, old) = [f \in DOMAIN T.new |-> T.new[f]]
  BY Zenon DEF Clear, InStep
<1>2. Clear(T, old) = T.new
  BY <1>1, Zenon DEF InStep
<1>3. ParseFromArray(T, ToArray(T, m), old) = Start(<<>>, m)
  BY <1>2, Trip, Zenon DEF ParseFromArray
<1> QED
  BY <1>3 DEF Start

-----------------------------------------------------------------------------
(* The tables of lars.pb.cc                                                *)

\* What InStep asks of one row, and what the tables say of it.
RowInStep(T, i) ==
    /\ T.write[i][1] \in Nat
    /\ RowIs(T, Tag(T.write[i]), Name(T, i), Type(T, i))
    /\ T.new[Name(T, i)] = Default(Type(T, i))
RowFits(T, i, no, tag, name, type) ==
    /\ no \in Nat /\ T.write[i] = <<no, name, type>> /\ Tag(<<no, name, type>>) = tag
    /\ <<tag, name, type>> \in T.parse
    /\ \A r \in T.parse : r[1] = tag => r = <<tag, name, type>>
    /\ T.new[name] = Default(type)

\* A row is in step when the tag parsing knows it by is the one it is written
\* with, and no other field has that tag.
LEMMA RowFound ==
    ASSUME NEW T, NEW i, NEW no, NEW tag, NEW name, NEW type,
           RowFits(T, i, no, tag, name, type)
    PROVE  RowInStep(T, i)
<1>1. T.write[i] = <<no, name, type>> /\ no \in Nat /\ Tag(<<no, name, type>>) = tag
  BY Zenon DEF RowFits
<1>2. /\ <<tag, name, type>>[1] = tag /\ T.write[i][1] = no
      /\ Name(T, i) = name /\ Type(T, i) = type
  BY <1>1 DEF Name, Type
<1>3. RowIs(T, tag, name, type)
  BY <1>2, Zenon DEF RowFits, RowIs, Known, Row
<1> QED
  BY <1>1, <1>2, <1>3, Zenon DEF RowFits, RowInStep

\* The functions of HostInfo agree on its fields.
LEMMA HostInfoInStep == InStep(HostInfo)
<1>1. Len(HostInfo.write) = 2 /\ 1 .. Len(HostInfo.write) = {1, 2}
  BY DEF HostInfo, HostInfo_write
<1>2. /\ HostInfo.write[1] = <<1, "ip", "int32">>
      /\ HostInfo.write[2] = <<2, "port", "int32">>
  BY DEF HostInfo, HostInfo_write
<1>3. /\ <<8, "ip", "int32">> \in HostInfo.parse
      /\ <<16, "port", "int32">> \in HostInfo.parse
  BY Zenon DEF HostInfo, HostInfo_parse
<1>4. /\ \A r \in HostInfo.parse : r[1] = 8 => r = <<8, "ip", "int32">>
      /\ \A r \in HostInfo.parse : r[1] = 16 => r = <<16, "port", "int32">>
  BY DEF HostInfo, HostInfo_parse
<1>5. /\ HostInfo.new["ip"] = 0
      /\ HostInfo.new["port"] = 0
  BY DEF HostInfo, HostInfo_new
<1>6. /\ DOMAIN HostInfo.new = {"ip", "port"}
      /\ HostInfo.new = [f \in DOMAIN HostInfo.new |-> HostInfo.new[f]]
  BY DEF HostInfo, HostInfo_new
<1>7. DOMAIN HostInfo.new \subseteq HostInfo.clear
  BY <1>6 DEF HostInfo, HostInfo_clear
<1>8. RowInStep(HostInfo, 1)
  <2>1. 1 \in Nat /\ Tag(<<1, "ip", "int32">>) = 8
    BY DEF Tag, IsMessage
  <2>2. RowFits(HostInfo, 1, 1, 8, "ip", "int32")
    BY <1>2, <1>3, <1>4, <1>5, <2>1, Zenon DEF RowFits, Default, IsMessage
  <2> QED
    BY <2>2, RowFound, Zenon
<1>9. RowInStep(HostInfo, 2)
  <2>1. 2 \in Nat /\ Tag(<<2, "port", "int32">>) = 16
    BY DEF Tag, IsMessage
  <2>2. RowFits(HostInfo, 2, 2, 16, "port", "int32")
    BY <1>2, <1>3, <1>4, <1>5, <2>1, Zenon DEF RowFits, Default, IsMessage
  <2> QED
    BY <2>2, RowFound, Zenon
<1>10. \A i \in 1 .. Len(HostInfo.write) : RowInStep(HostInfo, i)
  BY <1>1, <1>8, <1>9, Zenon
<1>11. /\ Name(HostInfo, 1) = "ip"
       /\ Name(HostInfo, 2) = "port"
  BY <1>2 DEF Name
<1>12. DOMAIN HostInfo.new = {Name(HostInfo, i) : i \in 1 .. Len(HostInfo.write)}
  <2>1. {Name(HostInfo, i) : i \in {1, 2}} = {Name(HostInfo, 1), Name(HostInfo, 2)}
    BY Zenon
  <2> QED
    BY <1>1, <1>6, <1>11, <2>1, Zenon
<1>13. ASSUME NEW i \in 1 .. Len(HostInfo.write), NEW j \in 1 .. Len(HostInfo.write),
              Name(HostInfo, i) = Name(HostInfo, j)
       PROVE  i = j
  BY <1>1, <1>11, <1>13
<1>14. Len(HostInfo.write) \in Nat
  BY <1>1
<1> QED
  BY <1>6, <1>7, <1>10, <1>12, <1>13, <1>14, Zenon DEF InStep, RowInStep

\* HostInfo::ByteSizeLong counts what is written.
LEMMA HostInfoSizes == SizeInStep(HostInfo)
<1>1. Len(HostInfo.write) = 2 /\ Len(HostInfo.size) = 2 /\ 1 .. Len(HostInfo.write) = {1, 2}
  BY DEF HostInfo, HostInfo_write, HostInfo_size
<1>2. /\ HostInfo.size[1][1] = Name(HostInfo, 1) /\ HostInfo.size[1][2] = Type(HostInfo, 1)
      /\ HostInfo.size[2][1] = Name(HostInfo, 2) /\ HostInfo.size[2][2] = Type(HostInfo, 2)
  BY DEF HostInfo, HostInfo_write, HostInfo_size, Name, Type
<1>3. ASSUME NEW i \in 1 .. Len(HostInfo.write)
      PROVE  HostInfo.size[i][1] = Name(HostInfo, i) /\ HostInfo.size[i][2] = Type(HostInfo, i)
  BY <1>1, <1>2, Zenon
<1>4. Len(HostInfo.write) <= 15
  BY <1>1
<1> QED
  BY <1>1, <1>3, <1>4, Zenon DEF SizeInStep

\* The functions of HostCallResult agree on its fields.
LEMMA HostCallResultInStep == InStep(HostCallResult)
<1>1. Len(HostCallResult.write) = 5 /\ 1 .. Len(HostCallResult.write) = {1, 2, 3, 4, 5}
  BY DEF HostCallResult, HostCallResult_write
<1>2. /\ HostCallResult.write[1] = <<1, "ip", "int32">>
      /\ HostCallResult.write[2] = <<2, "port", "int32">>
      /\ HostCallResult.write[3] = <<3, "succ", "uint32">>
      /\ HostCallResult.write[4] = <<4, "err", "uint32">>
      /\ HostCallResult.write[5] = <<5, "overload", "bool">>
  BY DEF HostCallResult, HostCallResult_write
<1>3. /\ <<8, "ip", "int32">> \in HostCallResult.parse
      /\ <<16, "port", "int32">> \in HostCallResult.parse
      /\ <<24, "succ", "uint32">> \in HostCallResult.parse
      /\ <<32, "err", "uint32">> \in HostCallResult.parse
      /\ <<40, "overload", "bool">> \in HostCallResult.parse
  BY Zenon DEF HostCallResult, HostCallResult_parse
<1>4. /\ \A r \in HostCallResult.parse : r[1] = 8 => r = <<8, "ip", "int32">>
      /\ \A r \in HostCallResult.parse : r[1] = 16 => r = <<16, "port", "int32">>
      /\ \A r \in HostCallResult.parse : r[1] = 24 => r = <<24, "succ", "uint32">>
      /\ \A r \in HostCallResult.parse : r[1] = 32 => r = <<32, "err", "uint32">>
      /\ \A r \in HostCallResult.parse : r[1] = 40 => r = <<40, "overload", "bool">>
  BY DEF HostCallResult, HostCallResult_parse
<1>5. /\ HostCallResult.new["ip"] = 0
      /\ HostCallResult.new["port"] = 0
      /\ HostCallResult.new["succ"] = 0
      /\ HostCallResult.new["err"] = 0
      /\ HostCallResult.new["overload"] = FALSE
  BY DEF HostCallResult, HostCallResult_new
<1>6. /\ DOMAIN HostCallResult.new = {"ip", "port", "succ", "err", "overload"}
      /\ HostCallResult.new = [f \in DOMAIN HostCallResult.new |-> HostCallResult.new[f]]
  BY DEF HostCallResult, HostCallResult_new
<1>7. DOMAIN HostCallResult.new \subseteq HostCallResult.clear
  BY <1>6 DEF HostCallResult, HostCallResult_clear
<1>8. RowInStep(HostCallResult, 1)
  <2>1. 1 \in Nat /\ Tag(<<1, "ip", "int32">>) = 8
    BY DEF Tag, IsMessage
  <2>2. RowFits(HostCallResult, 1, 1, 8, "ip", "int32")
    BY <1>2, <1>3, <1>4, <1>5, <2>1, Zenon DEF RowFits, Default, IsMessage
  <2> QED
    BY <2>2, RowFound, Zenon
<1>9. RowInStep(HostCallResult, 2)
  <2>1. 2 \in Nat /\ Tag(<<2, "port", "int32">>) = 16
    BY DEF Tag, IsMessage
  <2>2. RowFits(HostCallResult, 2, 2, 16, "port", "int32")
    BY <1>2, <1>3, <1>4, <1>5, <2>1, Zenon DEF RowFits, Default, IsMessage
  <2> QED
    BY <2>2, RowFound, Zenon
<1>10. RowInStep(HostCallResult, 3)
  <2>1. 3 \in Nat /\ Tag(<<3, "succ", "uint32">>) = 24
    BY DEF Tag, IsMessage
  <2>2. RowFits(HostCallResult, 3, 3, 24, "succ", "uint32")
    BY <1>2, <1>3, <1>4, <1>5, <2>1, Zenon DEF RowFits, Default, IsMessage
  <2> QED
    BY <2>2, RowFound, Zenon
<1>11. RowInStep(HostCallResult, 4)
  <2>1. 4 \in Nat /\ Tag(<<4, "err", "uint32">>) = 32
    BY DEF Tag, IsMessage
  <2>2. RowFits(HostCallResult, 4, 4, 32, "err", "uint32")
    BY <1>2, <1>3, <1>4, <1>5, <2>1, Zenon DEF RowFits, Default, IsMessage
  <2> QED
    BY <2>2, RowFound, Zenon
<1>12. RowInStep(HostCallResult, 5)
  <2>1. 5 \in Nat /\ Tag(<<5, "overload", "bool">>) = 40
    BY DEF Tag, IsMessage
  <2>2. RowFits(HostCallResult, 5, 5, 40, "overload", "bool")
    BY <1>2, <1>3, <1>4, <1>5, <2>1, Zenon DEF RowFits, Default, IsMessage
  <2> QED
    BY <2>2, RowFound, Zenon
<1>13. \A i \in 1 .. Len(HostCallResult.write) : RowInStep(HostCallResult, i)
  BY <1>1, <1>8, <1>9, <1>10, <1>11, <1>12, Zenon
<1>14. /\ Name(HostCallResult, 1) = "ip"
       /\ Name(HostCallResult, 2) = "port"
       /\ Name(HostCallResult, 3) = "succ"
       /\ Name(HostCallResult, 4) = "err"
       /\ Name(HostCallResult, 5) = "overload"
  BY <1>2 DEF Name
<1>15. DOMAIN HostCallResult.new = {Name(HostCallResult, i) : i \in 1 .. Len(HostCallResult.write)}
  <2>1. {Name(HostCallResult, i) : i \in {1, 2, 3, 4, 5}} = {Name(HostCallResult, 1), Name(HostCallResult, 2), Name(HostCallResult, 3), Name(HostCallResult, 4), Name(HostCallResult, 5)}
    BY Zenon
  <2> QED
    BY <1>1, <1>6, <1>14, <2>1, Zenon
<1>16. ASSUME NEW i \in 1 .. Len(HostCallResult.write), NEW j \in 1 .. Len(HostCallResult.write),
              Name(HostCallResult, i) = Name(HostCallResult, j)
       PROVE  i = j
  BY <1>1, <1>14, <1>16
<1>17. Len(HostCallResult.write) \in Nat
  BY <1>1
<1> QED
  BY <1>6, <1>7, <1>13, <1>15, <1>16, <1>17, Zenon DEF InStep, RowInStep

\* HostCallResult::ByteSizeLong counts what is written.
LEMMA HostCallResultSizes == SizeInStep(HostCallResult)
<1>1. Len(HostCallResult.write) = 5 /\ Len(HostCallResult.size) = 5 /\ 1 .. Len(HostCallResult.write) = {1, 2, 3, 4, 5}
  BY DEF HostCallResult, HostCallResult_write, HostCallResult_size
<1>2. /\ HostCallResult.size[1][1] = Name(HostCallResult, 1) /\ HostCallResult.size[1][2] = Type(HostCallResult, 1)
      /\ HostCallResult.size[2][1] = Name(HostCallResult, 2) /\ HostCallResult.size[2][2] = Type(HostCallResult, 2)
      /\ HostCallResult.size[3][1] = Name(HostCallResult, 3) /\ HostCallResult.size[3][2] = Type(HostCallResult, 3)
      /\ HostCallResult.size[4][1] = Name(HostCallResult, 4) /\ HostCallResult.size[4][2] = Type(HostCallResult, 4)
      /\ HostCallResult.size[5][1] = Name(HostCallResult, 5) /\ HostCallResult.size[5][2] = Type(HostCallResult, 5)
  BY DEF HostCallResult, HostCallResult_write, HostCallResult_size, Name, Type
<1>3. ASSUME NEW i \in 1 .. Len(HostCallResult.write)
      PROVE  HostCallResult.size[i][1] = Name(HostCallResult, i) /\ HostCallResult.size[i][2] = Type(HostCallResult, i)
  BY <1>1, <1>2, Zenon
<1>4. Len(HostCallResult.write) <= 15
  BY <1>1
<1> QED
  BY <1>1, <1>3, <1>4, Zenon DEF SizeInStep

\* The functions of GetRouteRequest agree on its fields.
LEMMA GetRouteRequestInStep == InStep(GetRouteRequest)
<1>1. Len(GetRouteRequest.write) = 2 /\ 1 .. Len(GetRouteRequest.write) = {1, 2}
  BY DEF GetRouteRequest, GetRouteRequest_write
<1>2. /\ GetRouteRequest.write[1] = <<1, "modid", "int32">>
      /\ GetRouteRequest.write[2] = <<2, "cmdid", "int32">>
  BY DEF GetRouteRequest, GetRouteRequest_write
<1>3. /\ <<8, "modid", "int32">> \in GetRouteRequest.parse
      /\ <<16, "cmdid", "int32">> \in GetRouteRequest.parse
  BY Zenon DEF GetRouteRequest, GetRouteRequest_parse
<1>4. /\ \A r \in GetRouteRequest.parse : r[1] = 8 => r = <<8, "modid", "int32">>
      /\ \A r \in GetRouteRequest.parse : r[1] = 16 => r = <<16, "cmdid", "int32">>
  BY DEF GetRouteRequest, GetRouteRequest_parse
<1>5. /\ GetRouteRequest.new["modid"] = 0
      /\ GetRouteRequest.new["cmdid"] = 0
  BY DEF GetRouteRequest, GetRouteRequest_new
<1>6. /\ DOMAIN GetRouteRequest.new = {"modid", "cmdid"}
      /\ GetRouteRequest.new = [f \in DOMAIN GetRouteRequest.new |-> GetRouteRequest.new[f]]
  BY DEF GetRouteRequest, GetRouteRequest_new
<1>7. DOMAIN GetRouteRequest.new \subseteq GetRouteRequest.clear
  BY <1>6 DEF GetRouteRequest, GetRouteRequest_clear
<1>8. RowInStep(GetRouteRequest, 1)
  <2>1. 1 \in Nat /\ Tag(<<1, "modid", "int32">>) = 8
    BY DEF Tag, IsMessage
  <2>2. RowFits(GetRouteRequest, 1, 1, 8, "modid", "int32")
    BY <1>2, <1>3, <1>4, <1>5, <2>1, Zenon DEF RowFits, Default, IsMessage
  <2> QED
    BY <2>2, RowFound, Zenon
<1>9. RowInStep(GetRouteRequest, 2)
  <2>1. 2 \in Nat /\ Tag(<<2, "cmdid", "int32">>) = 16
    BY DEF Tag, IsMessage
  <2>2. RowFits(GetRouteRequest, 2, 2, 16, "cmdid", "int32")
    BY <1>2, <1>3, <1>4, <1>5, <2>1, Zenon DEF RowFits, Default, IsMessage
  <2> QED
    BY <2>2, RowFound, Zenon
<1>10. \A i \in 1 .. Len(GetRouteRequest.write) : RowInStep(GetRouteRequest, i)
  BY <1>1, <1>8, <1>9, Zenon
<1>11. /\ Name(GetRouteRequest, 1) = "modid"
       /\ Name(GetRouteRequest, 2) = "cmdid"
  BY <1>2 DEF Name
<1>12. DOMAIN GetRouteRequest.new = {Name(GetRouteRequest, i) : i \in 1 .. Len(GetRouteRequest.write)}
  <2>1. {Name(GetRouteRequest, i) : i \in {1, 2}} = {Name(GetRouteRequest, 1), Name(GetRouteRequest, 2)}
    BY Zenon
  <2> QED
    BY <1>1, <1>6, <1>11, <2>1, Zenon
<1>13. ASSUME NEW i \in 1 .. Len(GetRouteRequest.write), NEW j \in 1 .. Len(GetRouteRequest.write),
              Name(GetRouteRequest, i) = Name(GetRouteRequest, j)
       PROVE  i = j
  BY <1>1, <1>11, <1>13
<1>14. Len(GetRouteRequest.write) \in Nat
  BY <1>1
<1> QED
  BY <1>6, <1>7, <1>10, <1>12, <1>13, <1>14, Zenon DEF InStep, RowInStep

\* The functions of GetRouteResponse agree on its fields.
LEMMA GetRouteResponseInStep == InStep(GetRouteResponse)
<1>1. Len(GetRouteResponse.write) = 3 /\ 1 .. Len(GetRouteResponse.write) = {1, 2, 3}
  BY DEF GetRouteResponse, GetRouteResponse_write
<1>2. /\ GetRouteResponse.write[1] = <<1, "modid", "int32">>
      /\ GetRouteResponse.write[2] = <<2, "cmdid", "int32">>
      /\ GetRouteResponse.write[3] = <<3, "host", "repeated">>
  BY DEF GetRouteResponse, GetRouteResponse_write
<1>3. /\ <<8, "modid", "int32">> \in GetRouteResponse.parse
      /\ <<16, "cmdid", "int32">> \in GetRouteResponse.parse
      /\ <<26, "host", "repeated">> \in GetRouteResponse.parse
  BY Zenon DEF GetRouteResponse, GetRouteResponse_parse
<1>4. /\ \A r \in GetRouteResponse.parse : r[1] = 8 => r = <<8, "modid", "int32">>
      /\ \A r \in GetRouteResponse.parse : r[1] = 16 => r = <<16, "cmdid", "int32">>
      /\ \A r \in GetRouteResponse.parse : r[1] = 26 => r = <<26, "host", "repeated">>
  BY DEF GetRouteResponse, GetRouteResponse_parse
<1>5. /\ GetRouteResponse.new["modid"] = 0
      /\ GetRouteResponse.new["cmdid"] = 0
      /\ GetRouteResponse.new["host"] = <<>>
  BY DEF GetRouteResponse, GetRouteResponse_new
<1>6. /\ DOMAIN GetRouteResponse.new = {"modid", "cmdid", "host"}
      /\ GetRouteResponse.new = [f \in DOMAIN GetRouteResponse.new |-> GetRouteResponse.new[f]]
  BY DEF GetRouteResponse, GetRouteResponse_new
<1>7. DOMAIN GetRouteResponse.new \subseteq GetRouteResponse.clear
  BY <1>6 DEF GetRouteResponse, GetRouteResponse_clear
<1>8. RowInStep(GetRouteResponse, 1)
  <2>1. 1 \in Nat /\ Tag(<<1, "modid", "int32">>) = 8
    BY DEF Tag, IsMessage
  <2>2. RowFits(GetRouteResponse, 1, 1, 8, "modid", "int32")
    BY <1>2, <1>3, <1>4, <1>5, <2>1, Zenon DEF RowFits, Default, IsMessage
  <2> QED
    BY <2>2, RowFound, Zenon
<1>9. RowInStep(GetRouteResponse, 2)
  <2>1. 2 \in Nat /\ Tag(<<2, "cmdid", "int32">>) = 16
    BY DEF Tag, IsMessage
  <2>2. RowFits(GetRouteResponse, 2, 2, 16, "cmdid", "int32")
    BY <1>2, <1>3, <1>4, <1>5, <2>1, Zenon DEF RowFits, Default, IsMessage
  <2> QED
    BY <2>2, RowFound, Zenon
<1>10. RowInStep(GetRouteResponse, 3)
  <2>1. 3 \in Nat /\ Tag(<<3, "host", "repeated">>) = 26
    BY DEF Tag, IsMessage
  <2>2. RowFits(GetRouteResponse, 3, 3, 26, "host", "repeated")
    BY <1>2, <1>3, <1>4, <1>5, <2>1, Zenon DEF RowFits, Default, IsMessage
  <2> QED
    BY <2>2, RowFound, Zenon
<1>11. \A i \in 1 .. Len(GetRouteResponse.write) : RowInStep(GetRouteResponse, i)
  BY <1>1, <1>8, <1>9, <1>10, Zenon
<1>12. /\ Name(GetRouteResponse, 1) = "modid"
       /\ Name(GetRouteResponse, 2) = "cmdid"
       /\ Name(GetRouteResponse, 3) = "host"
  BY <1>2 DEF Name
<1>13. DOMAIN GetRouteResponse.new = {Name(GetRouteResponse, i) : i \in 1 .. Len(GetRouteResponse.write)}
  <2>1. {Name(GetRouteResponse, i) : i \in {1, 2, 3}} = {Name(GetRouteResponse, 1), Name(GetRouteResponse, 2), Name(GetRouteResponse, 3)}
    BY Zenon
  <2> QED
    BY <1>1, <1>6, <1>12, <2>1, Zenon
<1>14. ASSUME NEW i \in 1 .. Len(GetRouteResponse.write), NEW j \in 1 .. Len(GetRouteResponse.write),
              Name(GetRouteResponse, i) = Name(GetRouteResponse, j)
       PROVE  i = j
  BY <1>1, <1>12, <1>14
<1>15. Len(GetRouteResponse.write) \in Nat
  BY <1>1
<1> QED
  BY <1>6, <1>7, <1>11, <1>13, <1>14, <1>15, Zenon DEF InStep, RowInStep

\* The functions of ReportStatusRequest agree on its fields.
LEMMA ReportStatusRequestInStep == InStep(ReportStatusRequest)
<1>1. Len(ReportStatusRequest.write) = 5 /\ 1 .. Len(ReportStatusRequest.write) = {1, 2, 3, 4, 5}
  BY DEF ReportStatusRequest, ReportStatusRequest_write
<1>2. /\ ReportStatusRequest.write[1] = <<1, "modid", "int32">>
      /\ ReportStatusRequest.write[2] = <<2, "cmdid", "int32">>
      /\ ReportStatusRequest.write[3] = <<3, "caller", "int32">>
      /\ ReportStatusRequest.write[4] = <<4, "results", "repeated">>
      /\ ReportStatusRequest.write[5] = <<5, "ts", "uint32">>
  BY DEF ReportStatusRequest, ReportStatusRequest_write
<1>3. /\ <<8, "modid", "int32">> \in ReportStatusRequest.parse
      /\ <<16, "cmdid", "int32">> \in ReportStatusRequest.parse
      /\ <<24, "caller", "int32">> \in ReportStatusRequest.parse
      /\ <<34, "results", "repeated">> \in ReportStatusRequest.parse
      /\ <<40, "ts", "uint32">> \in ReportStatusRequest.parse
  BY Zenon DEF ReportStatusRequest, ReportStatusRequest_parse
<1>4. /\ \A r \in ReportStatusRequest.parse : r[1] = 8 => r = <<8, "modid", "int32">>
      /\ \A r \in ReportStatusRequest.parse : r[1] = 16 => r = <<16, "cmdid", "int32">>
      /\ \A r \in ReportStatusRequest.parse : r[1] = 24 => r = <<24, "caller", "int32">>
      /\ \A r \in ReportStatusRequest.parse : r[1] = 34 => r = <<34, "results", "repeated">>
      /\ \A r \in ReportStatusRequest.parse : r[1] = 40 => r = <<40, "ts", "uint32">>
  BY DEF ReportStatusRequest, ReportStatusRequest_parse
<1>5. /\ ReportStatusRequest.new["modid"] = 0
      /\ ReportStatusRequest.new["cmdid"] = 0
      /\ ReportStatusRequest.new["caller"] = 0
      /\ ReportStatusRequest.new["results"] = <<>>
      /\ ReportStatusRequest.new["ts"] = 0
  BY DEF ReportStatusRequest, ReportStatusRequest_new
<1>6. /\ DOMAIN ReportStatusRequest.new = {"modid", "cmdid", "caller", "results", "ts"}
      /\ ReportStatusRequest.new = [f \in DOMAIN ReportStatusRequest.new |-> ReportStatusRequest.new[f]]
  BY DEF ReportStatusRequest, ReportStatusRequest_new
<1>7. DOMAIN ReportStatusRequest.new \subseteq ReportStatusRequest.clear
  BY <1>6 DEF ReportStatusRequest, ReportStatusRequest_clear
<1>8. RowInStep(ReportStatusRequest, 1)
  <2>1. 1 \in Nat /\ Tag(<<1, "modid", "int32">>) = 8
    BY DEF Tag, IsMessage
  <2>2. RowFits(ReportStatusRequest, 1, 1, 8, "modid", "int32")
    BY <1>2, <1>3, <1>4, <1>5, <2>1, Zenon DEF RowFits, Default, IsMessage
  <2> QED
    BY <2>2, RowFound, Zenon
<1>9. RowInStep(ReportStatusRequest, 2)
  <2>1. 2 \in Nat /\ Tag(<<2, "cmdid", "int32">>) = 16
    BY DEF Tag, IsMessage
  <2>2. RowFits(ReportStatusRequest, 2, 2, 16, "cmdid", "int32")
    BY <1>2, <1>3, <1>4, <1>5, <2>1, Zenon DEF RowFits, Default, IsMessage
  <2> QED
    BY <2>2, RowFound, Zenon
<1>10. RowInStep(ReportStatusRequest, 3)
  <2>1. 3 \in Nat /\ Tag(<<3, "caller", "int32">>) = 24
    BY DEF Tag, IsMessage
  <2>2. RowFits(ReportStatusRequest, 3, 3, 24, "caller", "int32")
    BY <1>2, <1>3, <1>4, <1>5, <2>1, Zenon DEF RowFits, Default, IsMessage
  <2> QED
    BY <2>2, RowFound, Zenon
<1>11. RowInStep(ReportStatusRequest, 4)
  <2>1. 4 \in Nat /\ Tag(<<4, "results", "repeated">>) = 34
    BY DEF Tag, IsMessage
  <2>2. RowFits(ReportStatusRequest, 4, 4, 34, "results", "repeated")
    BY <1>2, <1>3, <1>4, <1>5, <2>1, Zenon DEF RowFits, Default, IsMessage
  <2> QED
    BY <2>2, RowFound, Zenon
<1>12. RowInStep(ReportStatusRequest, 5)
  <2>1. 5 \in Nat /\ Tag(<<5, "ts", "uint32">>) = 40
    BY DEF Tag, IsMessage
  <2>2. RowFits(ReportStatusRequest, 5, 5, 40, "ts", "uint32")
    BY <1>2, <1>3, <1>4, <1>5, <2>1, Zenon DEF RowFits, Default, IsMessage
  <2> QED
    BY <2>2, RowFound, Zenon
<1>13. \A i \in 1 .. Len(ReportStatusRequest.write) : RowInStep(ReportStatusRequest, i)
  BY <1>1, <1>8, <1>9, <1>10, <1>11, <1>12, Zenon
<1>14. /\ Name(ReportStatusRequest, 1) = "modid"
       /\ Name(ReportStatusRequest, 2) = "cmdid"
       /\ Name(ReportStatusRequest, 3) = "caller"
       /\ Name(ReportStatusRequest, 4) = "results"
       /\ Name(ReportStatusRequest, 5) = "ts"
  BY <1>2 DEF Name
<1>15. DOMAIN ReportStatusRequest.new = {Name(ReportStatusRequest, i) : i \in 1 .. Len(ReportStatusRequest.write)}
  <2>1. {Name(ReportStatusRequest, i) : i \in {1, 2, 3, 4, 5}} = {Name(ReportStatusRequest, 1), Name(ReportStatusRequest, 2), Name(ReportStatusRequest, 3), Name(ReportStatusRequest, 4), Name(ReportStatusRequest, 5)}
    BY Zenon
  <2> QED
    BY <1>1, <1>6, <1>14, <2>1, Zenon
<1>16. ASSUME NEW i \in 1 .. Len(ReportStatusRequest.write), NEW j \in 1 .. Len(ReportStatusRequest.write),
              Name(ReportStatusRequest, i) = Name(ReportStatusRequest, j)
       PROVE  i = j
  BY <1>1, <1>14, <1>16
<1>17. Len(ReportStatusRequest.write) \in Nat
  BY <1>1
<1> QED
  BY <1>6, <1>7, <1>13, <1>15, <1>16, <1>17, Zenon DEF InStep, RowInStep

\* The functions of GetHostRequest agree on its fields.
LEMMA GetHostRequestInStep == InStep(GetHostRequest)
<1>1. Len(GetHostRequest.write) = 3 /\ 1 .. Len(GetHostRequest.write) = {1, 2, 3}
  BY DEF GetHostRequest, GetHostRequest_write
<1>2. /\ GetHostRequest.write[1] = <<1, "seq", "uint32">>
      /\ GetHostRequest.write[2] = <<2, "modid", "int32">>
      /\ GetHostRequest.write[3] = <<3, "cmdid", "int32">>
  BY DEF GetHostRequest, GetHostRequest_write
<1>3. /\ <<8, "seq", "uint32">> \in GetHostRequest.parse
      /\ <<16, "modid", "int32">> \in GetHostRequest.parse
      /\ <<24, "cmdid", "int32">> \in GetHostRequest.parse
  BY Zenon DEF GetHostRequest, GetHostRequest_parse
<1>4. /\ \A r \in GetHostRequest.parse : r[1] = 8 => r = <<8, "seq", "uint32">>
      /\ \A r \in GetHostRequest.parse : r[1] = 16 => r = <<16, "modid", "int32">>
      /\ \A r \in GetHostRequest.parse : r[1] = 24 => r = <<24, "cmdid", "int32">>
  BY DEF GetHostRequest, GetHostRequest_parse
<1>5. /\ GetHostRequest.new["seq"] = 0
      /\ GetHostRequest.new["modid"] = 0
      /\ GetHostRequest.new["cmdid"] = 0
  BY DEF GetHostRequest, GetHostRequest_new
<1>6. /\ DOMAIN GetHostRequest.new = {"seq", "modid", "cmdid"}
      /\ GetHostRequest.new = [f \in DOMAIN GetHostRequest.new |-> GetHostRequest.new[f]]
  BY DEF GetHostRequest, GetHostRequest_new
<1>7. DOMAIN GetHostRequest.new \subseteq GetHostRequest.clear
  BY <1>6 DEF GetHostRequest, GetHostRequest_clear
<1>8. RowInStep(GetHostRequest, 1)
  <2>1. 1 \in Nat /\ Tag(<<1, "seq", "uint32">>) = 8
    BY DEF Tag, IsMessage
  <2>2. RowFits(GetHostRequest, 1, 1, 8, "seq", "uint32")
    BY <1>2, <1>3, <1>4, <1>5, <2>1, Zenon DEF RowFits, Default, IsMessage
  <2> QED
    BY <2>2, RowFound, Zenon
<1>9. RowInStep(GetHostRequest, 2)
  <2>1. 2 \in Nat /\ Tag(<<2, "modid", "int32">>) = 16
    BY DEF Tag, IsMessage
  <2>2. RowFits(GetHostRequest, 2, 2, 16, "modid", "int32")
    BY <1>2, <1>3, <1>4, <1>5, <2>1, Zenon DEF RowFits, Default, IsMessage
  <2> QED
    BY <2>2, RowFound, Zenon
<1>10. RowInStep(GetHostRequest, 3)
  <2>1. 3 \in Nat /\ Tag(<<3, "cmdid", "int32">>) = 24
    BY DEF Tag, IsMessage
  <2>2. RowFits(GetHostRequest, 3, 3, 24, "cmdid", "int32")
    BY <1>2, <1>3, <1>4, <1>5, <2>1, Zenon DEF RowFits, Default, IsMessage
  <2> QED
    BY <2>2, RowFound, Zenon
<1>11. \A i \in 1 .. Len(GetHostRequest.write) : RowInStep(GetHostRequest, i)
  BY <1>1, <1>8, <1>9, <1>10, Zenon
<1>12. /\ Name(GetHostRequest, 1) = "seq"
       /\ Name(GetHostRequest, 2) = "modid"
       /\ Name(GetHostRequest, 3) = "cmdid"
  BY <1>2 DEF Name
<1>13. DOMAIN GetHostRequest.new = {Name(GetHostRequest, i) : i \in 1 .. Len(GetHostRequest.write)}
  <2>1. {Name(GetHostRequest, i) : i \in {1, 2, 3}} = {Name(GetHostRequest, 1), Name(GetHostRequest, 2), Name(GetHostRequest, 3)}
    BY Zenon
  <2> QED
    BY <1>1, <1>6, <1>12, <2>1, Zenon
<1>14. ASSUME NEW i \in 1 .. Len(GetHostRequest.write), NEW j \in 1 .. Len(GetHostRequest.write),
              Name(GetHostRequest, i) = Name(GetHostRequest, j)
       PROVE  i = j
  BY <1>1, <1>12, <1>14
<1>15. Len(GetHostRequest.write) \in Nat
  BY <1>1
<1> QED
  BY <1>6, <1>7, <1>11, <1>13, <1>14, <1>15, Zenon DEF InStep, RowInStep

\* The functions of GetHostResponse agree on its fields.
LEMMA GetHostResponseInStep == InStep(GetHostResponse)
<1>1. Len(GetHostResponse.write) = 5 /\ 1 .. Len(GetHostResponse.write) = {1, 2, 3, 4, 5}
  BY DEF GetHostResponse, GetHostResponse_write
<1>2. /\ GetHostResponse.write[1] = <<1, "seq", "uint32">>
      /\ GetHostResponse.write[2] = <<2, "modid", "int32">>
      /\ GetHostResponse.write[3] = <<3, "cmdid", "int32">>
      /\ GetHostResponse.write[4] = <<4, "retcode", "int32">>
      /\ GetHostResponse.write[5] = <<5, "host", "message">>
  BY DEF GetHostResponse, GetHostResponse_write
<1>3. /\ <<8, "seq", "uint32">> \in GetHostResponse.parse
      /\ <<16, "modid", "int32">> \in GetHostResponse.parse
      /\ <<24, "cmdid", "int32">> \in GetHostResponse.parse
      /\ <<32, "retcode", "int32">> \in GetHostResponse.parse
      /\ <<42, "host", "message">> \in GetHostResponse.parse
  BY Zenon DEF GetHostResponse, GetHostResponse_parse
<1>4. /\ \A r \in GetHostResponse.parse : r[1] = 8 => r = <<8, "seq", "uint32">>
      /\ \A r \in GetHostResponse.parse : r[1] = 16 => r = <<16, "modid", "int32">>
      /\ \A r \in GetHostResponse.parse : r[1] = 24 => r = <<24, "cmdid", "int32">>
      /\ \A r \in GetHostResponse.parse : r[1] = 32 => r = <<32, "retcode", "int32">>
      /\ \A r \in GetHostResponse.parse : r[1] = 42 => r = <<42, "host", "message">>
  BY DEF GetHostResponse, GetHostResponse_parse
<1>5. /\ GetHostResponse.new["seq"] = 0
      /\ GetHostResponse.new["modid"] = 0
      /\ GetHostResponse.new["cmdid"] = 0
      /\ GetHostResponse.new["retcode"] = 0
      /\ GetHostResponse.new["host"] = <<>>
  BY DEF GetHostResponse, GetHostResponse_new
<1>6. /\ DOMAIN GetHostResponse.new = {"seq", "modid", "cmdid", "retcode", "host"}
      /\ GetHostResponse.new = [f \in DOMAIN GetHostResponse.new |-> GetHostResponse.new[f]]
  BY DEF GetHostResponse, GetHostResponse_new
<1>7. DOMAIN GetHostResponse.new \subseteq GetHostResponse.clear
  BY <1>6 DEF GetHostResponse, GetHostResponse_clear
<1>8. RowInStep(GetHostResponse, 1)
  <2>1. 1 \in Nat /\ Tag(<<1, "seq", "uint32">>) = 8
    BY DEF Tag, IsMessage
  <2>2. RowFits(GetHostResponse, 1, 1, 8, "seq", "uint32")
    BY <1>2, <1>3, <1>4, <1>5, <2>1, Zenon DEF RowFits, Default, IsMessage
  <2> QED
    BY <2>2, RowFound, Zenon
<1>9. RowInStep(GetHostResponse, 2)
  <2>1. 2 \in Nat /\ Tag(<<2, "modid", "int32">>) = 16
    BY DEF Tag, IsMessage
  <2>2. RowFits(GetHostResponse, 2, 2, 16, "modid", "int32")
    BY <1>2, <1>3, <1>4, <1>5, <2>1, Zenon DEF RowFits, Default, IsMessage
  <2> QED
    BY <2>2, RowFound, Zenon
<1>10. RowInStep(GetHostResponse, 3)
  <2>1. 3 \in Nat /\ Tag(<<3, "cmdid", "int32">>) = 24
    BY DEF Tag, IsMessage
  <2>2. RowFits(GetHostResponse, 3, 3, 24, "cmdid", "int32")
    BY <1>2, <1>3, <1>4, <1>5, <2>1, Zenon DEF RowFits, Default, IsMessage
  <2> QED
    BY <2>2, RowFound, Zenon
<1>11. RowInStep(GetHostResponse, 4)
  <2>1. 4 \in Nat /\ Tag(<<4, "retcode", "int32">>) = 32
    BY DEF Tag, IsMessage
  <2>2. RowFits(GetHostResponse, 4, 4, 32, "retcode", "int32")
    BY <1>2, <1>3, <1>4, <1>5, <2>1, Zenon DEF RowFits, Default, IsMessage
  <2> QED
    BY <2>2, RowFound, Zenon
<1>12. RowInStep(GetHostResponse, 5)
  <2>1. 5 \in Nat /\ Tag(<<5, "host", "message">>) = 42
    BY DEF Tag, IsMessage
  <2>2. RowFits(GetHostResponse, 5, 5, 42, "host", "message")
    BY <1>2, <1>3, <1>4, <1>5, <2>1, Zenon DEF RowFits, Default, IsMessage
  <2> QED
    BY <2>2, RowFound, Zenon
<1>13. \A i \in 1 .. Len(GetHostResponse.write) : RowInStep(GetHostResponse, i)
  BY <1>1, <1>8, <1>9, <1>10, <1>11, <1>12, Zenon
<1>14. /\ Name(GetHostResponse, 1) = "seq"
       /\ Name(GetHostResponse, 2) = "modid"
       /\ Name(GetHostResponse, 3) = "cmdid"
       /\ Name(GetHostResponse, 4) = "retcode"
       /\ Name(GetHostResponse, 5) = "host"
  BY <1>2 DEF Name
<1>15. DOMAIN GetHostResponse.new = {Name(GetHostResponse, i) : i \in 1 .. Len(GetHostResponse.write)}
  <2>1. {Name(GetHostResponse, i) : i \in {1, 2, 3, 4, 5}} = {Name(GetHostResponse, 1), Name(GetHostResponse, 2), Name(GetHostResponse, 3), Name(GetHostResponse, 4), Name(GetHostResponse, 5)}
    BY Zenon
  <2> QED
    BY <1>1, <1>6, <1>14, <2>1, Zenon
<1>16. ASSUME NEW i \in 1 .. Len(GetHostResponse.write), NEW j \in 1 .. Len(GetHostResponse.write),
              Name(GetHostResponse, i) = Name(GetHostResponse, j)
       PROVE  i = j
  BY <1>1, <1>14, <1>16
<1>17. Len(GetHostResponse.write) \in Nat
  BY <1>1
<1> QED
  BY <1>6, <1>7, <1>13, <1>15, <1>16, <1>17, Zenon DEF InStep, RowInStep

\* The functions of ReportRequest agree on its fields.
LEMMA ReportRequestInStep == InStep(ReportRequest)
<1>1. Len(ReportRequest.write) = 4 /\ 1 .. Len(ReportRequest.write) = {1, 2, 3, 4}
  BY DEF ReportRequest, ReportRequest_write
<1>2. /\ ReportRequest.write[1] = <<1, "modid", "int32">>
      /\ ReportRequest.write[2] = <<2, "cmdid", "int32">>
      /\ ReportRequest.write[3] = <<3, "host", "message">>
      /\ ReportRequest.write[4] = <<4, "retcode", "int32">>
  BY DEF ReportRequest, ReportRequest_write
<1>3. /\ <<8, "modid", "int32">> \in ReportRequest.parse
      /\ <<16, "cmdid", "int32">> \in ReportRequest.parse
      /\ <<26, "host", "message">> \in ReportRequest.parse
      /\ <<32, "retcode", "int32">> \in ReportRequest.parse
  BY Zenon DEF ReportRequest, ReportRequest_parse
<1>4. /\ \A r \in ReportRequest.parse : r[1] = 8 => r = <<8, "modid", "int32">>
      /\ \A r \in ReportRequest.parse : r[1] = 16 => r = <<16, "cmdid", "int32">>
      /\ \A r \in ReportRequest.parse : r[1] = 26 => r = <<26, "host", "message">>
      /\ \A r \in ReportRequest.parse : r[1] = 32 => r = <<32, "retcode", "int32">>
  BY DEF ReportRequest, ReportRequest_parse
<1>5. /\ ReportRequest.new["modid"] = 0
      /\ ReportRequest.new["cmdid"] = 0
      /\ ReportRequest.new["host"] = <<>>
      /\ ReportRequest.new["retcode"] = 0
  BY DEF ReportRequest, ReportRequest_new
<1>6. /\ DOMAIN ReportRequest.new = {"modid", "cmdid", "host", "retcode"}
      /\ ReportRequest.new = [f \in DOMAIN ReportRequest.new |-> ReportRequest.new[f]]
  BY DEF ReportRequest, ReportRequest_new
<1>7. DOMAIN ReportRequest.new \subseteq ReportRequest.clear
  BY <1>6 DEF ReportRequest, ReportRequest_clear
<1>8. RowInStep(ReportRequest, 1)
  <2>1. 1 \in Nat /\ Tag(<<1, "modid", "int32">>) = 8
    BY DEF Tag, IsMessage
  <2>2. RowFits(ReportRequest, 1, 1, 8, "modid", "int32")
    BY <1>2, <1>3, <1>4, <1>5, <2>1, Zenon DEF RowFits, Default, IsMessage
  <2> QED
    BY <2>2, RowFound, Zenon
<1>9. RowInStep(ReportRequest, 2)
  <2>1. 2 \in Nat /\ Tag(<<2, "cmdid", "int32">>) = 16
    BY DEF Tag, IsMessage
  <2>2. RowFits(ReportRequest, 2, 2, 16, "cmdid", "int32")
    BY <1>2, <1>3, <1>4, <1>5, <2>1, Zenon DEF RowFits, Default, IsMessage
  <2> QED
    BY <2>2, RowFound, Zenon
<1>10. RowInStep(ReportRequest, 3)
  <2>1. 3 \in Nat /\ Tag(<<3, "host", "message">>) = 26
    BY DEF Tag, IsMessage
  <2>2. RowFits(ReportRequest, 3, 3, 26, "host", "message")
    BY <1>2, <1>3, <1>4, <1>5, <2>1, Zenon DEF RowFits, Default, IsMessage
  <2> QED
    BY <2>2, RowFound, Zenon
<1>11. RowInStep(ReportRequest, 4)
  <2>1. 4 \in Nat /\ Tag(<<4, "retcode", "int32">>) = 32
    BY DEF Tag, IsMessage
  <2>2. RowFits(ReportRequest, 4, 4, 32, "retcode", "int32")
    BY <1>2, <1>3, <1>4, <1>5, <2>1, Zenon DEF RowFits, Default, IsMessage
  <2> QED
    BY <2>2, RowFound, Zenon
<1>12. \A i \in 1 .. Len(ReportRequest.write) : RowInStep(ReportRequest, i)
  BY <1>1, <1>8, <1>9, <1>10, <1>11, Zenon
<1>13. /\ Name(ReportRequest, 1) = "modid"
       /\ Name(ReportRequest, 2) = "cmdid"
       /\ Name(ReportRequest, 3) = "host"
       /\ Name(ReportRequest, 4) = "retcode"
  BY <1>2 DEF Name
<1>14. DOMAIN ReportRequest.new = {Name(ReportRequest, i) : i \in 1 .. Len(ReportRequest.write)}
  <2>1. {Name(ReportRequest, i) : i \in {1, 2, 3, 4}} = {Name(ReportRequest, 1), Name(ReportRequest, 2), Name(ReportRequest, 3), Name(ReportRequest, 4)}
    BY Zenon
  <2> QED
    BY <1>1, <1>6, <1>13, <2>1, Zenon
<1>15. ASSUME NEW i \in 1 .. Len(ReportRequest.write), NEW j \in 1 .. Len(ReportRequest.write),
              Name(ReportRequest, i) = Name(ReportRequest, j)
       PROVE  i = j
  BY <1>1, <1>13, <1>15
<1>16. Len(ReportRequest.write) \in Nat
  BY <1>1
<1> QED
  BY <1>6, <1>7, <1>12, <1>14, <1>15, <1>16, Zenon DEF InStep, RowInStep

-----------------------------------------------------------------------------
(* The messages a program here sends                                       *)

\* What InnerHolds and Fits ask of one row.
FieldHolds(T, m, i) == Holds(m[Name(T, i)], Type(T, i))
FieldFits(T, m, i) ==
    IF IsMessage(Type(T, i)) THEN MessagesHold(T, m[Name(T, i)], Type(T, i))
    ELSE Holds(m[Name(T, i)], Type(T, i))

\* What a HostInfo can hold.
LEMMA HostInfoFits == ASSUME NEW m \in HostInfos PROVE InnerHolds(HostInfo, m)
<1>1. /\ DOMAIN m = {"ip", "port"} /\ m = [f \in DOMAIN m |-> m[f]]
      /\ m["ip"] \in INT32
      /\ m["port"] \in INT32
  BY DEF HostInfos
<1>2. DOMAIN HostInfo.new = {"ip", "port"}
  BY DEF HostInfo, HostInfo_new
<1>3. 1 .. Len(HostInfo.write) = {1, 2}
  BY DEF HostInfo, HostInfo_write
<1>4. /\ Name(HostInfo, 1) = "ip" /\ Type(HostInfo, 1) = "int32"
      /\ Name(HostInfo, 2) = "port" /\ Type(HostInfo, 2) = "int32"
  BY DEF HostInfo, HostInfo_write, Name, Type
<1>5. UINT31 \subseteq INT32
  BY DEF UINT31, INT32
<1>6. FieldHolds(HostInfo, m, 1)
  BY <1>1, <1>4, <1>5, Zenon DEF FieldHolds, Holds
<1>7. FieldHolds(HostInfo, m, 2)
  BY <1>1, <1>4, <1>5, Zenon DEF FieldHolds, Holds
<1>8. \A i \in 1 .. Len(HostInfo.write) : FieldHolds(HostInfo, m, i)
  BY <1>3, <1>6, <1>7, Zenon
<1> QED
  BY <1>1, <1>2, <1>8, Zenon DEF InnerHolds, FieldHolds

\* The hosts of a message have the fields that lars.pb.cc writes.
LEMMA HostInfoMsgs == Seq(HostInfos) \subseteq Seq(Msgs(HostInfo)) /\ HostInfos \subseteq Msgs(HostInfo)
<1>1. ASSUME NEW m \in HostInfos PROVE m \in Msgs(HostInfo)
  <2>1. m \in [{"ip", "port"} -> INT32 \cup BOOLEAN]
    BY DEF HostInfos, UINT31, INT32
  <2>2. DOMAIN HostInfo.new = {"ip", "port"}
    BY DEF HostInfo, HostInfo_new
  <2> QED
    BY <2>1, <2>2, HostInfoFits, Zenon DEF Msgs
<1> QED
  BY <1>1

\* So has the one host of a GetHostResponse or a ReportRequest, if it is there.
LEMMA MaybeMsgs == ASSUME NEW v \in MaybeHostInfo PROVE v \in Seq(Msgs(HostInfo)) /\ Len(v) <= 1
<1>1. CASE v = <<>>
  <2>1. <<>> \in Seq(Msgs(HostInfo)) /\ Len(<<>>) <= 1
    OBVIOUS
  <2> QED
    BY <1>1, <2>1, Zenon
<1>2. ASSUME NEW h \in HostInfos, v = <<h>> PROVE v \in Seq(Msgs(HostInfo)) /\ Len(v) <= 1
  <2>1. <<h>> \in Seq(HostInfos) /\ Len(<<h>>) <= 1
    OBVIOUS
  <2> QED
    BY <1>2, <2>1, HostInfoMsgs, Zenon
<1> QED
  BY <1>1, <1>2, Zenon DEF MaybeHostInfo

\* What a HostCallResult can hold.
LEMMA HostCallResultFits == ASSUME NEW m \in HostCallResults PROVE InnerHolds(HostCallResult, m)
<1>1. /\ DOMAIN m = {"ip", "port", "succ", "err", "overload"} /\ m = [f \in DOMAIN m |-> m[f]]
      /\ m["ip"] \in INT32
      /\ m["port"] \in INT32
      /\ m["succ"] \in UINT31
      /\ m["err"] \in UINT31
      /\ m["overload"] \in BOOLEAN
  BY DEF HostCallResults
<1>2. DOMAIN HostCallResult.new = {"ip", "port", "succ", "err", "overload"}
  BY DEF HostCallResult, HostCallResult_new
<1>3. 1 .. Len(HostCallResult.write) = {1, 2, 3, 4, 5}
  BY DEF HostCallResult, HostCallResult_write
<1>4. /\ Name(HostCallResult, 1) = "ip" /\ Type(HostCallResult, 1) = "int32"
      /\ Name(HostCallResult, 2) = "port" /\ Type(HostCallResult, 2) = "int32"
      /\ Name(HostCallResult, 3) = "succ" /\ Type(HostCallResult, 3) = "uint32"
      /\ Name(HostCallResult, 4) = "err" /\ Type(HostCallResult, 4) = "uint32"
      /\ Name(HostCallResult, 5) = "overload" /\ Type(HostCallResult, 5) = "bool"
  BY DEF HostCallResult, HostCallResult_write, Name, Type
<1>5. UINT31 \subseteq INT32
  BY DEF UINT31, INT32
<1>6. FieldHolds(HostCallResult, m, 1)
  BY <1>1, <1>4, <1>5, Zenon DEF FieldHolds, Holds
<1>7. FieldHolds(HostCallResult, m, 2)
  BY <1>1, <1>4, <1>5, Zenon DEF FieldHolds, Holds
<1>8. FieldHolds(HostCallResult, m, 3)
  BY <1>1, <1>4, <1>5, Zenon DEF FieldHolds, Holds
<1>9. FieldHolds(HostCallResult, m, 4)
  BY <1>1, <1>4, <1>5, Zenon DEF FieldHolds, Holds
<1>10. FieldHolds(HostCallResult, m, 5)
  BY <1>1, <1>4, <1>5, Zenon DEF FieldHolds, Holds
<1>11. \A i \in 1 .. Len(HostCallResult.write) : FieldHolds(HostCallResult, m, i)
  BY <1>3, <1>6, <1>7, <1>8, <1>9, <1>10, Zenon
<1> QED
  BY <1>1, <1>2, <1>11, Zenon DEF InnerHolds, FieldHolds

\* So have the results of a ReportStatusRequest.
LEMMA HostCallResultMsgs == Seq(HostCallResults) \subseteq Seq(Msgs(HostCallResult)) /\ HostCallResults \subseteq Msgs(HostCallResult)
<1>1. ASSUME NEW m \in HostCallResults PROVE m \in Msgs(HostCallResult)
  <2>1. m \in [{"ip", "port", "succ", "err", "overload"} -> INT32 \cup BOOLEAN]
    BY DEF HostCallResults, UINT31, INT32
  <2>2. DOMAIN HostCallResult.new = {"ip", "port", "succ", "err", "overload"}
    BY DEF HostCallResult, HostCallResult_new
  <2> QED
    BY <2>1, <2>2, HostCallResultFits, Zenon DEF Msgs
<1> QED
  BY <1>1

\* What a GetRouteRequest can hold.
LEMMA GetRouteRequestFits == ASSUME NEW m \in GetRouteRequests PROVE Fits(GetRouteRequest, m)
<1>1. /\ DOMAIN m = {"modid", "cmdid"} /\ m = [f \in DOMAIN m |-> m[f]]
      /\ m["modid"] \in INT32
      /\ m["cmdid"] \in INT32
  BY DEF GetRouteRequests
<1>2. DOMAIN GetRouteRequest.new = {"modid", "cmdid"}
  BY DEF GetRouteRequest, GetRouteRequest_new
<1>3. 1 .. Len(GetRouteRequest.write) = {1, 2}
  BY DEF GetRouteRequest, GetRouteRequest_write
<1>4. /\ Name(GetRouteRequest, 1) = "modid" /\ Type(GetRouteRequest, 1) = "int32"
      /\ Name(GetRouteRequest, 2) = "cmdid" /\ Type(GetRouteRequest, 2) = "int32"
  BY DEF GetRouteRequest, GetRouteRequest_write, Name, Type
<1>5. UINT31 \subseteq INT32
  BY DEF UINT31, INT32
<1>6. FieldFits(GetRouteRequest, m, 1)
  BY <1>1, <1>4, <1>5, Zenon DEF FieldFits, Holds, IsMessage
<1>7. FieldFits(GetRouteRequest, m, 2)
  BY <1>1, <1>4, <1>5, Zenon DEF FieldFits, Holds, IsMessage
<1>8. \A i \in 1 .. Len(GetRouteRequest.write) : FieldFits(GetRouteRequest, m, i)
  BY <1>3, <1>6, <1>7, Zenon
<1> QED
  BY <1>1, <1>2, <1>8, Zenon DEF Fits, FieldFits

\* The tables of a GetRouteRequest agree with one another.
LEMMA GetRouteRequestNested == Nested(GetRouteRequest)
<1>1. \A i \in 1 .. Len(GetRouteRequest.write) : ~IsMessage(Type(GetRouteRequest, i))
  BY DEF GetRouteRequest, GetRouteRequest_write, Type, IsMessage
<1> QED
  BY <1>1, Zenon DEF Nested

\* What a GetRouteResponse can hold.
LEMMA GetRouteResponseFits == ASSUME NEW m \in GetRouteResponses PROVE Fits(GetRouteResponse, m)
<1>1. /\ DOMAIN m = {"modid", "cmdid", "host"} /\ m = [f \in DOMAIN m |-> m[f]]
      /\ m["modid"] \in INT32
      /\ m["cmdid"] \in INT32
      /\ m["host"] \in Seq(HostInfos)
  BY DEF GetRouteResponses
<1>2. DOMAIN GetRouteResponse.new = {"modid", "cmdid", "host"}
  BY DEF GetRouteResponse, GetRouteResponse_new
<1>3. 1 .. Len(GetRouteResponse.write) = {1, 2, 3}
  BY DEF GetRouteResponse, GetRouteResponse_write
<1>4. /\ Name(GetRouteResponse, 1) = "modid" /\ Type(GetRouteResponse, 1) = "int32"
      /\ Name(GetRouteResponse, 2) = "cmdid" /\ Type(GetRouteResponse, 2) = "int32"
      /\ Name(GetRouteResponse, 3) = "host" /\ Type(GetRouteResponse, 3) = "repeated"
  BY DEF GetRouteResponse, GetRouteResponse_write, Name, Type
<1>5. UINT31 \subseteq INT32
  BY DEF UINT31, INT32
<1>6. FieldFits(GetRouteResponse, m, 1)
  BY <1>1, <1>4, <1>5, Zenon DEF FieldFits, Holds, IsMessage
<1>7. FieldFits(GetRouteResponse, m, 2)
  BY <1>1, <1>4, <1>5, Zenon DEF FieldFits, Holds, IsMessage
<1>8. FieldFits(GetRouteResponse, m, 3)
  <2>1. GetRouteResponse.of = HostInfo
    BY DEF GetRouteResponse
  <2>2. MessagesHold(GetRouteResponse, m["host"], "repeated")
    BY <1>1, <2>1, HostInfoMsgs, Zenon DEF MessagesHold
  <2> QED
    BY <1>4, <2>2, Zenon DEF FieldFits, IsMessage
<1>9. \A i \in 1 .. Len(GetRouteResponse.write) : FieldFits(GetRouteResponse, m, i)
  BY <1>3, <1>6, <1>7, <1>8, Zenon
<1> QED
  BY <1>1, <1>2, <1>9, Zenon DEF Fits, FieldFits

\* Those of a GetRouteResponse do.
LEMMA GetRouteResponseNested == Nested(GetRouteResponse)
<1>1. GetRouteResponse.of = HostInfo
  BY DEF GetRouteResponse
<1> QED
  BY <1>1, HostInfoInStep, HostInfoSizes, Zenon DEF Nested

\* What a ReportStatusRequest can hold.
LEMMA ReportStatusRequestFits == ASSUME NEW m \in ReportStatusRequests PROVE Fits(ReportStatusRequest, m)
<1>1. /\ DOMAIN m = {"modid", "cmdid", "caller", "results", "ts"} /\ m = [f \in DOMAIN m |-> m[f]]
      /\ m["modid"] \in INT32
      /\ m["cmdid"] \in INT32
      /\ m["caller"] \in INT32
      /\ m["results"] \in Seq(HostCallResults)
      /\ m["ts"] \in UINT31
  BY DEF ReportStatusRequests
<1>2. DOMAIN ReportStatusRequest.new = {"modid", "cmdid", "caller", "results", "ts"}
  BY DEF ReportStatusRequest, ReportStatusRequest_new
<1>3. 1 .. Len(ReportStatusRequest.write) = {1, 2, 3, 4, 5}
  BY DEF ReportStatusRequest, ReportStatusRequest_write
<1>4. /\ Name(ReportStatusRequest, 1) = "modid" /\ Type(ReportStatusRequest, 1) = "int32"
      /\ Name(ReportStatusRequest, 2) = "cmdid" /\ Type(ReportStatusRequest, 2) = "int32"
      /\ Name(ReportStatusRequest, 3) = "caller" /\ Type(ReportStatusRequest, 3) = "int32"
      /\ Name(ReportStatusRequest, 4) = "results" /\ Type(ReportStatusRequest, 4) = "repeated"
      /\ Name(ReportStatusRequest, 5) = "ts" /\ Type(ReportStatusRequest, 5) = "uint32"
  BY DEF ReportStatusRequest, ReportStatusRequest_write, Name, Type
<1>5. UINT31 \subseteq INT32
  BY DEF UINT31, INT32
<1>6. FieldFits(ReportStatusRequest, m, 1)
  BY <1>1, <1>4, <1>5, Zenon DEF FieldFits, Holds, IsMessage
<1>7. FieldFits(ReportStatusRequest, m, 2)
  BY <1>1, <1>4, <1>5, Zenon DEF FieldFits, Holds, IsMessage
<1>8. FieldFits(ReportStatusRequest, m, 3)
  BY <1>1, <1>4, <1>5, Zenon DEF FieldFits, Holds, IsMessage
<1>9. FieldFits(ReportStatusRequest, m, 4)
  <2>1. ReportStatusRequest.of = HostCallResult
    BY DEF ReportStatusRequest
  <2>2. MessagesHold(ReportStatusRequest, m["results"], "repeated")
    BY <1>1, <2>1, HostCallResultMsgs, Zenon DEF MessagesHold
  <2> QED
    BY <1>4, <2>2, Zenon DEF FieldFits, IsMessage
<1>10. FieldFits(ReportStatusRequest, m, 5)
  BY <1>1, <1>4, <1>5, Zenon DEF FieldFits, Holds, IsMessage
<1>11. \A i \in 1 .. Len(ReportStatusRequest.write) : FieldFits(ReportStatusRequest, m, i)
  BY <1>3, <1>6, <1>7, <1>8, <1>9, <1>10, Zenon
<1> QED
  BY <1>1, <1>2, <1>11, Zenon DEF Fits, FieldFits

\* Those of a ReportStatusRequest do.
LEMMA ReportStatusRequestNested == Nested(ReportStatusRequest)
<1>1. ReportStatusRequest.of = HostCallResult
  BY DEF ReportStatusRequest
<1> QED
  BY <1>1, HostCallResultInStep, HostCallResultSizes, Zenon DEF Nested

\* What a GetHostRequest can hold.
LEMMA GetHostRequestFits == ASSUME NEW m \in GetHostRequests PROVE Fits(GetHostRequest, m)
<1>1. /\ DOMAIN m = {"seq", "modid", "cmdid"} /\ m = [f \in DOMAIN m |-> m[f]]
      /\ m["seq"] \in UINT31
      /\ m["modid"] \in INT32
      /\ m["cmdid"] \in INT32
  BY DEF GetHostRequests
<1>2. DOMAIN GetHostRequest.new = {"seq", "modid", "cmdid"}
  BY DEF GetHostRequest, GetHostRequest_new
<1>3. 1 .. Len(GetHostRequest.write) = {1, 2, 3}
  BY DEF GetHostRequest, GetHostRequest_write
<1>4. /\ Name(GetHostRequest, 1) = "seq" /\ Type(GetHostRequest, 1) = "uint32"
      /\ Name(GetHostRequest, 2) = "modid" /\ Type(GetHostRequest, 2) = "int32"
      /\ Name(GetHostRequest, 3) = "cmdid" /\ Type(GetHostRequest, 3) = "int32"
  BY DEF GetHostRequest, GetHostRequest_write, Name, Type
<1>5. UINT31 \subseteq INT32
  BY DEF UINT31, INT32
<1>6. FieldFits(GetHostRequest, m, 1)
  BY <1>1, <1>4, <1>5, Zenon DEF FieldFits, Holds, IsMessage
<1>7. FieldFits(GetHostRequest, m, 2)
  BY <1>1, <1>4, <1>5, Zenon DEF FieldFits, Holds, IsMessage
<1>8. FieldFits(GetHostRequest, m, 3)
  BY <1>1, <1>4, <1>5, Zenon DEF FieldFits, Holds, IsMessage
<1>9. \A i \in 1 .. Len(GetHostRequest.write) : FieldFits(GetHostRequest, m, i)
  BY <1>3, <1>6, <1>7, <1>8, Zenon
<1> QED
  BY <1>1, <1>2, <1>9, Zenon DEF Fits, FieldFits

\* Those of a GetHostRequest do.
LEMMA GetHostRequestNested == Nested(GetHostRequest)
<1>1. \A i \in 1 .. Len(GetHostRequest.write) : ~IsMessage(Type(GetHostRequest, i))
  BY DEF GetHostRequest, GetHostRequest_write, Type, IsMessage
<1> QED
  BY <1>1, Zenon DEF Nested

\* What a GetHostResponse can hold.
LEMMA GetHostResponseFits == ASSUME NEW m \in GetHostResponses PROVE Fits(GetHostResponse, m)
<1>1. /\ DOMAIN m = {"seq", "modid", "cmdid", "retcode", "host"} /\ m = [f \in DOMAIN m |-> m[f]]
      /\ m["seq"] \in UINT31
      /\ m["modid"] \in INT32
      /\ m["cmdid"] \in INT32
      /\ m["retcode"] \in INT32
      /\ m["host"] \in MaybeHostInfo
  BY DEF GetHostResponses
<1>2. DOMAIN GetHostResponse.new = {"seq", "modid", "cmdid", "retcode", "host"}
  BY DEF GetHostResponse, GetHostResponse_new
<1>3. 1 .. Len(GetHostResponse.write) = {1, 2, 3, 4, 5}
  BY DEF GetHostResponse, GetHostResponse_write
<1>4. /\ Name(GetHostResponse, 1) = "seq" /\ Type(GetHostResponse, 1) = "uint32"
      /\ Name(GetHostResponse, 2) = "modid" /\ Type(GetHostResponse, 2) = "int32"
      /\ Name(GetHostResponse, 3) = "cmdid" /\ Type(GetHostResponse, 3) = "int32"
      /\ Name(GetHostResponse, 4) = "retcode" /\ Type(GetHostResponse, 4) = "int32"
      /\ Name(GetHostResponse, 5) = "host" /\ Type(GetHostResponse, 5) = "message"
  BY DEF GetHostResponse, GetHostResponse_write, Name, Type
<1>5. UINT31 \subseteq INT32
  BY DEF UINT31, INT32
<1>6. FieldFits(GetHostResponse, m, 1)
  BY <1>1, <1>4, <1>5, Zenon DEF FieldFits, Holds, IsMessage
<1>7. FieldFits(GetHostResponse, m, 2)
  BY <1>1, <1>4, <1>5, Zenon DEF FieldFits, Holds, IsMessage
<1>8. FieldFits(GetHostResponse, m, 3)
  BY <1>1, <1>4, <1>5, Zenon DEF FieldFits, Holds, IsMessage
<1>9. FieldFits(GetHostResponse, m, 4)
  BY <1>1, <1>4, <1>5, Zenon DEF FieldFits, Holds, IsMessage
<1>10. FieldFits(GetHostResponse, m, 5)
  <2>1. GetHostResponse.of = HostInfo
    BY DEF GetHostResponse
  <2>2. MessagesHold(GetHostResponse, m["host"], "message")
    BY <1>1, <2>1, MaybeMsgs, Zenon DEF MessagesHold
  <2> QED
    BY <1>4, <2>2, Zenon DEF FieldFits, IsMessage
<1>11. \A i \in 1 .. Len(GetHostResponse.write) : FieldFits(GetHostResponse, m, i)
  BY <1>3, <1>6, <1>7, <1>8, <1>9, <1>10, Zenon
<1> QED
  BY <1>1, <1>2, <1>11, Zenon DEF Fits, FieldFits

\* Those of a GetHostResponse do.
LEMMA GetHostResponseNested == Nested(GetHostResponse)
<1>1. GetHostResponse.of = HostInfo
  BY DEF GetHostResponse
<1> QED
  BY <1>1, HostInfoInStep, HostInfoSizes, Zenon DEF Nested

\* What a ReportRequest can hold.
LEMMA ReportRequestFits == ASSUME NEW m \in ReportRequests PROVE Fits(ReportRequest, m)
<1>1. /\ DOMAIN m = {"modid", "cmdid", "host", "retcode"} /\ m = [f \in DOMAIN m |-> m[f]]
      /\ m["modid"] \in INT32
      /\ m["cmdid"] \in INT32
      /\ m["host"] \in MaybeHostInfo
      /\ m["retcode"] \in INT32
  BY DEF ReportRequests
<1>2. DOMAIN ReportRequest.new = {"modid", "cmdid", "host", "retcode"}
  BY DEF ReportRequest, ReportRequest_new
<1>3. 1 .. Len(ReportRequest.write) = {1, 2, 3, 4}
  BY DEF ReportRequest, ReportRequest_write
<1>4. /\ Name(ReportRequest, 1) = "modid" /\ Type(ReportRequest, 1) = "int32"
      /\ Name(ReportRequest, 2) = "cmdid" /\ Type(ReportRequest, 2) = "int32"
      /\ Name(ReportRequest, 3) = "host" /\ Type(ReportRequest, 3) = "message"
      /\ Name(ReportRequest, 4) = "retcode" /\ Type(ReportRequest, 4) = "int32"
  BY DEF ReportRequest, ReportRequest_write, Name, Type
<1>5. UINT31 \subseteq INT32
  BY DEF UINT31, INT32
<1>6. FieldFits(ReportRequest, m, 1)
  BY <1>1, <1>4, <1>5, Zenon DEF FieldFits, Holds, IsMessage
<1>7. FieldFits(ReportRequest, m, 2)
  BY <1>1, <1>4, <1>5, Zenon DEF FieldFits, Holds, IsMessage
<1>8. FieldFits(ReportRequest, m, 3)
  <2>1. ReportRequest.of = HostInfo
    BY DEF ReportRequest
  <2>2. MessagesHold(ReportRequest, m["host"], "message")
    BY <1>1, <2>1, MaybeMsgs, Zenon DEF MessagesHold
  <2> QED
    BY <1>4, <2>2, Zenon DEF FieldFits, IsMessage
<1>9. FieldFits(ReportRequest, m, 4)
  BY <1>1, <1>4, <1>5, Zenon DEF FieldFits, Holds, IsMessage
<1>10. \A i \in 1 .. Len(ReportRequest.write) : FieldFits(ReportRequest, m, i)
  BY <1>3, <1>6, <1>7, <1>8, <1>9, Zenon
<1> QED
  BY <1>1, <1>2, <1>10, Zenon DEF Fits, FieldFits

\* Those of a ReportRequest do.
LEMMA ReportRequestNested == Nested(ReportRequest)
<1>1. ReportRequest.of = HostInfo
  BY DEF ReportRequest
<1> QED
  BY <1>1, HostInfoInStep, HostInfoSizes, Zenon DEF Nested

-----------------------------------------------------------------------------
(* ByteSizeLong counts the bytes that are written                          *)

\* The sizes of parts add up to the size of what they are joined to.
LEMMA JoinTotal ==
    ASSUME NEW n \in Nat, NEW ss, NEW ns,
           \A i \in 1 .. n : ss[i] \in Seq(Int) /\ Len(ss[i]) = ns[i]
    PROVE  Join(n, ss) \in Seq(Int) /\ Len(Join(n, ss)) = Total(n, ns) /\ Total(n, ns) \in Nat
<1>1. PICK f : Joins(f, n, ss) /\ Join(n, ss) = f[1]
  BY JoinIs, Zenon
<1>2. PICK g : Totals(g, n, ns) /\ Total(n, ns) = g[1]
  BY TotalIs, Zenon
<1> DEFINE Good(i) == f[i] \in Seq(Int) /\ g[i] = Len(f[i])
           S == {i \in 1 .. n + 1 : Good(i)}
<1>3. n + 1 \in S
  <2>1. f[n + 1] = <<>> /\ g[n + 1] = 0
    BY <1>1, <1>2, Zenon DEF Joins, Totals
  <2>2. <<>> \in Seq(Int) /\ Len(<<>>) = 0 /\ n + 1 \in 1 .. n + 1
    OBVIOUS
  <2>3. Good(n + 1)
    BY <2>1, <2>2, Zenon
  <2> QED
    BY <2>2, <2>3, Zenon
<1>4. ASSUME NEW i \in 1 .. n, i + 1 \in S PROVE i \in S
  <2> DEFINE a == ss[i]
             c == f[i + 1]
  <2>1. f[i] = a \o c /\ g[i] = ns[i] + g[i + 1]
    BY <1>1, <1>2, Zenon DEF Joins, Totals
  <2>2. a \in Seq(Int) /\ Len(a) = ns[i]
    BY Zenon
  <2>3. c \in Seq(Int) /\ g[i + 1] = Len(c)
    BY <1>4, Zenon
  <2> HIDE DEF a, c
  <2>4. a \o c \in Seq(Int) /\ Len(a \o c) = Len(a) + Len(c)
    BY <2>2, <2>3, SeqConcat, Zenon
  <2>5. Good(i)
    BY <2>1, <2>2, <2>3, <2>4, Zenon
  <2>6. i \in 1 .. n + 1
    OBVIOUS
  <2> QED
    BY <2>5, <2>6, Zenon
<1> HIDE DEF S
<1>5. \A i \in 1 .. n + 1 : i \in S
  BY <1>3, <1>4, Descend, Zenon
<1>6. 1 \in 1 .. n + 1
  OBVIOUS
<1>7. Good(1)
  BY <1>5, <1>6, Zenon DEF S
<1>8. Len(f[1]) \in Nat
  BY <1>7, SeqLen, Zenon
<1> QED
  BY <1>1, <1>2, <1>7, <1>8, Zenon

FieldSized(T, no, v, type) ==
    /\ FieldArray(T, no, v, type) \in Seq(Int)
    /\ Len(FieldArray(T, no, v, type)) = FieldSize(T, v, type)
    /\ FieldSize(T, v, type) \in Nat

\* The bytes of a field are as many as ByteSizeLong counts for it.
LEMMA FieldSizes ==
    ASSUME NEW T, InStep(T), Nested(T), NEW m, Fits(T, m), NEW i \in 1 .. Len(T.write)
    PROVE  FieldSized(T, T.write[i][1], m[Name(T, i)], Type(T, i))
<1> DEFINE no == T.write[i][1]
           v == m[Name(T, i)]
           type == Type(T, i)
<1>1. no \in Nat
  BY Zenon DEF InStep
<1>2. CASE ~IsMessage(type)
  <2>1. /\ Holds(v, type) /\ FieldArray(T, no, v, type) = ScalarArray(no, v, type)
        /\ FieldSize(T, v, type) = ScalarSize(v, type)
    BY <1>2, Zenon DEF Fits, FieldArray, FieldSize
  <2> HIDE DEF no, v, type
  <2>2. ScalarArray(no, v, type) \in Seq(Int) /\ Len(ScalarArray(no, v, type)) = ScalarSize(v, type)
    BY <1>1, <2>1, ScalarBytes, Zenon
  <2>3. Len(ScalarArray(no, v, type)) \in Nat
    BY <2>2, SeqLen, Zenon
  <2> QED
    BY <2>1, <2>2, <2>3, Zenon DEF FieldSized, no, v, type
<1>3. CASE IsMessage(type)
  <2> DEFINE len == Len(v)
             ss == [k \in 1 .. len |-> MessageArray(T.of, no, v[k])]
             ns == [k \in 1 .. len |-> MessageSize(T.of, v[k])]
  <2>1. v \in Seq(Msgs(T.of)) /\ InStep(T.of) /\ SizeInStep(T.of)
    BY <1>3, Zenon DEF Fits, MessagesHold, Nested
  <2>2. len \in Nat
    BY <2>1, SeqLen, Zenon
  <2>3. FieldArray(T, no, v, type) = Join(len, ss) /\ FieldSize(T, v, type) = Total(len, ns)
    BY <1>3 DEF FieldArray, FieldSize
  <2> HIDE DEF v
  <2>4. ASSUME NEW k \in 1 .. len PROVE ss[k] \in Seq(Int) /\ Len(ss[k]) = ns[k]
    <3>1. ss[k] = MessageArray(T.of, no, v[k]) /\ ns[k] = MessageSize(T.of, v[k])
      BY Zenon
    <3>2. InnerHolds(T.of, v[k])
      <4>1. v[k] \in Msgs(T.of)
        BY <2>1, SeqAt, Zenon
      <4> QED
        BY <4>1, Zenon DEF Msgs
    <3>3. MessageBytesAre(T.of, no, v[k])
      BY <1>1, <2>1, <3>2, MessageBytes, Zenon
    <3> HIDE DEF ss, ns
    <3> QED
      BY <3>1, <3>3, Zenon DEF MessageBytesAre
  <2> HIDE DEF len, ss, ns
  <2>5. /\ Join(len, ss) \in Seq(Int) /\ Len(Join(len, ss)) = Total(len, ns)
        /\ Total(len, ns) \in Nat
    BY <2>2, <2>4, JoinTotal, Zenon
  <2> QED
    BY <2>3, <2>5, Zenon DEF FieldSized, v
<1> QED
  BY <1>2, <1>3, Zenon

\* What is counted for two to five fields.
LEMMA TotalOf2 ==
    ASSUME NEW ns, \A i \in 1 .. 2 : ns[i] \in Nat
    PROVE  Total(2, ns) = ns[1] + ns[2]
<1>1. 2 \in Nat
  OBVIOUS
<1>2. PICK f : Totals(f, 2, ns) /\ Total(2, ns) = f[1]
  BY <1>1, TotalIs, Zenon
<1>3. f[2 + 1] = 0 /\ \A i \in 1 .. 2 : f[i] = ns[i] + f[i + 1]
  BY <1>2, Zenon DEF Totals
<1> QED
  BY <1>2, <1>3

\* The total of three fields (ByteSizeLong).
LEMMA TotalOf3 ==
    ASSUME NEW ns, \A i \in 1 .. 3 : ns[i] \in Nat
    PROVE  Total(3, ns) = ns[1] + ns[2] + ns[3]
<1>1. 3 \in Nat
  OBVIOUS
<1>2. PICK f : Totals(f, 3, ns) /\ Total(3, ns) = f[1]
  BY <1>1, TotalIs, Zenon
<1>3. f[3 + 1] = 0 /\ \A i \in 1 .. 3 : f[i] = ns[i] + f[i + 1]
  BY <1>2, Zenon DEF Totals
<1> QED
  BY <1>2, <1>3

\* The total of four fields.
LEMMA TotalOf4 ==
    ASSUME NEW ns, \A i \in 1 .. 4 : ns[i] \in Nat
    PROVE  Total(4, ns) = ns[1] + ns[2] + ns[3] + ns[4]
<1>1. 4 \in Nat
  OBVIOUS
<1>2. PICK f : Totals(f, 4, ns) /\ Total(4, ns) = f[1]
  BY <1>1, TotalIs, Zenon
<1>3. f[4 + 1] = 0 /\ \A i \in 1 .. 4 : f[i] = ns[i] + f[i + 1]
  BY <1>2, Zenon DEF Totals
<1> QED
  BY <1>2, <1>3

\* The total of five fields.
LEMMA TotalOf5 ==
    ASSUME NEW ns, \A i \in 1 .. 5 : ns[i] \in Nat
    PROVE  Total(5, ns) = ns[1] + ns[2] + ns[3] + ns[4] + ns[5]
<1>1. 5 \in Nat
  OBVIOUS
<1>2. PICK f : Totals(f, 5, ns) /\ Total(5, ns) = f[1]
  BY <1>1, TotalIs, Zenon
<1>3. f[5 + 1] = 0 /\ \A i \in 1 .. 5 : f[i] = ns[i] + f[i + 1]
  BY <1>2, Zenon DEF Totals
<1> QED
  BY <1>2, <1>3

\* The bytes of a message are those of its fields.
LEMMA ToArraySize ==
    ASSUME NEW T, InStep(T), Nested(T), NEW m, Fits(T, m)
    PROVE  /\ Len(ToArray(T, m)) = Total(Len(T.write), [i \in 1 .. Len(T.write) |-> FieldSize(T, m[Name(T, i)], Type(T, i))])
           /\ \A i \in 1 .. Len(T.write) : FieldSize(T, m[Name(T, i)], Type(T, i)) \in Nat
<1> DEFINE n == Len(T.write)
           ss == [i \in 1 .. n |-> FieldArray(T, T.write[i][1], m[T.write[i][2]], T.write[i][3])]
           ns == [i \in 1 .. n |-> FieldSize(T, m[Name(T, i)], Type(T, i))]
<1>1. n \in Nat
  BY Zenon DEF InStep
<1>2. ToArray(T, m) = Join(n, ss)
  BY Zenon DEF ToArray
<1>3. ASSUME NEW i \in 1 .. n
      PROVE  ss[i] \in Seq(Int) /\ Len(ss[i]) = ns[i] /\ ns[i] \in Nat
  <2>1. ss[i] = FieldArray(T, T.write[i][1], m[T.write[i][2]], T.write[i][3])
    BY Zenon
  <2>2. ns[i] = FieldSize(T, m[Name(T, i)], Type(T, i))
    BY Zenon
  <2>3. FieldSized(T, T.write[i][1], m[Name(T, i)], Type(T, i))
    BY FieldSizes, Zenon
  <2> HIDE DEF ss, ns, n
  <2>4. ss[i] = FieldArray(T, T.write[i][1], m[Name(T, i)], Type(T, i))
    BY <2>1, Zenon DEF Name, Type
  <2> QED
    BY <2>2, <2>3, <2>4, Zenon DEF FieldSized
<1>4. \A i \in 1 .. n : FieldSize(T, m[Name(T, i)], Type(T, i)) \in Nat
  BY <1>3, Zenon
<1> HIDE DEF ss, ns
<1>5. Len(Join(n, ss)) = Total(n, ns)
  <2> HIDE DEF n
  <2> QED
    BY <1>1, <1>3, JoinTotal, Zenon
<1> QED
  BY <1>2, <1>4, <1>5, Zenon DEF ns

\* GetRouteRequest::ByteSizeLong counts what is written.
LEMMA GetRouteRequestSize ==
    ASSUME NEW m \in GetRouteRequests PROVE Len(ToArray(GetRouteRequest, m)) = ByteSizeLong(GetRouteRequest, m)
<1> DEFINE T == GetRouteRequest
           Size(i) == FieldSize(T, m[Name(T, i)], Type(T, i))
           ws == [i \in 1 .. 2 |-> Size(i)]
           ns == [i \in 1 .. 2 |-> FieldSize(T, m[T.size[i][1]], T.size[i][2])]
<1>1. InStep(T) /\ Nested(T) /\ Fits(T, m)
  BY GetRouteRequestInStep, GetRouteRequestNested, GetRouteRequestFits, Zenon
<1>2. Len(T.write) = 2 /\ Len(T.size) = 2
  BY DEF GetRouteRequest, GetRouteRequest_write, GetRouteRequest_size
<1>3. /\ T.size[1][1] = Name(T, 1) /\ T.size[1][2] = Type(T, 1)
      /\ T.size[2][1] = Name(T, 2) /\ T.size[2][2] = Type(T, 2)
  BY DEF GetRouteRequest, GetRouteRequest_write, GetRouteRequest_size, Name, Type
<1> HIDE DEF T
<1>4. Len(ToArray(T, m)) = Total(2, ws) /\ \A i \in 1 .. 2 : Size(i) \in Nat
  BY <1>1, <1>2, ToArraySize, Zenon
<1>5. ByteSizeLong(T, m) = Total(2, ns)
  BY <1>2, Zenon DEF ByteSizeLong
<1>6. 1 \in 1 .. 2 /\ 2 \in 1 .. 2
  OBVIOUS
<1>7. ws[1] = Size(1) /\ ws[2] = Size(2)
  BY <1>6, Zenon
<1>8. ns[1] = Size(1) /\ ns[2] = Size(2)
  BY <1>3, <1>6, Zenon
<1> HIDE DEF ws, ns, Size
<1>9. 1 .. 2 = {1, 2}
  OBVIOUS
<1>10. (\A i \in 1 .. 2 : ws[i] \in Nat) /\ (\A i \in 1 .. 2 : ns[i] \in Nat)
  BY <1>4, <1>6, <1>7, <1>8, <1>9, Zenon
<1>11. /\ Total(2, ws) = ws[1] + ws[2]
       /\ Total(2, ns) = ns[1] + ns[2]
  BY <1>10, TotalOf2, Zenon
<1>12. Total(2, ws) = Total(2, ns)
  BY <1>4, <1>6, <1>7, <1>8, <1>11
<1> QED
  BY <1>4, <1>5, <1>12, Zenon DEF T

\* GetRouteResponse::ByteSizeLong counts what is written.
LEMMA GetRouteResponseSize ==
    ASSUME NEW m \in GetRouteResponses PROVE Len(ToArray(GetRouteResponse, m)) = ByteSizeLong(GetRouteResponse, m)
<1> DEFINE T == GetRouteResponse
           Size(i) == FieldSize(T, m[Name(T, i)], Type(T, i))
           ws == [i \in 1 .. 3 |-> Size(i)]
           ns == [i \in 1 .. 3 |-> FieldSize(T, m[T.size[i][1]], T.size[i][2])]
<1>1. InStep(T) /\ Nested(T) /\ Fits(T, m)
  BY GetRouteResponseInStep, GetRouteResponseNested, GetRouteResponseFits, Zenon
<1>2. Len(T.write) = 3 /\ Len(T.size) = 3
  BY DEF GetRouteResponse, GetRouteResponse_write, GetRouteResponse_size
<1>3. /\ T.size[1][1] = Name(T, 3) /\ T.size[1][2] = Type(T, 3)
      /\ T.size[2][1] = Name(T, 1) /\ T.size[2][2] = Type(T, 1)
      /\ T.size[3][1] = Name(T, 2) /\ T.size[3][2] = Type(T, 2)
  BY DEF GetRouteResponse, GetRouteResponse_write, GetRouteResponse_size, Name, Type
<1> HIDE DEF T
<1>4. Len(ToArray(T, m)) = Total(3, ws) /\ \A i \in 1 .. 3 : Size(i) \in Nat
  BY <1>1, <1>2, ToArraySize, Zenon
<1>5. ByteSizeLong(T, m) = Total(3, ns)
  BY <1>2, Zenon DEF ByteSizeLong
<1>6. 1 \in 1 .. 3 /\ 2 \in 1 .. 3 /\ 3 \in 1 .. 3
  OBVIOUS
<1>7. ws[1] = Size(1) /\ ws[2] = Size(2) /\ ws[3] = Size(3)
  BY <1>6, Zenon
<1>8. ns[1] = Size(3) /\ ns[2] = Size(1) /\ ns[3] = Size(2)
  BY <1>3, <1>6, Zenon
<1> HIDE DEF ws, ns, Size
<1>9. 1 .. 3 = {1, 2, 3}
  OBVIOUS
<1>10. (\A i \in 1 .. 3 : ws[i] \in Nat) /\ (\A i \in 1 .. 3 : ns[i] \in Nat)
  BY <1>4, <1>6, <1>7, <1>8, <1>9, Zenon
<1>11. /\ Total(3, ws) = ws[1] + ws[2] + ws[3]
       /\ Total(3, ns) = ns[1] + ns[2] + ns[3]
  BY <1>10, TotalOf3, Zenon
<1>12. Total(3, ws) = Total(3, ns)
  BY <1>4, <1>6, <1>7, <1>8, <1>11
<1> QED
  BY <1>4, <1>5, <1>12, Zenon DEF T

\* ReportStatusRequest::ByteSizeLong counts what is written.
LEMMA ReportStatusRequestSize ==
    ASSUME NEW m \in ReportStatusRequests PROVE Len(ToArray(ReportStatusRequest, m)) = ByteSizeLong(ReportStatusRequest, m)
<1> DEFINE T == ReportStatusRequest
           Size(i) == FieldSize(T, m[Name(T, i)], Type(T, i))
           ws == [i \in 1 .. 5 |-> Size(i)]
           ns == [i \in 1 .. 5 |-> FieldSize(T, m[T.size[i][1]], T.size[i][2])]
<1>1. InStep(T) /\ Nested(T) /\ Fits(T, m)
  BY ReportStatusRequestInStep, ReportStatusRequestNested, ReportStatusRequestFits, Zenon
<1>2. Len(T.write) = 5 /\ Len(T.size) = 5
  BY DEF ReportStatusRequest, ReportStatusRequest_write, ReportStatusRequest_size
<1>3. /\ T.size[1][1] = Name(T, 4) /\ T.size[1][2] = Type(T, 4)
      /\ T.size[2][1] = Name(T, 1) /\ T.size[2][2] = Type(T, 1)
      /\ T.size[3][1] = Name(T, 2) /\ T.size[3][2] = Type(T, 2)
      /\ T.size[4][1] = Name(T, 3) /\ T.size[4][2] = Type(T, 3)
      /\ T.size[5][1] = Name(T, 5) /\ T.size[5][2] = Type(T, 5)
  BY DEF ReportStatusRequest, ReportStatusRequest_write, ReportStatusRequest_size, Name, Type
<1> HIDE DEF T
<1>4. Len(ToArray(T, m)) = Total(5, ws) /\ \A i \in 1 .. 5 : Size(i) \in Nat
  BY <1>1, <1>2, ToArraySize, Zenon
<1>5. ByteSizeLong(T, m) = Total(5, ns)
  BY <1>2, Zenon DEF ByteSizeLong
<1>6. 1 \in 1 .. 5 /\ 2 \in 1 .. 5 /\ 3 \in 1 .. 5 /\ 4 \in 1 .. 5 /\ 5 \in 1 .. 5
  OBVIOUS
<1>7. ws[1] = Size(1) /\ ws[2] = Size(2) /\ ws[3] = Size(3) /\ ws[4] = Size(4) /\ ws[5] = Size(5)
  BY <1>6, Zenon
<1>8. ns[1] = Size(4) /\ ns[2] = Size(1) /\ ns[3] = Size(2) /\ ns[4] = Size(3) /\ ns[5] = Size(5)
  BY <1>3, <1>6, Zenon
<1> HIDE DEF ws, ns, Size
<1>9. 1 .. 5 = {1, 2, 3, 4, 5}
  OBVIOUS
<1>10. (\A i \in 1 .. 5 : ws[i] \in Nat) /\ (\A i \in 1 .. 5 : ns[i] \in Nat)
  BY <1>4, <1>6, <1>7, <1>8, <1>9, Zenon
<1>11. /\ Total(5, ws) = ws[1] + ws[2] + ws[3] + ws[4] + ws[5]
       /\ Total(5, ns) = ns[1] + ns[2] + ns[3] + ns[4] + ns[5]
  BY <1>10, TotalOf5, Zenon
<1>12. Total(5, ws) = Total(5, ns)
  BY <1>4, <1>6, <1>7, <1>8, <1>11
<1> QED
  BY <1>4, <1>5, <1>12, Zenon DEF T

\* GetHostRequest::ByteSizeLong counts what is written.
LEMMA GetHostRequestSize ==
    ASSUME NEW m \in GetHostRequests PROVE Len(ToArray(GetHostRequest, m)) = ByteSizeLong(GetHostRequest, m)
<1> DEFINE T == GetHostRequest
           Size(i) == FieldSize(T, m[Name(T, i)], Type(T, i))
           ws == [i \in 1 .. 3 |-> Size(i)]
           ns == [i \in 1 .. 3 |-> FieldSize(T, m[T.size[i][1]], T.size[i][2])]
<1>1. InStep(T) /\ Nested(T) /\ Fits(T, m)
  BY GetHostRequestInStep, GetHostRequestNested, GetHostRequestFits, Zenon
<1>2. Len(T.write) = 3 /\ Len(T.size) = 3
  BY DEF GetHostRequest, GetHostRequest_write, GetHostRequest_size
<1>3. /\ T.size[1][1] = Name(T, 1) /\ T.size[1][2] = Type(T, 1)
      /\ T.size[2][1] = Name(T, 2) /\ T.size[2][2] = Type(T, 2)
      /\ T.size[3][1] = Name(T, 3) /\ T.size[3][2] = Type(T, 3)
  BY DEF GetHostRequest, GetHostRequest_write, GetHostRequest_size, Name, Type
<1> HIDE DEF T
<1>4. Len(ToArray(T, m)) = Total(3, ws) /\ \A i \in 1 .. 3 : Size(i) \in Nat
  BY <1>1, <1>2, ToArraySize, Zenon
<1>5. ByteSizeLong(T, m) = Total(3, ns)
  BY <1>2, Zenon DEF ByteSizeLong
<1>6. 1 \in 1 .. 3 /\ 2 \in 1 .. 3 /\ 3 \in 1 .. 3
  OBVIOUS
<1>7. ws[1] = Size(1) /\ ws[2] = Size(2) /\ ws[3] = Size(3)
  BY <1>6, Zenon
<1>8. ns[1] = Size(1) /\ ns[2] = Size(2) /\ ns[3] = Size(3)
  BY <1>3, <1>6, Zenon
<1> HIDE DEF ws, ns, Size
<1>9. 1 .. 3 = {1, 2, 3}
  OBVIOUS
<1>10. (\A i \in 1 .. 3 : ws[i] \in Nat) /\ (\A i \in 1 .. 3 : ns[i] \in Nat)
  BY <1>4, <1>6, <1>7, <1>8, <1>9, Zenon
<1>11. /\ Total(3, ws) = ws[1] + ws[2] + ws[3]
       /\ Total(3, ns) = ns[1] + ns[2] + ns[3]
  BY <1>10, TotalOf3, Zenon
<1>12. Total(3, ws) = Total(3, ns)
  BY <1>4, <1>6, <1>7, <1>8, <1>11
<1> QED
  BY <1>4, <1>5, <1>12, Zenon DEF T

\* GetHostResponse::ByteSizeLong counts what is written.
LEMMA GetHostResponseSize ==
    ASSUME NEW m \in GetHostResponses PROVE Len(ToArray(GetHostResponse, m)) = ByteSizeLong(GetHostResponse, m)
<1> DEFINE T == GetHostResponse
           Size(i) == FieldSize(T, m[Name(T, i)], Type(T, i))
           ws == [i \in 1 .. 5 |-> Size(i)]
           ns == [i \in 1 .. 5 |-> FieldSize(T, m[T.size[i][1]], T.size[i][2])]
<1>1. InStep(T) /\ Nested(T) /\ Fits(T, m)
  BY GetHostResponseInStep, GetHostResponseNested, GetHostResponseFits, Zenon
<1>2. Len(T.write) = 5 /\ Len(T.size) = 5
  BY DEF GetHostResponse, GetHostResponse_write, GetHostResponse_size
<1>3. /\ T.size[1][1] = Name(T, 5) /\ T.size[1][2] = Type(T, 5)
      /\ T.size[2][1] = Name(T, 1) /\ T.size[2][2] = Type(T, 1)
      /\ T.size[3][1] = Name(T, 2) /\ T.size[3][2] = Type(T, 2)
      /\ T.size[4][1] = Name(T, 3) /\ T.size[4][2] = Type(T, 3)
      /\ T.size[5][1] = Name(T, 4) /\ T.size[5][2] = Type(T, 4)
  BY DEF GetHostResponse, GetHostResponse_write, GetHostResponse_size, Name, Type
<1> HIDE DEF T
<1>4. Len(ToArray(T, m)) = Total(5, ws) /\ \A i \in 1 .. 5 : Size(i) \in Nat
  BY <1>1, <1>2, ToArraySize, Zenon
<1>5. ByteSizeLong(T, m) = Total(5, ns)
  BY <1>2, Zenon DEF ByteSizeLong
<1>6. 1 \in 1 .. 5 /\ 2 \in 1 .. 5 /\ 3 \in 1 .. 5 /\ 4 \in 1 .. 5 /\ 5 \in 1 .. 5
  OBVIOUS
<1>7. ws[1] = Size(1) /\ ws[2] = Size(2) /\ ws[3] = Size(3) /\ ws[4] = Size(4) /\ ws[5] = Size(5)
  BY <1>6, Zenon
<1>8. ns[1] = Size(5) /\ ns[2] = Size(1) /\ ns[3] = Size(2) /\ ns[4] = Size(3) /\ ns[5] = Size(4)
  BY <1>3, <1>6, Zenon
<1> HIDE DEF ws, ns, Size
<1>9. 1 .. 5 = {1, 2, 3, 4, 5}
  OBVIOUS
<1>10. (\A i \in 1 .. 5 : ws[i] \in Nat) /\ (\A i \in 1 .. 5 : ns[i] \in Nat)
  BY <1>4, <1>6, <1>7, <1>8, <1>9, Zenon
<1>11. /\ Total(5, ws) = ws[1] + ws[2] + ws[3] + ws[4] + ws[5]
       /\ Total(5, ns) = ns[1] + ns[2] + ns[3] + ns[4] + ns[5]
  BY <1>10, TotalOf5, Zenon
<1>12. Total(5, ws) = Total(5, ns)
  BY <1>4, <1>6, <1>7, <1>8, <1>11
<1> QED
  BY <1>4, <1>5, <1>12, Zenon DEF T

\* ReportRequest::ByteSizeLong counts what is written.
LEMMA ReportRequestSize ==
    ASSUME NEW m \in ReportRequests PROVE Len(ToArray(ReportRequest, m)) = ByteSizeLong(ReportRequest, m)
<1> DEFINE T == ReportRequest
           Size(i) == FieldSize(T, m[Name(T, i)], Type(T, i))
           ws == [i \in 1 .. 4 |-> Size(i)]
           ns == [i \in 1 .. 4 |-> FieldSize(T, m[T.size[i][1]], T.size[i][2])]
<1>1. InStep(T) /\ Nested(T) /\ Fits(T, m)
  BY ReportRequestInStep, ReportRequestNested, ReportRequestFits, Zenon
<1>2. Len(T.write) = 4 /\ Len(T.size) = 4
  BY DEF ReportRequest, ReportRequest_write, ReportRequest_size
<1>3. /\ T.size[1][1] = Name(T, 3) /\ T.size[1][2] = Type(T, 3)
      /\ T.size[2][1] = Name(T, 1) /\ T.size[2][2] = Type(T, 1)
      /\ T.size[3][1] = Name(T, 2) /\ T.size[3][2] = Type(T, 2)
      /\ T.size[4][1] = Name(T, 4) /\ T.size[4][2] = Type(T, 4)
  BY DEF ReportRequest, ReportRequest_write, ReportRequest_size, Name, Type
<1> HIDE DEF T
<1>4. Len(ToArray(T, m)) = Total(4, ws) /\ \A i \in 1 .. 4 : Size(i) \in Nat
  BY <1>1, <1>2, ToArraySize, Zenon
<1>5. ByteSizeLong(T, m) = Total(4, ns)
  BY <1>2, Zenon DEF ByteSizeLong
<1>6. 1 \in 1 .. 4 /\ 2 \in 1 .. 4 /\ 3 \in 1 .. 4 /\ 4 \in 1 .. 4
  OBVIOUS
<1>7. ws[1] = Size(1) /\ ws[2] = Size(2) /\ ws[3] = Size(3) /\ ws[4] = Size(4)
  BY <1>6, Zenon
<1>8. ns[1] = Size(3) /\ ns[2] = Size(1) /\ ns[3] = Size(2) /\ ns[4] = Size(4)
  BY <1>3, <1>6, Zenon
<1> HIDE DEF ws, ns, Size
<1>9. 1 .. 4 = {1, 2, 3, 4}
  OBVIOUS
<1>10. (\A i \in 1 .. 4 : ws[i] \in Nat) /\ (\A i \in 1 .. 4 : ns[i] \in Nat)
  BY <1>4, <1>6, <1>7, <1>8, <1>9, Zenon
<1>11. /\ Total(4, ws) = ws[1] + ws[2] + ws[3] + ws[4]
       /\ Total(4, ns) = ns[1] + ns[2] + ns[3] + ns[4]
  BY <1>10, TotalOf4, Zenon
<1>12. Total(4, ws) = Total(4, ns)
  BY <1>4, <1>6, <1>7, <1>8, <1>11
<1> QED
  BY <1>4, <1>5, <1>12, Zenon DEF T

-----------------------------------------------------------------------------
(* The size of a report                                                    *)

\* What is counted for no field and for one.
LEMMA TotalOf0 == ASSUME NEW ns PROVE Total(0, ns) = 0
<1>1. 0 \in Nat
  OBVIOUS
<1>2. PICK f : Totals(f, 0, ns) /\ Total(0, ns) = f[1]
  BY <1>1, TotalIs, Zenon
<1>3. f[0 + 1] = 0
  BY <1>2, Zenon DEF Totals
<1> QED
  BY <1>2, <1>3

\* The total of one field.
LEMMA TotalOf1 == ASSUME NEW ns, ns[1] \in Nat PROVE Total(1, ns) = ns[1]
<1>1. 1 \in Nat
  OBVIOUS
<1>2. PICK f : Totals(f, 1, ns) /\ Total(1, ns) = f[1]
  BY <1>1, TotalIs, Zenon
<1>3. f[1 + 1] = 0 /\ \A i \in 1 .. 1 : f[i] = ns[i] + f[i + 1]
  BY <1>2, Zenon DEF Totals
<1> QED
  BY <1>2, <1>3

\* A number is at most ten bytes and its tag.
LEMMA ScalarLimit ==
    ASSUME NEW v \in INT32
    PROVE  ScalarSize(v, "int32") \in Nat /\ ScalarSize(v, "int32") <= 11
<1>1. VarintSize(v) \in Int /\ 1 <= VarintSize(v) /\ VarintSize(v) <= 10
  BY VarintSizes, Zenon
<1>2. Number(v, "int32") = v
  BY DEF Number
<1>3. ScalarSize(v, "int32") = IF v = 0 THEN 0 ELSE 1 + VarintSize(v)
  BY <1>2, Zenon DEF ScalarSize
<1> QED
  BY <1>1, <1>3

\* A HostInfo inside another message is at most 28 bytes.
LEMMA HostInfoLimit ==
    ASSUME NEW h \in HostInfos
    PROVE  MessageSize(HostInfo, h) \in Nat /\ MessageSize(HostInfo, h) <= 28
<1> DEFINE ns == [i \in 1 .. Len(HostInfo.size) |->
                     ScalarSize(h[HostInfo.size[i][1]], HostInfo.size[i][2])]
           n == InnerSize(HostInfo, h)
<1>1. /\ Len(HostInfo.size) = 2 /\ 1 .. 2 = {1, 2}
      /\ HostInfo.size[1][1] = "ip" /\ HostInfo.size[1][2] = "int32"
      /\ HostInfo.size[2][1] = "port" /\ HostInfo.size[2][2] = "int32"
  BY DEF HostInfo, HostInfo_size
<1>2. h["ip"] \in INT32 /\ h["port"] \in INT32
  BY DEF HostInfos
<1>3. ns[1] = ScalarSize(h["ip"], "int32") /\ ns[2] = ScalarSize(h["port"], "int32")
  BY <1>1, Zenon
<1>4. n = Total(2, ns)
  BY <1>1, Zenon DEF InnerSize
<1> HIDE DEF ns, n
<1>5. ns[1] \in Nat /\ ns[1] <= 11 /\ ns[2] \in Nat /\ ns[2] <= 11
  BY <1>2, <1>3, ScalarLimit, Zenon
<1>6. \A i \in 1 .. 2 : ns[i] \in Nat
  BY <1>1, <1>5, Zenon
<1>7. n = ns[1] + ns[2]
  BY <1>4, <1>6, TotalOf2, Zenon
<1>8. n \in INT32 /\ 0 <= n /\ n <= 22
  BY <1>5, <1>7 DEF INT32
<1>9. VarintSize(n) \in Int /\ 1 <= VarintSize(n) /\ VarintSize(n) <= 5
  BY <1>8, VarintSizes
<1>10. MessageSize(HostInfo, h) = 1 + VarintSize(n) + n
  BY Zenon DEF MessageSize, n
<1> QED
  BY <1>8, <1>9, <1>10 DEF INT32

\* A ReportRequest is far below the limit of a datagram.
LEMMA ReportLimit ==
    ASSUME NEW m \in ReportRequests
    PROVE  ByteSizeLong(ReportRequest, m) \in Nat /\ ByteSizeLong(ReportRequest, m) <= 61
<1> DEFINE T == ReportRequest
           ns == [i \in 1 .. 4 |-> FieldSize(T, m[T.size[i][1]], T.size[i][2])]
<1>1. /\ Len(T.size) = 4 /\ T.size[1][1] = "host" /\ T.size[1][2] = "message"
      /\ T.size[2][1] = "modid" /\ T.size[2][2] = "int32"
      /\ T.size[3][1] = "cmdid" /\ T.size[3][2] = "int32"
      /\ T.size[4][1] = "retcode" /\ T.size[4][2] = "int32" /\ T.of = HostInfo
  BY DEF ReportRequest, ReportRequest_size
<1>2. /\ m["host"] \in MaybeHostInfo /\ m["modid"] \in INT32 /\ m["cmdid"] \in INT32
      /\ m["retcode"] \in INT32
  BY DEF ReportRequests
<1>3. 1 .. 4 = {1, 2, 3, 4}
  OBVIOUS
<1> HIDE DEF T
<1>4. ByteSizeLong(T, m) = Total(4, ns)
  BY <1>1, Zenon DEF ByteSizeLong
<1>5. IsMessage("message") /\ ~IsMessage("int32")
  BY DEF IsMessage
<1>6. /\ ns[2] = ScalarSize(m["modid"], "int32") /\ ns[3] = ScalarSize(m["cmdid"], "int32")
      /\ ns[4] = ScalarSize(m["retcode"], "int32")
  BY <1>1, <1>3, <1>5, Zenon DEF FieldSize
<1>7. /\ ns[2] \in Nat /\ ns[2] <= 11 /\ ns[3] \in Nat /\ ns[3] <= 11
      /\ ns[4] \in Nat /\ ns[4] <= 11
  BY <1>2, <1>6, ScalarLimit, Zenon
<1>8. ns[1] = FieldSize(T, m["host"], "message")
  BY <1>1, <1>3, Zenon
<1>9. ns[1] \in Nat /\ ns[1] <= 28
  <2> DEFINE v == m["host"]
             ms == [k \in 1 .. Len(v) |-> MessageSize(HostInfo, v[k])]
  <2>1. ns[1] = Total(Len(v), ms)
    BY <1>1, <1>5, <1>8, Zenon DEF FieldSize
  <2>2. CASE v = <<>>
    <3>1. Len(v) = 0
      BY <2>2
    <3> QED
      BY <2>1, <3>1, TotalOf0
  <2>3. ASSUME NEW h \in HostInfos, v = <<h>> PROVE ns[1] \in Nat /\ ns[1] <= 28
    <3>1. Len(v) = 1 /\ v[1] = h
      BY <2>3
    <3>2. ms[1] = MessageSize(HostInfo, h)
      BY <3>1
    <3> HIDE DEF v, ms
    <3>3. ms[1] \in Nat /\ ms[1] <= 28
      BY <3>2, HostInfoLimit, Zenon
    <3>4. ns[1] = ms[1]
      BY <2>1, <3>1, <3>3, TotalOf1, Zenon
    <3> QED
      BY <3>3, <3>4, Zenon
  <2> QED
    BY <1>2, <2>2, <2>3, Zenon DEF MaybeHostInfo
<1> HIDE DEF ns
<1>10. \A i \in 1 .. 4 : ns[i] \in Nat
  BY <1>3, <1>7, <1>9, Zenon
<1>11. Total(4, ns) = ns[1] + ns[2] + ns[3] + ns[4]
  BY <1>10, TotalOf4, Zenon
<1>12. Total(4, ns) \in Nat /\ Total(4, ns) <= 61
  BY <1>7, <1>9, <1>11
<1> QED
  BY <1>4, <1>12, Zenon DEF T

-----------------------------------------------------------------------------
(* What the proofs about the programs use                                  *)

\* Every message the programs exchange survives, whatever its numbers: a
\* negative address, a count of 0, a flag that is not set, no host or any
\* number of them, and whatever the object it is parsed into was used for
\* before (lars.pb.cc: SerializeWithCachedSizesToArray, ByteSizeLong, Clear and
\* MergePartialFromCodedStream of each type).
THEOREM MessagesSurvive ==
    /\ \A m \in GetRouteRequests : Survives(GetRouteRequest, m)
    /\ \A m \in GetRouteResponses : Survives(GetRouteResponse, m)
    /\ \A m \in ReportStatusRequests : Survives(ReportStatusRequest, m)
    /\ \A m \in GetHostRequests : Survives(GetHostRequest, m)
    /\ \A m \in GetHostResponses : Survives(GetHostResponse, m)
    /\ \A m \in ReportRequests : Survives(ReportRequest, m)
<1>1. ASSUME NEW m \in GetRouteRequests PROVE Survives(GetRouteRequest, m)
  <2>1. InStep(GetRouteRequest) /\ Nested(GetRouteRequest) /\ Fits(GetRouteRequest, m)
    BY GetRouteRequestInStep, GetRouteRequestNested, GetRouteRequestFits, Zenon
  <2>2. Len(ToArray(GetRouteRequest, m)) = ByteSizeLong(GetRouteRequest, m)
    BY GetRouteRequestSize, Zenon
  <2>3. ToArray(GetRouteRequest, m) \in Seq(Int)
    BY <2>1, Trip, Zenon
  <2> QED
    BY <2>1, <2>2, <2>3, RoundTrip, Zenon DEF Survives
<1>2. ASSUME NEW m \in GetRouteResponses PROVE Survives(GetRouteResponse, m)
  <2>1. InStep(GetRouteResponse) /\ Nested(GetRouteResponse) /\ Fits(GetRouteResponse, m)
    BY GetRouteResponseInStep, GetRouteResponseNested, GetRouteResponseFits, Zenon
  <2>2. Len(ToArray(GetRouteResponse, m)) = ByteSizeLong(GetRouteResponse, m)
    BY GetRouteResponseSize, Zenon
  <2>3. ToArray(GetRouteResponse, m) \in Seq(Int)
    BY <2>1, Trip, Zenon
  <2> QED
    BY <2>1, <2>2, <2>3, RoundTrip, Zenon DEF Survives
<1>3. ASSUME NEW m \in ReportStatusRequests PROVE Survives(ReportStatusRequest, m)
  <2>1. InStep(ReportStatusRequest) /\ Nested(ReportStatusRequest) /\ Fits(ReportStatusRequest, m)
    BY ReportStatusRequestInStep, ReportStatusRequestNested, ReportStatusRequestFits, Zenon
  <2>2. Len(ToArray(ReportStatusRequest, m)) = ByteSizeLong(ReportStatusRequest, m)
    BY ReportStatusRequestSize, Zenon
  <2>3. ToArray(ReportStatusRequest, m) \in Seq(Int)
    BY <2>1, Trip, Zenon
  <2> QED
    BY <2>1, <2>2, <2>3, RoundTrip, Zenon DEF Survives
<1>4. ASSUME NEW m \in GetHostRequests PROVE Survives(GetHostRequest, m)
  <2>1. InStep(GetHostRequest) /\ Nested(GetHostRequest) /\ Fits(GetHostRequest, m)
    BY GetHostRequestInStep, GetHostRequestNested, GetHostRequestFits, Zenon
  <2>2. Len(ToArray(GetHostRequest, m)) = ByteSizeLong(GetHostRequest, m)
    BY GetHostRequestSize, Zenon
  <2>3. ToArray(GetHostRequest, m) \in Seq(Int)
    BY <2>1, Trip, Zenon
  <2> QED
    BY <2>1, <2>2, <2>3, RoundTrip, Zenon DEF Survives
<1>5. ASSUME NEW m \in GetHostResponses PROVE Survives(GetHostResponse, m)
  <2>1. InStep(GetHostResponse) /\ Nested(GetHostResponse) /\ Fits(GetHostResponse, m)
    BY GetHostResponseInStep, GetHostResponseNested, GetHostResponseFits, Zenon
  <2>2. Len(ToArray(GetHostResponse, m)) = ByteSizeLong(GetHostResponse, m)
    BY GetHostResponseSize, Zenon
  <2>3. ToArray(GetHostResponse, m) \in Seq(Int)
    BY <2>1, Trip, Zenon
  <2> QED
    BY <2>1, <2>2, <2>3, RoundTrip, Zenon DEF Survives
<1>6. ASSUME NEW m \in ReportRequests PROVE Survives(ReportRequest, m)
  <2>1. InStep(ReportRequest) /\ Nested(ReportRequest) /\ Fits(ReportRequest, m)
    BY ReportRequestInStep, ReportRequestNested, ReportRequestFits, Zenon
  <2>2. Len(ToArray(ReportRequest, m)) = ByteSizeLong(ReportRequest, m)
    BY ReportRequestSize, Zenon
  <2>3. ToArray(ReportRequest, m) \in Seq(Int)
    BY <2>1, Trip, Zenon
  <2> QED
    BY <2>1, <2>2, <2>3, RoundTrip, Zenon DEF Survives
<1> QED
  BY <1>1, <1>2, <1>3, <1>4, <1>5, <1>6, Zenon

\* The encoding is what the proofs about the programs take it to be.
THEOREM MessagesFaithful == Faithful
BY MessagesSurvive, ReportLimit, Zenon DEF Faithful

=============================================================================
