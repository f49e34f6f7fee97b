-------------------------- MODULE ReactorBufProofs --------------------------
(***************************************************************************)
(* OnePlaceEach and BytesInOrder hold for any buffers, any sizes and       *)
(* numbers of blocks, any limit and any number of bytes.                   *)
(***************************************************************************)
EXTENDS ReactorBuf, FiniteSetTheorems, WellFoundedInduction, TLAPS

USE SMTT(60), ZenonT(60)

-----------------------------------------------------------------------------
(* What is known of sequences                                              *)

\* The positions of a sequence.
LEMMA SeqLen ==
    ASSUME NEW S, NEW s \in Seq(S)
    PROVE  Len(s) \in Nat /\ DOMAIN s = 1 .. Len(s) /\ s \in [1 .. Len(s) -> S]
OBVIOUS

\* The elements of a sequence.
LEMMA SeqAt == ASSUME NEW S, NEW s \in Seq(S), NEW k \in 1 .. Len(s) PROVE s[k] \in S
OBVIOUS

\* The empty sequence, the only one of length 0.
LEMMA SeqNone ==
    ASSUME NEW S
    PROVE  <<>> \in Seq(S) /\ Len(<<>>) = 0 /\ \A s \in Seq(S) : s # <<>> => Len(s) \in Nat \ {0}
OBVIOUS

\* A sequence with one more element at its end.
LEMMA SeqAppend ==
    ASSUME NEW S, NEW s \in Seq(S), NEW e \in S
    PROVE  /\ Append(s, e) \in Seq(S) /\ Append(s, e) # <<>> /\ Len(Append(s, e)) = Len(s) + 1
           /\ \A k \in 1 .. Len(s) : Append(s, e)[k] = s[k]
           /\ Append(s, e)[Len(s) + 1] = e
OBVIOUS

\* Sequences with the same elements are the same.
LEMMA SeqSame ==
    ASSUME NEW S, NEW s \in Seq(S), NEW t \in Seq(S), Len(s) = Len(t),
           \A k \in 1 .. Len(s) : s[k] = t[k]
    PROVE  s = t
OBVIOUS

\* A sequence without its first element.
LEMMA SeqTail ==
    ASSUME NEW S, NEW s \in Seq(S), s # <<>>
    PROVE  /\ Head(s) \in S /\ Tail(s) \in Seq(S) /\ Len(Tail(s)) = Len(s) - 1
           /\ \A k \in 1 .. Len(Tail(s)) : Tail(s)[k] = s[k + 1]
OBVIOUS

\* A part of a sequence.
LEMMA SeqPart ==
    ASSUME NEW S, NEW s, NEW m \in Int, NEW n \in Int, \A k \in m .. n : s[k] \in S
    PROVE  /\ SubSeq(s, m, n) \in Seq(S) /\ Len(SubSeq(s, m, n)) = IF m <= n THEN n - m + 1 ELSE 0
           /\ \A k \in 1 .. n - m + 1 : SubSeq(s, m, n)[k] = s[m + k - 1]
OBVIOUS

Ids == 1 .. Len(blocks)

Block == [capacity : Nat, length : Nat, head : Nat, data : UNION {[1 .. c -> Nat] : c \in Cap}]
Good(b) ==
    /\ b \in Block /\ b.capacity \in Cap /\ b.data \in [1 .. b.capacity -> Nat]
    /\ b.head + b.length <= b.capacity

\* A block holds n bytes, from the one after byte g of a buffer.
Holds(b, g, n) == b.length = n /\ \A i \in 1 .. n : b.data[b.head + i] = g + i

Types ==
    /\ blocks \in Seq(Block) /\ pool \in [Cap -> Seq(Nat)]
    /\ buf \in [Owner -> Nat] /\ old \in [Owner -> Nat]
    /\ put \in [Owner -> Nat] /\ got \in [Owner -> Nat]

\* The lists hold empty blocks of their size, each once.
Distinct(s) == \A i, j \in 1 .. Len(s) : s[i] = s[j] => i = j
Listed ==
    \A c \in Cap :
        /\ Distinct(pool[c])
        /\ \A id \in Range(pool[c]) :
            id \in Ids /\ blocks[id].capacity = c /\ blocks[id].length = 0 /\ blocks[id].head = 0

\* A block a buffer has, or gives back, is in no list and no other buffer.
Owned ==
    \A o \in Owner :
        /\ buf[o] # NULL =>
            /\ buf[o] \in Ids /\ \A c \in Cap : buf[o] \notin Range(pool[c])
            /\ \A p \in Owner : buf[o] # old[p] /\ (buf[o] = buf[p] => o = p)
        /\ old[o] # NULL =>
            /\ old[o] \in Ids /\ \A c \in Cap : old[o] \notin Range(pool[c])
            /\ \A p \in Owner : old[o] # buf[p] /\ (old[o] = old[p] => o = p)

Somewhere ==
    \A id \in Ids :
        (\E c \in Cap : id \in Range(pool[c])) \/ \E o \in Owner : buf[o] = id \/ old[o] = id

Content ==
    \A o \in Owner :
        IF buf[o] = NULL THEN put[o] = got[o] ELSE Holds(blocks[buf[o]], got[o], put[o] - got[o])

Inv ==
    /\ Types /\ \A id \in Ids : Good(blocks[id])
    /\ Listed /\ Owned /\ Somewhere
    /\ Content
    /\ total_mem = Memory(blocks) /\ total_mem < MEM_LIMIT

-----------------------------------------------------------------------------
(* Lists of blocks                                                         *)

\* A block is taken from the front of a list.
LEMMA TakeFirst ==
    ASSUME NEW s \in Seq(Nat), Distinct(s), s # <<>>
    PROVE  /\ Head(s) \in Nat /\ Tail(s) \in Seq(Nat) /\ Distinct(Tail(s))
           /\ Head(s) \in Range(s) /\ Head(s) \notin Range(Tail(s))
           /\ \A x : x \in Range(s) <=> x = Head(s) \/ x \in Range(Tail(s))
<1> DEFINE n == Len(s)
           t == Tail(s)
           h == Head(s)
<1>1. /\ n \in Nat \ {0} /\ DOMAIN s = 1 .. n /\ h \in Nat /\ h = s[1]
      /\ t \in Seq(Nat) /\ Len(t) = n - 1 /\ DOMAIN t = 1 .. n - 1
      /\ \A i \in 1 .. n - 1 : t[i] = s[i + 1]
  BY SeqNone, SeqTail, SeqLen
<1> HIDE DEF n, t, h
<1>2. \A i \in 1 .. n - 1 : i + 1 \in 1 .. n /\ i + 1 # 1
  BY <1>1
<1>3. 1 \in 1 .. n /\ \A i \in 1 .. n : i = 1 \/ (i - 1 \in 1 .. n - 1 /\ (i - 1) + 1 = i)
  BY <1>1
<1>4. \A i, j \in 1 .. n - 1 : i + 1 = j + 1 => i = j
  BY <1>1
<1>5. \A i, j \in 1 .. n : s[i] = s[j] => i = j
  BY Zenon DEF Distinct, n
<1>6. Distinct(t)
  <2> SUFFICES ASSUME NEW i \in 1 .. n - 1, NEW j \in 1 .. n - 1, t[i] = t[j] PROVE i = j
    BY <1>1, Zenon DEF Distinct
  <2>1. s[i + 1] = s[j + 1]
    BY <1>1, Zenon
  <2>2. i + 1 = j + 1
    BY <1>2, <1>5, <2>1, Zenon
  <2> QED
    BY <1>4, <2>2, Zenon
<1>7. h \in Range(s) /\ h \notin Range(t)
  <2>1. ASSUME NEW i \in 1 .. n - 1, t[i] = h PROVE FALSE
    <3>1. s[i + 1] = s[1]
      BY <1>1, <2>1, Zenon
    <3> QED
      BY <1>2, <1>3, <1>5, <3>1, Zenon
  <2>2. h \notin Range(t)
    BY <1>1, <2>1, Zenon DEF Range
  <2> QED
    BY <1>1, <1>3, <2>2, Zenon DEF Range
<1>8. ASSUME NEW i \in 1 .. n PROVE s[i] = h \/ s[i] \in Range(t)
  <2>1. CASE i = 1
    BY <1>1, <2>1, Zenon
  <2>2. CASE i - 1 \in 1 .. n - 1 /\ (i - 1) + 1 = i
    <3>1. t[i - 1] = s[i]
      BY <1>1, <2>2, Zenon
    <3> QED
      BY <1>1, <2>2, <3>1, Zenon DEF Range
  <2> QED
    BY <1>3, <2>1, <2>2, Zenon
<1>9. ASSUME NEW i \in 1 .. n - 1 PROVE t[i] \in Range(s)
  BY <1>1, <1>2, Zenon DEF Range
<1>10. \A x : x \in Range(s) <=> x = h \/ x \in Range(t)
  <2>1. ASSUME NEW x \in Range(s) PROVE x = h \/ x \in Range(t)
    <3>1. PICK i \in 1 .. n : x = s[i]
      BY <1>1, <2>1, Zenon DEF Range
    <3> QED
      BY <1>8, <3>1, Zenon
  <2>2. ASSUME NEW x \in Range(t) PROVE x \in Range(s)
    <3>1. PICK i \in 1 .. n - 1 : x = t[i]
      BY <1>1, <2>2, Zenon DEF Range
    <3> QED
      BY <1>9, <3>1, Zenon
  <2> QED
    BY <1>7, <2>1, <2>2, Zenon
<1> QED
  BY <1>1, <1>6, <1>7, <1>10, Zenon DEF t, h

\* A block is put at the front of a list.
LEMMA PutFirst ==
    ASSUME NEW s \in Seq(Nat), Distinct(s), NEW e \in Nat, e \notin Range(s)
    PROVE  /\ <<e>> \o s \in Seq(Nat) /\ Distinct(<<e>> \o s)
           /\ \A x : x \in Range(<<e>> \o s) <=> x = e \/ x \in Range(s)
<1> DEFINE n == Len(s)
           t == <<e>> \o s
<1>1. /\ n \in Nat /\ DOMAIN s = 1 .. n
      /\ t \in Seq(Nat) /\ Len(t) = n + 1 /\ DOMAIN t = 1 .. n + 1
      /\ t[1] = e
  OBVIOUS
<1>2. \A i \in 1 .. n : t[i + 1] = s[i]
  OBVIOUS
<1> HIDE DEF n, t
<1>3. 1 \in 1 .. n + 1 /\ \A i \in 1 .. n : i + 1 \in 1 .. n + 1
  BY <1>1
<1>4. ASSUME NEW i \in 1 .. n + 1
      PROVE  i = 1 \/ \E k \in 1 .. n : i = k + 1 /\ t[i] = s[k]
  <2>1. CASE i # 1
    <3>1. i - 1 \in 1 .. n /\ i = (i - 1) + 1
      BY <1>1, <2>1
    <3>2. t[i] = s[i - 1]
      BY <1>2, <3>1, Zenon
    <3> QED
      BY <3>1, <3>2, Zenon
  <2> QED
    BY <2>1, Zenon
<1>5. \A i, j \in 1 .. n : s[i] = s[j] => i = j
  BY Zenon DEF Distinct, n
<1>6. \A i \in 1 .. n : s[i] \in Range(s) /\ s[i] # e
  BY <1>1, Zenon DEF Range
<1>7. Distinct(t)
  <2> SUFFICES ASSUME NEW i \in 1 .. n + 1, NEW j \in 1 .. n + 1, t[i] = t[j] PROVE i = j
    BY <1>1, Zenon DEF Distinct
  <2>1. CASE i = 1
    BY <1>1, <1>4, <1>6, <2>1, Zenon
  <2>2. CASE j = 1
    BY <1>1, <1>4, <1>6, <2>2, Zenon
  <2>3. CASE i # 1 /\ j # 1
    <3>1. PICK k \in 1 .. n : i = k + 1 /\ t[i] = s[k]
      BY <1>4, <2>3, Zenon
    <3>2. PICK l \in 1 .. n : j = l + 1 /\ t[j] = s[l]
      BY <1>4, <2>3, Zenon
    <3>3. k = l
      BY <1>5, <3>1, <3>2, Zenon
    <3> QED
      BY <3>1, <3>2, <3>3, Zenon
  <2> QED
    BY <2>1, <2>2, <2>3, Zenon
<1>8. ASSUME NEW x \in Range(t) PROVE x = e \/ x \in Range(s)
  <2>1. PICK i \in 1 .. n + 1 : x = t[i]
    BY <1>1, <1>8, Zenon DEF Range
  <2> QED
    BY <1>1, <1>4, <1>6, <2>1, Zenon
<1>9. ASSUME NEW x \in Range(s) PROVE x \in Range(t)
  <2>1. PICK i \in 1 .. n : x = s[i]
    BY <1>1, <1>9, Zenon DEF Range
  <2> QED
    BY <1>1, <1>2, <1>3, <2>1, Zenon DEF Range
<1>10. e \in Range(t)
  BY <1>1, <1>3, Zenon DEF Range
<1> QED
  BY <1>1, <1>7, <1>8, <1>9, <1>10, Zenon DEF t

-----------------------------------------------------------------------------
(* The memory of blocks                                                    *)

\* Of some naturals one is the smallest: what proofs by induction rest on.
LEMMA Least ==
    ASSUME NEW D, D \subseteq Nat, D # {}
    PROVE  \E x \in D : \A y \in D : x <= y
<1> DEFINE less == {p \in Nat \X Nat : p[1] < p[2]}
<1>1. IsWellFoundedOn(less, Nat)
  BY NatLessThanWellFounded DEF OpToRel
<1>2. \E x \in D : \A y \in D : ~(<<y, x>> \in less)
  <2> HIDE DEF less
  <2> QED
    BY <1>1, WFMin, Zenon
<1>3. PICK x \in D : \A y \in D : ~(<<y, x>> \in less)
  BY <1>2
<1>4. ASSUME NEW y \in D PROVE x <= y
  <2>1. x \in Nat /\ y \in Nat /\ <<y, x>> \notin less
    BY <1>3
  <2> QED
    BY <2>1
<1> QED
  BY <1>4

\* f counts the memory of the first n blocks of s.
Adds(f, s, n) == f[0] = 0 /\ \A i \in 1 .. n : f[i] = f[i - 1] + s[i].capacity
Counts(f, s, n) == f \in [0 .. n -> Nat] /\ Adds(f, s, n)

\* There is such a function.
LEMMA CountsExist ==
    ASSUME NEW s \in Seq(Block) PROVE \E f : Counts(f, s, Len(s))
<1> DEFINE Up(n) == \E f : Counts(f, s, n)
           D == {n \in 0 .. Len(s) : ~Up(n)}
<1>1. Len(s) \in Nat /\ \A i \in 1 .. Len(s) : s[i].capacity \in Nat
  <2>1. Len(s) \in Nat /\ \A i \in 1 .. Len(s) : s[i] \in Block
    BY SeqLen, SeqAt
  <2> QED
    BY <2>1, Zenon DEF Block
<1>2. Up(0)
  <2> DEFINE f == [i \in 0 .. 0 |-> 0]
  <2>1. f \in [0 .. 0 -> Nat] /\ f[0] = 0 /\ \A i \in 1 .. 0 : FALSE
    OBVIOUS
  <2> HIDE DEF f
  <2> QED
    BY <2>1, Zenon DEF Counts, Adds
<1>3. D \subseteq Nat /\ \A n \in 0 .. Len(s) : n \notin D => Up(n)
  <2> HIDE DEF Up
  <2> QED
    BY <1>1
<1>4. \A n \in D : n \in 0 .. Len(s) /\ ~Up(n)
  BY Zenon
<1> HIDE DEF D
<1>5. D = {}
  <2> SUFFICES ASSUME D # {} PROVE FALSE
    BY Zenon
  <2>1. PICK n \in D : \A m \in D : n <= m
    BY <1>3, Least, Zenon
  <2>2. n # 0
    BY <1>2, <1>4, Zenon
  <2>3. n - 1 \in 0 .. Len(s) /\ n \in 1 .. Len(s) /\ n - 1 \notin D
    <3> HIDE DEF Up
    <3> QED
      BY <1>1, <1>4, <2>1, <2>2
  <2>4. PICK f : Counts(f, s, n - 1)
    BY <1>3, <2>3, Zenon
  <2> DEFINE e == f[n - 1] + s[n].capacity
             g == [i \in 0 .. n |-> IF i = n THEN e ELSE f[i]]
  <2>5. n - 1 \in 0 .. n - 1 /\ \A i \in 0 .. n : i # n => i \in 0 .. n - 1
    BY <2>3
  <2>6. e \in Nat
    <3>1. f[n - 1] \in Nat /\ s[n].capacity \in Nat
      BY <1>1, <2>3, <2>4, <2>5, Zenon DEF Counts, Adds
    <3> QED
      BY <3>1
  <2>7. g \in [0 .. n -> Nat]
    <3> HIDE DEF e
    <3> QED
      BY <2>4, <2>5, <2>6, Zenon DEF Counts, Adds
  <2>8. \A i \in 0 .. n : g[i] = IF i = n THEN e ELSE f[i]
    BY Zenon
  <2> HIDE DEF g
  <2>9. 0 \in 0 .. n /\ 0 # n
    BY <2>3
  <2>10. ASSUME NEW i \in 1 .. n PROVE g[i] = g[i - 1] + s[i].capacity
    <3>1. i \in 0 .. n /\ i - 1 \in 0 .. n /\ i - 1 # n /\ (i # n => i \in 1 .. n - 1)
      BY <2>3
    <3>2. g[i - 1] = f[i - 1] /\ g[i] = IF i = n THEN e ELSE f[i]
      BY <2>8, <3>1, Zenon
    <3> QED
      BY <2>4, <3>1, <3>2, Zenon DEF Counts, Adds
  <2>11. g[0] = 0
    BY <2>4, <2>8, <2>9, Zenon DEF Counts, Adds
  <2>12. Up(n)
    BY <2>7, <2>10, <2>11, Zenon DEF Counts, Adds
  <2> QED
    BY <1>4, <2>1, <2>12, Zenon
<1>6. Len(s) \in 0 .. Len(s)
  BY <1>1
<1> QED
  BY <1>3, <1>5, <1>6, Zenon

\* Such functions agree when the blocks have the same sizes.
SameSizes(s, t, n) == \A i \in 1 .. n : s[i].capacity = t[i].capacity
Agree(f, g, n) == \A i \in 0 .. n : f[i] = g[i]

\* The memory counted over blocks of the same sizes is the same.
LEMMA CountsAgree ==
    ASSUME NEW s, NEW t, NEW n \in Nat, NEW f, NEW g, Adds(f, s, n),
           NEW m \in Nat, Adds(g, t, m), n <= m, SameSizes(s, t, n)
    PROVE  Agree(f, g, n)
<1> SUFFICES ASSUME \E i \in 0 .. n : f[i] # g[i] PROVE FALSE
  BY Zenon DEF Agree
<1> DEFINE D == {i \in 0 .. n : f[i] # g[i]}
<1>1. D # {} /\ D \subseteq Nat
  OBVIOUS
<1>2. \A i \in 0 .. n : i \notin D => f[i] = g[i]
  BY Zenon
<1>3. \A i \in D : i \in 0 .. n /\ f[i] # g[i]
  BY Zenon
<1> HIDE DEF D
<1>4. PICK i \in D : \A j \in D : i <= j
  BY <1>1, Least, Zenon
<1>5. i # 0
  BY <1>3, <1>4, Zenon DEF Adds
<1>6. /\ i \in 1 .. n /\ i \in 1 .. m /\ i - 1 \in 0 .. n /\ i - 1 \notin D
  BY <1>3, <1>4, <1>5
<1>7. f[i] = f[i - 1] + s[i].capacity /\ g[i] = g[i - 1] + t[i].capacity
  BY <1>6, Zenon DEF Adds
<1>8. f[i - 1] = g[i - 1] /\ s[i].capacity = t[i].capacity
  BY <1>2, <1>6, Zenon DEF SameSizes
<1>9. f[i] = g[i]
  BY <1>7, <1>8, Zenon
<1> QED
  BY <1>3, <1>4, <1>9, Zenon

\* Memory is what such a function says of all the blocks.
LEMMA MemoryOf ==
    ASSUME NEW s \in Seq(Block)
    PROVE  \E f : Counts(f, s, Len(s)) /\ Memory(s) = f[Len(s)]
<1> DEFINE Rec(f) == f = [i \in 0 .. Len(s) |-> IF i = 0 THEN 0 ELSE f[i - 1] + s[i].capacity]
           sum == CHOOSE f : Rec(f)
<1>1. Len(s) \in Nat
  BY SeqLen
<1>2. PICK f : Counts(f, s, Len(s))
  BY CountsExist, Zenon
<1>3. Rec(f)
  <2>1. f \in [0 .. Len(s) -> Nat] /\ f[0] = 0
        /\ \A i \in 1 .. Len(s) : f[i] = f[i - 1] + s[i].capacity
    BY <1>2, Zenon DEF Counts, Adds
  <2>2. \A i \in 0 .. Len(s) : i # 0 => i \in 1 .. Len(s)
    BY <1>1
  <2> QED
    BY <2>1, <2>2, Zenon
<1>4. Rec(sum)
  BY <1>3, Zenon
<1>5. Memory(s) = sum[Len(s)]
  BY DEF Memory
<1> HIDE DEF sum
<1>6. \A i \in 0 .. Len(s) : sum[i] = IF i = 0 THEN 0 ELSE sum[i - 1] + s[i].capacity
  BY <1>4, Zenon
<1>7. 0 \in 0 .. Len(s) /\ \A i \in 1 .. Len(s) : i \in 0 .. Len(s) /\ i # 0
  BY <1>1
<1> HIDE DEF Rec
<1>8. Adds(sum, s, Len(s))
  BY <1>6, <1>7, Zenon DEF Adds
<1>9. Len(s) <= Len(s) /\ Len(s) \in 0 .. Len(s)
  BY <1>1
<1>10. Agree(sum, f, Len(s))
  <2>1. Adds(f, s, Len(s)) /\ SameSizes(s, s, Len(s))
    BY <1>2, Zenon DEF Counts, SameSizes
  <2> QED
    BY <1>1, <1>8, <1>9, <2>1, CountsAgree, Zenon
<1>11. sum[Len(s)] = f[Len(s)]
  BY <1>9, <1>10, Zenon DEF Agree
<1> QED
  BY <1>2, <1>5, <1>11, Zenon

\* Blocks of the same sizes take the same memory, and one block more its size.
LEMMA MemorySame ==
    ASSUME NEW s \in Seq(Block), NEW t \in Seq(Block), Len(s) = Len(t), SameSizes(s, t, Len(s))
    PROVE  Memory(s) = Memory(t)
<1>1. Len(s) \in Nat /\ Len(s) <= Len(s) /\ Len(s) \in 0 .. Len(s)
  BY SeqLen
<1>2. PICK f : Counts(f, s, Len(s)) /\ Memory(s) = f[Len(s)]
  BY MemoryOf, Zenon
<1>3. PICK g : Counts(g, t, Len(s)) /\ Memory(t) = g[Len(s)]
  BY MemoryOf, Zenon
<1>4. Adds(f, s, Len(s)) /\ Adds(g, t, Len(s))
  BY <1>2, <1>3, Zenon DEF Counts
<1>5. Agree(f, g, Len(s))
  BY <1>1, <1>4, CountsAgree, Zenon
<1> QED
  BY <1>1, <1>2, <1>3, <1>5, Zenon DEF Agree

\* A block more adds its capacity to _total_mem (buf_pool.cpp:106-116).
LEMMA MemoryAppend ==
    ASSUME NEW s \in Seq(Block), NEW b \in Block
    PROVE  Memory(s) \in Nat /\ Memory(Append(s, b)) = Memory(s) + b.capacity
<1> DEFINE n == Len(s)
           t == Append(s, b)
<1>1. /\ n \in Nat /\ t \in Seq(Block) /\ Len(t) = n + 1 /\ t[n + 1] = b
      /\ \A i \in 1 .. n : t[i] = s[i]
  BY SeqLen, SeqAppend
<1>2. PICK f : Counts(f, s, n) /\ Memory(s) = f[n]
  BY MemoryOf, Zenon
<1> HIDE DEF t
<1>3. PICK g : Counts(g, t, Len(t)) /\ Memory(t) = g[Len(t)]
  BY <1>1, MemoryOf, Zenon
<1> HIDE DEF n
<1>4. n <= n + 1 /\ n + 1 \in Nat /\ n \in 0 .. n /\ n + 1 \in 1 .. n + 1 /\ (n + 1) - 1 = n
  BY <1>1
<1>5. Adds(f, s, n) /\ Adds(g, t, n + 1) /\ SameSizes(s, t, n)
  BY <1>1, <1>2, <1>3, Zenon DEF Counts, SameSizes
<1>6. f[n] = g[n]
  <2>1. Agree(f, g, n)
    BY <1>1, <1>4, <1>5, CountsAgree, Zenon
  <2> QED
    BY <1>4, <2>1, Zenon DEF Agree
<1>7. g[n + 1] = g[n] + b.capacity
  BY <1>1, <1>4, <1>5, Zenon DEF Adds
<1>8. Memory(s) \in Nat
  BY <1>2, <1>4, Zenon DEF Counts
<1> QED
  BY <1>1, <1>2, <1>3, <1>6, <1>7, <1>8, Zenon DEF t

-----------------------------------------------------------------------------
(* Blocks                                                                  *)

\* A block whose bytes fit in it is a good one.
IsRec(b, c, n, h, d) == b.capacity = c /\ b.length = n /\ b.head = h /\ b.data = d

\* A block is in order when its data lies within its capacity.
LEMMA GoodRec ==
    ASSUME NEW b, NEW c \in Cap, NEW n \in Nat, NEW h \in Nat, NEW d \in [1 .. c -> Nat],
           b \in Block, IsRec(b, c, n, h, d), h + n <= c
    PROVE  Good(b)
  BY Zenon DEF Good, IsRec

\* What the fields of a block in order are (io_buf.cpp:8-18).
LEMMA GoodParts ==
    ASSUME NEW b, Good(b)
    PROVE  /\ b.capacity \in Cap /\ b.capacity \in Nat /\ b.length \in Nat /\ b.head \in Nat
           /\ b.data \in [1 .. b.capacity -> Nat] /\ DOMAIN b.data = 1 .. b.capacity
           /\ b.head + b.length <= b.capacity
           /\ b \in Block
<1>1. /\ b \in Block /\ b.capacity \in Cap /\ b.data \in [1 .. b.capacity -> Nat]
      /\ b.head + b.length <= b.capacity
  BY Zenon DEF Good
<1>2. DOMAIN b.data = 1 .. b.capacity
  BY <1>1, Zenon
<1>3. b.capacity \in Nat /\ b.length \in Nat /\ b.head \in Nat
  BY <1>1, Zenon DEF Block
<1> QED
  BY <1>1, <1>2, <1>3, Zenon

\* What a step that changes some fields makes of a block.
Datas == UNION {[1 .. c -> Nat] : c \in Cap}

\* The bytes of a block.
LEMMA DataIn == ASSUME NEW c \in Cap, NEW d \in [1 .. c -> Nat] PROVE d \in Datas
  BY Zenon DEF Datas

\* A block with new data and a new length (io_buf.cpp:48-53).
LEMMA LengthData ==
    ASSUME NEW b \in Block, NEW r, NEW m \in Nat, NEW x \in Datas,
           r = [b EXCEPT !.length = m, !.data = x]
    PROVE  r \in Block /\ IsRec(r, b.capacity, m, b.head, x)
<1>1. Block = [capacity : Nat, length : Nat, head : Nat, data : Datas]
  BY Zenon DEF Block, Datas
<1>2. b \in [capacity : Nat, length : Nat, head : Nat, data : Datas]
  BY <1>1, Zenon
<1> QED
  BY <1>1, <1>2, Zenon DEF IsRec

\* A block with a new head and a new length (io_buf.cpp:27-31).
LEMMA LengthHead ==
    ASSUME NEW b \in Block, NEW r, NEW m \in Nat, NEW g \in Nat,
           r = [b EXCEPT !.length = m, !.head = g]
    PROVE  r \in Block /\ IsRec(r, b.capacity, m, g, b.data)
<1>1. Block = [capacity : Nat, length : Nat, head : Nat, data : Datas]
  BY Zenon DEF Block, Datas
<1>2. b \in [capacity : Nat, length : Nat, head : Nat, data : Datas]
  BY <1>1, Zenon
<1> QED
  BY <1>1, <1>2, Zenon DEF IsRec

\* A block with new data and a new head (io_buf.cpp:34-45).
LEMMA HeadData ==
    ASSUME NEW b \in Block, NEW r, NEW g \in Nat, NEW x \in Datas,
           r = [b EXCEPT !.head = g, !.data = x]
    PROVE  r \in Block /\ IsRec(r, b.capacity, b.length, g, x)
<1>1. Block = [capacity : Nat, length : Nat, head : Nat, data : Datas]
  BY Zenon DEF Block, Datas
<1>2. b \in [capacity : Nat, length : Nat, head : Nat, data : Datas]
  BY <1>1, Zenon
<1> QED
  BY <1>1, <1>2, Zenon DEF IsRec

\* A block with new data, head and length.
LEMMA HeadLengthData ==
    ASSUME NEW b \in Block, NEW r, NEW m \in Nat, NEW g \in Nat, NEW x \in Datas,
           r = [b EXCEPT !.head = g, !.length = m, !.data = x]
    PROVE  r \in Block /\ IsRec(r, b.capacity, m, g, x)
<1>1. Block = [capacity : Nat, length : Nat, head : Nat, data : Datas]
  BY Zenon DEF Block, Datas
<1>2. b \in [capacity : Nat, length : Nat, head : Nat, data : Datas]
  BY <1>1, Zenon
<1> QED
  BY <1>1, <1>2, Zenon DEF IsRec

\* What a step makes of a block.
Becomes(b, c, h, g, n) == Good(b) /\ b.capacity = c /\ b.head = h /\ Holds(b, g, n)

\* Bytes are added at the end.
LEMMA Filled ==
    ASSUME NEW b, Good(b), b.head = 0, NEW k \in Nat, NEW g \in Nat, Holds(b, g, b.length),
           b.length + k <= b.capacity
    PROVE  Becomes(filled(b, [i \in 1 .. k |-> g + b.length + i]), b.capacity, 0, g, b.length + k)
<1> DEFINE bytes == [i \in 1 .. k |-> g + b.length + i]
           c == b.capacity
           n == b.length
           d == [i \in 1 .. c |-> IF i \in n + 1 .. n + k THEN bytes[i - n] ELSE b.data[i]]
           r == filled(b, bytes)
<1>1. /\ c \in Cap /\ c \in Nat /\ n \in Nat /\ b.data \in [1 .. c -> Nat] /\ DOMAIN b.data = 1 .. c
      /\ b \in Block
  BY GoodParts, Zenon
<1>2. bytes \in Seq(Nat) /\ Len(bytes) = k /\ \A i \in 1 .. k : bytes[i] = g + n + i
  BY <1>1
<1>3. \A i \in 1 .. n : b.data[i] = g + i
  BY <1>1 DEF Holds
<1> HIDE DEF bytes
<1>4. r = [b EXCEPT !.length = n + k, !.data = d]
  BY <1>1, <1>2, Zenon DEF filled
<1> HIDE DEF c, n
<1>5. d \in [1 .. c -> Nat]
  <2> SUFFICES ASSUME NEW i \in 1 .. c
               PROVE  (IF i \in n + 1 .. n + k THEN bytes[i - n] ELSE b.data[i]) \in Nat
    BY Zenon
  <2>1. CASE i \in n + 1 .. n + k
    <3>1. i - n \in 1 .. k
      BY <1>1, <2>1
    <3>2. bytes[i - n] = g + n + (i - n)
      BY <1>2, <3>1, Zenon
    <3>3. bytes[i - n] \in Nat
      BY <1>1, <3>1, <3>2
    <3> QED
      BY <2>1, <3>3, Zenon
  <2> QED
    BY <1>1, <2>1, Zenon
<1>6. \A i \in 1 .. c : d[i] = IF i \in n + 1 .. n + k THEN bytes[i - n] ELSE b.data[i]
  BY Zenon
<1> HIDE DEF d
<1>7. ASSUME NEW i \in 1 .. n + k PROVE d[i] = g + i
  <2>1. i \in 1 .. c
    BY <1>1 DEF c, n
  <2>2. CASE i \in n + 1 .. n + k
    <3>1. i - n \in 1 .. k /\ g + n + (i - n) = g + i
      BY <1>1, <2>2
    <3> QED
      BY <1>2, <1>6, <2>1, <2>2, <3>1, Zenon
  <2>3. CASE i \notin n + 1 .. n + k
    <3>1. i \in 1 .. n
      BY <1>1, <2>3
    <3> QED
      BY <1>3, <1>6, <2>1, <2>3, <3>1, Zenon DEF n
  <2> QED
    BY <2>2, <2>3, Zenon
<1> HIDE DEF r
<1>8. 0 \in Nat /\ n + k \in Nat /\ 0 + (n + k) <= c /\ \A i \in 1 .. n + k : 0 + i = i
  BY <1>1 DEF n, c
<1>9. r \in Block /\ IsRec(r, c, n + k, 0, d)
  BY <1>1, <1>4, <1>5, <1>8, DataIn, LengthData, Zenon DEF c
<1>10. Good(r)
  BY <1>1, <1>5, <1>8, <1>9, GoodRec, Zenon
<1>11. Becomes(r, c, 0, g, n + k)
  BY <1>7, <1>8, <1>9, <1>10, Zenon DEF Becomes, Holds, IsRec
<1> QED
  BY <1>11 DEF r, bytes, c, n

\* Bytes are taken from the front.
LEMMA Popped ==
    ASSUME NEW b, Good(b), NEW g \in Nat, Holds(b, g, b.length), NEW k \in 1 .. b.length
    PROVE  Becomes(io_pop(b, k), b.capacity, b.head + k, g + k, b.length - k)
<1>1. /\ b.capacity \in Cap /\ b.capacity \in Nat /\ b.length \in Nat /\ b.head \in Nat
      /\ b.data \in [1 .. b.capacity -> Nat] /\ b.head + b.length <= b.capacity
      /\ b \in Block
  BY GoodParts, Zenon
<1> DEFINE r == io_pop(b, k)
<1>2. b.length - k \in Nat /\ b.head + k \in Nat /\ (b.head + k) + (b.length - k) <= b.capacity
  BY <1>1
<1>3. r = [b EXCEPT !.length = b.length - k, !.head = b.head + k]
  BY Zenon DEF io_pop
<1> HIDE DEF r
<1>4. r \in Block /\ IsRec(r, b.capacity, b.length - k, b.head + k, b.data)
  BY <1>1, <1>2, <1>3, LengthHead, Zenon
<1>5. Good(r)
  BY <1>1, <1>2, <1>4, GoodRec, Zenon
<1>6. ASSUME NEW i \in 1 .. b.length - k PROVE b.data[(b.head + k) + i] = (g + k) + i
  <2>1. k + i \in 1 .. b.length /\ (b.head + k) + i = b.head + (k + i) /\ (g + k) + i = g + (k + i)
    BY <1>1
  <2>2. b.data[b.head + (k + i)] = g + (k + i)
    BY <2>1, Zenon DEF Holds
  <2> QED
    BY <2>1, <2>2, Zenon
<1> QED
  BY <1>4, <1>5, <1>6, Zenon DEF Becomes, Holds, IsRec, r

\* The bytes are moved to the front of a block, their own or another one.
LEMMA Adjusts ==
    ASSUME NEW b, Good(b), NEW g \in Nat, Holds(b, g, b.length)
    PROVE  Becomes(adjust(b), b.capacity, 0, g, b.length)
<1> DEFINE d == [i \in 1 .. b.capacity |-> IF i <= b.length THEN b.data[b.head + i] ELSE b.data[i]]
           r == adjust(b)
<1>1. /\ b.capacity \in Cap /\ b.capacity \in Nat /\ b.length \in Nat /\ b.head \in Nat
      /\ b.data \in [1 .. b.capacity -> Nat] /\ DOMAIN b.data = 1 .. b.capacity
      /\ b.head + b.length <= b.capacity /\ b \in Block
  BY GoodParts, Zenon
<1>2. r = [b EXCEPT !.head = 0, !.data = d]
  BY <1>1, Zenon DEF adjust
<1>3. 0 \in Nat /\ 0 + b.length <= b.capacity /\ \A i \in 1 .. b.length : 0 + i = i
  BY <1>1
<1>4. \A i \in 1 .. b.capacity : i <= b.length => b.head + i \in 1 .. b.capacity
  BY <1>1
<1>5. d \in [1 .. b.capacity -> Nat]
  BY <1>1, <1>4, Zenon
<1>6. \A i \in 1 .. b.length : i \in 1 .. b.capacity /\ i <= b.length
  BY <1>1
<1>7. \A i \in 1 .. b.length : d[i] = g + i
  BY <1>6, Zenon DEF Holds
<1> HIDE DEF r, d
<1>8. r \in Block /\ IsRec(r, b.capacity, b.length, 0, d)
  BY <1>1, <1>2, <1>3, <1>5, DataIn, HeadData, Zenon
<1>9. Good(r)
  BY <1>1, <1>3, <1>5, <1>8, GoodRec, Zenon
<1> QED
  BY <1>3, <1>7, <1>8, <1>9, Zenon DEF Becomes, Holds, IsRec, r

\* io_buf::copy gives a larger block the bytes of the old one (io_buf.cpp:48-53).
LEMMA Copied ==
    ASSUME NEW b, Good(b), NEW e, Good(e), NEW g \in Nat, Holds(e, g, e.length),
           e.length <= b.capacity
    PROVE  Becomes(copy(b, e), b.capacity, 0, g, e.length)
<1> DEFINE d == [i \in 1 .. b.capacity |-> IF i <= e.length THEN e.data[e.head + i] ELSE b.data[i]]
           r == copy(b, e)
<1>1. /\ b.capacity \in Cap /\ b.capacity \in Nat
      /\ b.data \in [1 .. b.capacity -> Nat] /\ DOMAIN b.data = 1 .. b.capacity /\ b \in Block
  BY GoodParts, Zenon
<1>2. /\ e.capacity \in Nat /\ e.length \in Nat /\ e.head \in Nat
      /\ e.data \in [1 .. e.capacity -> Nat] /\ e.head + e.length <= e.capacity
  BY GoodParts, Zenon
<1>3. r = [b EXCEPT !.head = 0, !.length = e.length, !.data = d]
  BY <1>1, Zenon DEF copy
<1>4. 0 \in Nat /\ 0 + e.length <= b.capacity /\ \A i \in 1 .. e.length : 0 + i = i
  BY <1>1, <1>2
<1>5. \A i \in 1 .. b.capacity : i <= e.length => e.head + i \in 1 .. e.capacity
  BY <1>1, <1>2
<1>6. d \in [1 .. b.capacity -> Nat]
  BY <1>1, <1>2, <1>5, Zenon
<1>7. \A i \in 1 .. e.length : i \in 1 .. b.capacity /\ i <= e.length
  BY <1>1, <1>2
<1>8. \A i \in 1 .. e.length : d[i] = g + i
  BY <1>7, Zenon DEF Holds
<1> HIDE DEF r, d
<1>9. r \in Block /\ IsRec(r, b.capacity, e.length, 0, d)
  BY <1>1, <1>2, <1>3, <1>4, <1>6, DataIn, HeadLengthData, Zenon
<1>10. Good(r)
  BY <1>1, <1>2, <1>4, <1>6, <1>9, GoodRec, Zenon
<1> QED
  BY <1>4, <1>8, <1>9, <1>10, Zenon DEF Becomes, Holds, IsRec, r

\* A block is empty when it is made, and when it is given back.
LEMMA Made == ASSUME NEW c \in Cap, NEW g PROVE Becomes(io_buf(c), c, 0, g, 0)
<1> DEFINE d == [i \in 1 .. c |-> Garbage]
           r == io_buf(c)
<1>1. c \in Nat /\ 0 \in Nat /\ 0 + 0 <= c /\ \A i \in 1 .. 0 : FALSE
  BY BufAssumption
<1>2. d \in [1 .. c -> Nat]
  BY <1>1, Zenon DEF Garbage
<1>3. d \in Datas
  BY <1>2, DataIn, Zenon
<1>4. r = [capacity |-> c, length |-> 0, head |-> 0, data |-> d]
  BY Zenon DEF io_buf
<1> HIDE DEF d, r
<1>5. Block = [capacity : Nat, length : Nat, head : Nat, data : Datas]
  BY Zenon DEF Block, Datas
<1>6. r \in Block /\ IsRec(r, c, 0, 0, d)
  BY <1>1, <1>3, <1>4, <1>5, Zenon DEF IsRec
<1>7. Good(r)
  BY <1>1, <1>2, <1>6, GoodRec, Zenon
<1> QED
  BY <1>1, <1>6, <1>7, Zenon DEF Becomes, Holds, IsRec, r

\* A block that is given back is empty (buf_pool.cpp:136-139).
LEMMA Emptied == ASSUME NEW b, Good(b), NEW g PROVE Becomes(emptied(b), b.capacity, 0, g, 0)
<1> DEFINE r == emptied(b)
<1>1. /\ b.capacity \in Cap /\ b.capacity \in Nat
      /\ b.data \in [1 .. b.capacity -> Nat] /\ b \in Block
  BY GoodParts, Zenon
<1>2. r = [b EXCEPT !.length = 0, !.head = 0]
  BY Zenon DEF emptied
<1>3. 0 \in Nat /\ 0 + 0 <= b.capacity /\ \A i \in 1 .. 0 : FALSE
  BY <1>1
<1> HIDE DEF r
<1>4. r \in Block /\ IsRec(r, b.capacity, 0, 0, b.data)
  BY <1>1, <1>2, <1>3, LengthHead, Zenon
<1>5. Good(r)
  BY <1>1, <1>3, <1>4, GoodRec, Zenon
<1> QED
  BY <1>3, <1>4, <1>5, Zenon DEF Becomes, Holds, IsRec, r

-----------------------------------------------------------------------------
(* The steps                                                               *)

\* Another block at a place of a sequence.
Replaces(t, s, id, r) ==
    /\ t \in Seq(Block) /\ Len(t) = Len(s) /\ t[id] = r
    /\ \A i \in 1 .. Len(s) : i # id => t[i] = s[i]

\* A block that is changed leaves the others as they are.
LEMMA Replaced ==
    ASSUME NEW s \in Seq(Block), NEW id \in 1 .. Len(s), NEW r \in Block
    PROVE  Replaces([s EXCEPT ![id] = r], s, id, r)
<1> DEFINE t == [s EXCEPT ![id] = r]
<1> HIDE DEF Block
<1>1. /\ t \in Seq(Block) /\ Len(t) = Len(s) /\ t[id] = r
      /\ \A i \in 1 .. Len(s) : i # id => t[i] = s[i]
  OBVIOUS
<1> HIDE DEF t
<1>2. Replaces(t, s, id, r)
  BY <1>1, Zenon DEF Replaces
<1> QED
  BY <1>2, Zenon DEF t

\* The bytes of a buffer change, in the block it has.
LEMMA Changed ==
    ASSUME Inv, NEW o \in Owner, buf[o] # NULL,
           NEW r, NEW h, NEW p \in Nat, NEW g \in Nat,
           Becomes(r, blocks[buf[o]].capacity, h, g, p - g),
           blocks' = [blocks EXCEPT ![buf[o]] = r],
           put' = [put EXCEPT ![o] = p], got' = [got EXCEPT ![o] = g],
           UNCHANGED <<pool, total_mem, buf, old>>
    PROVE  Inv'
<1> DEFINE id == buf[o]
<1>1. /\ blocks \in Seq(Block) /\ pool \in [Cap -> Seq(Nat)]
      /\ buf \in [Owner -> Nat] /\ old \in [Owner -> Nat]
      /\ put \in [Owner -> Nat] /\ got \in [Owner -> Nat]
      /\ \A i \in Ids : Good(blocks[i])
  BY Zenon DEF Inv, Types
<1>2. id \in Ids /\ (\A c \in Cap : id \notin Range(pool[c])) /\ \A q \in Owner : id = buf[q] => o = q
  BY Zenon DEF Inv, Owned
<1>3. Good(r) /\ r \in Block /\ r.capacity = blocks[id].capacity /\ Holds(r, g, p - g)
  BY Zenon DEF Becomes, Good
<1>4. /\ blocks' \in Seq(Block) /\ Len(blocks') = Len(blocks) /\ blocks'[id] = r
      /\ \A i \in 1 .. Len(blocks) : i # id => blocks'[i] = blocks[i]
  <2>1. Replaces([blocks EXCEPT ![id] = r], blocks, id, r)
    BY <1>1, <1>2, <1>3, Replaced, Zenon DEF Ids
  <2>2. Replaces(blocks', blocks, id, r)
    BY <2>1, Zenon
  <2> QED
    BY <2>2, Zenon DEF Replaces
<1>5. pool' = pool /\ buf' = buf /\ old' = old /\ total_mem' = total_mem /\ Ids' = Ids
  BY <1>4, Zenon DEF Ids
<1>6. \A i \in Ids : i # id => blocks'[i] = blocks[i]
  BY <1>4, Zenon DEF Ids
<1> HIDE DEF id
<1>7. Types'
  BY <1>1, <1>4, <1>5, Zenon DEF Types
<1>8. \A i \in Ids' : Good(blocks'[i])
  BY <1>1, <1>3, <1>4, <1>5, <1>6, Zenon
<1>9. Listed'
  BY <1>2, <1>5, <1>6, ZenonT(60) DEF Inv, Listed
<1>10. Owned' /\ Somewhere'
  BY <1>5, Zenon DEF Inv, Owned, Somewhere
<1>11. ASSUME NEW q \in Owner
       PROVE  IF buf'[q] = NULL THEN put'[q] = got'[q]
              ELSE Holds(blocks'[buf'[q]], got'[q], put'[q] - got'[q])
  <2>1. CASE q = o
    <3>1. put'[q] = p /\ got'[q] = g /\ buf'[q] = id /\ id # NULL
      BY <1>1, <1>5, <2>1, Zenon DEF id
    <3> QED
      BY <1>3, <1>4, <3>1, Zenon
  <2>2. CASE q # o
    <3>1. put'[q] = put[q] /\ got'[q] = got[q] /\ buf'[q] = buf[q] /\ buf[q] # id
      BY <1>1, <1>2, <1>5, <2>2, Zenon DEF id
    <3>2. IF buf[q] = NULL THEN put[q] = got[q]
          ELSE buf[q] \in Ids /\ Holds(blocks[buf[q]], got[q], put[q] - got[q])
      BY Zenon DEF Inv, Content, Owned
    <3> QED
      BY <1>6, <3>1, <3>2, Zenon
  <2> QED
    BY <2>1, <2>2, Zenon
<1>12. Content'
  BY <1>11, Zenon DEF Content
<1>13. SameSizes(blocks, blocks', Len(blocks))
  BY <1>3, <1>4, Zenon DEF SameSizes
<1>14. Memory(blocks') = Memory(blocks)
  BY <1>1, <1>4, <1>13, MemorySame, Zenon
<1>15. total_mem' = Memory(blocks') /\ total_mem' < MEM_LIMIT
  BY <1>5, <1>14, Zenon DEF Inv
<1> QED
  BY <1>7, <1>8, <1>9, <1>10, <1>12, <1>15, Zenon DEF Inv

\* What a buffer that has a block holds.
LEMMA Held ==
    ASSUME Inv, NEW o \in Owner, buf[o] # NULL
    PROVE  /\ buf[o] \in Ids /\ Good(blocks[buf[o]])
           /\ put[o] \in Nat /\ got[o] \in Nat /\ blocks[buf[o]].length \in Nat
           /\ blocks[buf[o]].length = put[o] - got[o]
           /\ Holds(blocks[buf[o]], got[o], blocks[buf[o]].length)
<1>1. buf[o] \in Ids
  BY Zenon DEF Inv, Owned
<1>2. Good(blocks[buf[o]]) /\ put[o] \in Nat /\ got[o] \in Nat
  BY <1>1, Zenon DEF Inv, Types
<1>3. Holds(blocks[buf[o]], got[o], put[o] - got[o])
  BY Zenon DEF Inv, Content
<1>4. blocks[buf[o]].length = put[o] - got[o]
  BY <1>3, Zenon DEF Holds
<1>5. blocks[buf[o]].length \in Nat
  BY <1>2, GoodParts, Zenon
<1> QED
  BY <1>1, <1>2, <1>3, <1>4, <1>5, Zenon

\* Bytes are put in where there is room.
LEMMA send_data_Inv ==
    ASSUME Inv, NEW o \in Owner, NEW n \in Nat, send_data(o, n) PROVE Inv'
<1> DEFINE b == blocks[buf[o]]
           r == filled(b, Bytes(o, n))
<1>1. /\ buf[o] # NULL /\ b.head = 0 /\ n <= Room(o)
      /\ blocks' = [blocks EXCEPT ![buf[o]] = r]
      /\ put' = [put EXCEPT ![o] = put[o] + n] /\ UNCHANGED <<pool, total_mem, buf, old, got>>
  BY Zenon DEF send_data, Adjusted
<1>2. /\ Good(b) /\ put[o] \in Nat /\ got[o] \in Nat /\ b.length \in Nat
      /\ b.length = put[o] - got[o] /\ Holds(b, got[o], b.length)
  BY <1>1, Held, Zenon
<1>3. b.capacity \in Nat
  BY <1>2, GoodParts, Zenon
<1>4. b.length + n <= b.capacity /\ got[o] + b.length = put[o]
      /\ b.length + n = (put[o] + n) - got[o] /\ put[o] + n \in Nat
  <2>1. n <= b.capacity - b.length
    BY <1>1, Zenon DEF Room
  <2> HIDE DEF b
  <2> QED
    BY <1>2, <1>3, <2>1
<1>5. Bytes(o, n) = [i \in 1 .. n |-> got[o] + b.length + i]
  BY <1>4, Zenon DEF Bytes
<1>6. Becomes(filled(b, [i \in 1 .. n |-> got[o] + b.length + i]), b.capacity, 0, got[o], b.length + n)
  <2> HIDE DEF b
  <2> QED
    BY <1>1, <1>2, <1>4, Filled, Zenon
<1>7. Becomes(r, b.capacity, 0, got[o], (put[o] + n) - got[o])
  BY <1>4, <1>5, <1>6, Zenon
<1>8. got' = [got EXCEPT ![o] = got[o]]
  BY <1>1, Zenon DEF Inv, Types
<1> HIDE DEF r
<1> QED
  BY <1>1, <1>2, <1>4, <1>7, <1>8, Changed, Zenon

\* Bytes are taken out, and what is left moved to the front.
LEMMA pop_Inv ==
    ASSUME Inv, NEW o \in Owner, NEW n \in Nat, pop(o, n) PROVE Inv'
<1> DEFINE b == blocks[buf[o]]
           r == io_pop(b, n)
<1>1. /\ buf[o] # NULL /\ n \in 1 .. b.length - 1
      /\ blocks' = [blocks EXCEPT ![buf[o]] = r]
      /\ got' = [got EXCEPT ![o] = got[o] + n] /\ UNCHANGED <<pool, total_mem, buf, old, put>>
  BY Zenon DEF pop
<1>2. /\ Good(b) /\ put[o] \in Nat /\ got[o] \in Nat /\ b.length \in Nat
      /\ b.length = put[o] - got[o] /\ Holds(b, got[o], b.length)
  BY <1>1, Held, Zenon
<1>3. /\ n \in 1 .. b.length /\ b.length - n = put[o] - (got[o] + n) /\ got[o] + n \in Nat
  <2> HIDE DEF b
  <2> QED
    BY <1>1, <1>2
<1>4. Becomes(r, b.capacity, b.head + n, got[o] + n, b.length - n)
  <2> HIDE DEF b
  <2> QED
    BY <1>2, <1>3, Popped, Zenon
<1>5. Becomes(r, b.capacity, b.head + n, got[o] + n, put[o] - (got[o] + n))
  BY <1>3, <1>4, Zenon
<1>6. put' = [put EXCEPT ![o] = put[o]]
  BY <1>1, Zenon DEF Inv, Types
<1> HIDE DEF r
<1> QED
  BY <1>1, <1>2, <1>3, <1>5, <1>6, Changed, Zenon

\* write2fd hands out the first bytes (reactor_buf.cpp:157-181).
LEMMA write2fd_Inv ==
    ASSUME Inv, NEW o \in Owner, NEW n \in Nat, write2fd(o, n) PROVE Inv'
<1> DEFINE b == blocks[buf[o]]
           e == io_pop(b, n)
           r == adjust(e)
<1>1. /\ buf[o] # NULL /\ n \in 1 .. b.length
      /\ blocks' = [blocks EXCEPT ![buf[o]] = r]
      /\ got' = [got EXCEPT ![o] = got[o] + n] /\ UNCHANGED <<pool, total_mem, buf, old, put>>
  BY Zenon DEF write2fd
<1>2. /\ Good(b) /\ put[o] \in Nat /\ got[o] \in Nat /\ b.length \in Nat
      /\ b.length = put[o] - got[o] /\ Holds(b, got[o], b.length)
  BY <1>1, Held, Zenon
<1>3. /\ b.length - n = put[o] - (got[o] + n) /\ got[o] + n \in Nat
  <2> HIDE DEF b
  <2> QED
    BY <1>1, <1>2
<1>4. Becomes(e, b.capacity, b.head + n, got[o] + n, b.length - n)
  <2> HIDE DEF b
  <2> QED
    BY <1>1, <1>2, Popped, Zenon
<1> HIDE DEF e
<1>5. Good(e) /\ e.capacity = b.capacity /\ e.length = b.length - n /\ Holds(e, got[o] + n, e.length)
  BY <1>4, Zenon DEF Becomes, Holds
<1>6. Becomes(r, e.capacity, 0, got[o] + n, e.length)
  BY <1>3, <1>5, Adjusts, Zenon
<1>7. Becomes(r, b.capacity, 0, got[o] + n, put[o] - (got[o] + n))
  BY <1>3, <1>5, <1>6, Zenon
<1>8. put' = [put EXCEPT ![o] = put[o]]
  BY <1>1, Zenon DEF Inv, Types
<1> HIDE DEF r
<1> QED
  BY <1>1, <1>2, <1>3, <1>7, <1>8, Changed, Zenon

\* adjust moves the bytes to the front of the block (reactor_buf.cpp:143-149).
LEMMA input_adjust_Inv ==
    ASSUME Inv, NEW o \in Owner, input_adjust(o) PROVE Inv'
<1> DEFINE b == blocks[buf[o]]
           r == adjust(b)
<1>1. /\ buf[o] # NULL /\ blocks' = [blocks EXCEPT ![buf[o]] = r]
      /\ UNCHANGED <<pool, total_mem, buf, old>>
  BY Zenon DEF input_adjust
<1>2. /\ Good(b) /\ put[o] \in Nat /\ got[o] \in Nat
      /\ b.length = put[o] - got[o] /\ Holds(b, got[o], b.length)
  BY <1>1, Held, Zenon
<1>3. Becomes(r, b.capacity, 0, got[o], b.length)
  <2> HIDE DEF b
  <2> QED
    BY <1>2, Adjusts, Zenon
<1>4. put' = [put EXCEPT ![o] = put[o]] /\ got' = [got EXCEPT ![o] = got[o]]
  BY Zenon DEF input_adjust, Inv, Types
<1> HIDE DEF r
<1>5. Becomes(r, b.capacity, 0, got[o], put[o] - got[o])
  BY <1>2, <1>3, Zenon
<1> QED
  BY <1>1, <1>2, <1>4, <1>5, Changed, Zenon

\* A block that is in no list is given back to the list of its size.
Returns(id) ==
    /\ blocks' \in Seq(Block) /\ pool' \in [Cap -> Seq(Nat)] /\ Ids' = Ids
    /\ (\A i \in Ids : i # id => blocks'[i] = blocks[i])
    /\ (\A i \in Ids : Good(blocks'[i]))
    /\ Listed'
    /\ (\A c \in Cap : \A x : x \in Range(pool'[c])
                            <=> x \in Range(pool[c]) \/ (x = id /\ c = blocks[id].capacity))
    /\ Memory(blocks') = Memory(blocks)

\* revert puts a block that is in no list into the list of its size
\* (buf_pool.cpp:132-151).
LEMMA Returned ==
    ASSUME Inv, NEW id \in Ids, \A c \in Cap : id \notin Range(pool[c]), revert(id)
    PROVE  Returns(id)
<1> DEFINE r == emptied(blocks[id])
           k == blocks[id].capacity
<1>1. /\ blocks \in Seq(Block) /\ pool \in [Cap -> Seq(Nat)] /\ Ids = 1 .. Len(blocks)
      /\ \A i \in Ids : Good(blocks[i])
  BY Zenon DEF Inv, Types, Ids
<1>2. Good(blocks[id]) /\ k \in Cap /\ id \in Nat
  <2>1. id \in Nat
    BY <1>1, SeqLen
  <2> QED
    BY <1>1, <2>1, GoodParts, Zenon
<1>3. blocks' = [blocks EXCEPT ![id] = r] /\ pool' = [pool EXCEPT ![k] = <<id>> \o pool[k]]
  BY Zenon DEF revert
<1>4. Becomes(r, k, 0, 0, 0)
  BY <1>2, Emptied, Zenon
<1> HIDE DEF r
<1>5. Good(r) /\ r \in Block /\ r.capacity = k /\ r.length = 0 /\ r.head = 0
  BY <1>4, Zenon DEF Becomes, Holds, Good
<1>6. Replaces(blocks', blocks, id, r)
  <2>1. Replaces([blocks EXCEPT ![id] = r], blocks, id, r)
    BY <1>1, <1>5, Replaced, Zenon
  <2> QED
    BY <1>3, <2>1, Zenon
<1>7. /\ blocks' \in Seq(Block) /\ Ids' = Ids /\ blocks'[id] = r
      /\ \A i \in Ids : i # id => blocks'[i] = blocks[i]
  BY <1>1, <1>6, Zenon DEF Replaces, Ids
<1>8. \A i \in Ids : Good(blocks'[i])
  BY <1>1, <1>5, <1>7, Zenon
<1>9. pool[k] \in Seq(Nat) /\ Distinct(pool[k]) /\ id \notin Range(pool[k])
  BY <1>1, <1>2, Zenon DEF Inv, Listed
<1> DEFINE q == <<id>> \o pool[k]
<1>10. q \in Seq(Nat) /\ Distinct(q) /\ \A x : x \in Range(q) <=> x = id \/ x \in Range(pool[k])
  BY <1>2, <1>9, PutFirst, Zenon
<1> HIDE DEF q, k
<1>11. /\ pool' \in [Cap -> Seq(Nat)] /\ pool'[k] = q /\ \A c \in Cap : c # k => pool'[c] = pool[c]
  BY <1>1, <1>2, <1>3, <1>10, Zenon DEF q
<1>12. \A c \in Cap : \A x : x \in Range(pool'[c]) <=> x \in Range(pool[c]) \/ (x = id /\ c = k)
  BY <1>10, <1>11, Zenon
<1>13. ASSUME NEW c \in Cap PROVE Distinct(pool'[c])
  BY <1>10, <1>11, Zenon DEF Inv, Listed
<1>14. ASSUME NEW c \in Cap, NEW x \in Range(pool'[c])
       PROVE  x \in Ids' /\ blocks'[x].capacity = c /\ blocks'[x].length = 0 /\ blocks'[x].head = 0
  <2>1. CASE x = id
    BY <1>5, <1>7, <1>12, <1>14, <2>1, Zenon
  <2>2. CASE x # id
    <3>1. x \in Ids /\ blocks[x].capacity = c /\ blocks[x].length = 0 /\ blocks[x].head = 0
      <4>1. x \in Range(pool[c])
        BY <1>12, <1>14, <2>2, Zenon
      <4> QED
        BY <4>1, Zenon DEF Inv, Listed
    <3> QED
      BY <1>7, <2>2, <3>1, Zenon
  <2> QED
    BY <2>1, <2>2, Zenon
<1>15. Listed'
  BY <1>13, <1>14, Zenon DEF Listed
<1>16. SameSizes(blocks, blocks', Len(blocks))
  BY <1>1, <1>5, <1>7, Zenon DEF SameSizes, k
<1>17. Memory(blocks') = Memory(blocks)
  BY <1>1, <1>6, <1>7, <1>16, MemorySame, Zenon DEF Replaces
<1> QED
  BY <1>7, <1>8, <1>11, <1>12, <1>15, <1>17, Zenon DEF Returns, k

\* The smaller block goes back to the pool after a growth (reactor_buf.cpp:99-104).
LEMMA send_data_revert_Inv ==
    ASSUME Inv, NEW o \in Owner, send_data_revert(o) PROVE Inv'
<1> DEFINE id == old[o]
<1>1. /\ id # NULL /\ revert(id) /\ old' = [old EXCEPT ![o] = NULL]
      /\ buf' = buf /\ total_mem' = total_mem /\ put' = put /\ got' = got
  BY Zenon DEF send_data_revert
<1>2. /\ id \in Ids /\ (\A c \in Cap : id \notin Range(pool[c]))
      /\ (\A p \in Owner : id # buf[p]) /\ \A p \in Owner : id = old[p] => o = p
  BY <1>1, Zenon DEF Inv, Owned
<1>3. Returns(id)
  BY <1>1, <1>2, Returned, Zenon
<1>4. blocks[id].capacity \in Cap
  BY <1>2, GoodParts, Zenon DEF Inv
<1>5. /\ buf \in [Owner -> Nat] /\ old \in [Owner -> Nat] /\ put \in [Owner -> Nat] /\ got \in [Owner -> Nat]
  BY Zenon DEF Inv, Types
<1>6. old' \in [Owner -> Nat] /\ old'[o] = NULL /\ \A p \in Owner : p # o => old'[p] = old[p]
  BY <1>1, <1>5, Zenon DEF NULL
<1> HIDE DEF id
<1>7. Types'
  BY <1>1, <1>3, <1>5, <1>6, Zenon DEF Types, Returns
<1>8. Owned'
  <2>1. \A c \in Cap : \A x : x # id => (x \in Range(pool'[c]) <=> x \in Range(pool[c]))
    BY <1>3, Zenon DEF Returns
  <2>2. ASSUME NEW p \in Owner, buf[p] # NULL
        PROVE  /\ buf[p] \in Ids /\ \A c \in Cap : buf[p] \notin Range(pool'[c])
               /\ \A q \in Owner : buf[p] # old'[q] /\ (buf[p] = buf[q] => p = q)
    <3>1. /\ buf[p] \in Ids /\ (\A c \in Cap : buf[p] \notin Range(pool[c]))
          /\ (\A q \in Owner : buf[p] # old[q] /\ (buf[p] = buf[q] => p = q)) /\ buf[p] # id
      BY <1>2, <2>2, Zenon DEF Inv, Owned
    <3> QED
      BY <1>6, <2>1, <2>2, <3>1, Zenon
  <2>3. ASSUME NEW p \in Owner, old'[p] # NULL
        PROVE  /\ old'[p] \in Ids /\ \A c \in Cap : old'[p] \notin Range(pool'[c])
               /\ \A q \in Owner : old'[p] # buf[q] /\ (old'[p] = old'[q] => p = q)
    <3>1. p # o /\ old'[p] = old[p] /\ old[p] # id
      BY <1>2, <1>6, <2>3, Zenon
    <3>2. /\ old[p] \in Ids /\ (\A c \in Cap : old[p] \notin Range(pool[c]))
          /\ (\A q \in Owner : old[p] # buf[q] /\ (old[p] = old[q] => p = q))
      BY <2>3, <3>1, Zenon DEF Inv, Owned
    <3> QED
      BY <1>6, <2>1, <2>3, <3>1, <3>2, Zenon
  <2>4. buf' = buf /\ Ids' = Ids
    BY <1>1, <1>3, Zenon DEF Returns
  <2> QED
    BY <2>2, <2>3, <2>4, Zenon DEF Owned
<1>9. Somewhere'
  <2>1. /\ (\A c \in Cap : \A x : x \in Range(pool[c]) => x \in Range(pool'[c]))
        /\ id \in Range(pool'[blocks[id].capacity])
    BY <1>3, <1>4, Zenon DEF Returns
  <2>2. ASSUME NEW i \in Ids
        PROVE  (\E c \in Cap : i \in Range(pool'[c])) \/ \E p \in Owner : buf[p] = i \/ old'[p] = i
    <3>1. CASE i = id
      BY <1>4, <2>1, <3>1, Zenon
    <3>2. CASE i # id
      <4>1. (\E c \in Cap : i \in Range(pool[c])) \/ \E p \in Owner : buf[p] = i \/ old[p] = i
        BY Zenon DEF Inv, Somewhere
      <4>2. \A p \in Owner : old[p] = i => old'[p] = i
        BY <1>6, <3>2, Zenon DEF id
      <4> QED
        BY <2>1, <4>1, <4>2, Zenon
    <3> QED
      BY <3>1, <3>2, Zenon
  <2> QED
    BY <1>1, <1>3, <2>2, Zenon DEF Somewhere, Returns
<1>10. Content'
  BY <1>1, <1>2, <1>3, Zenon DEF Inv, Content, Owned, Returns
<1>11. total_mem' = Memory(blocks') /\ total_mem' < MEM_LIMIT
  BY <1>1, <1>3, Zenon DEF Inv, Returns
<1> QED
  BY <1>3, <1>7, <1>8, <1>9, <1>10, <1>11, Zenon DEF Inv, Returns

\* A buffer that is read to its end gives its block back (reactor_buf.cpp:21-43).
LEMMA pop_all_Inv ==
    ASSUME Inv, NEW o \in Owner, pop_all(o) PROVE Inv'
<1> DEFINE id == buf[o]
<1>1. /\ id # NULL /\ revert(id) /\ buf' = [buf EXCEPT ![o] = NULL]
      /\ old' = old /\ total_mem' = total_mem /\ put' = put
      /\ got' = [got EXCEPT ![o] = got[o] + blocks[id].length]
  BY Zenon DEF pop_all
<1>2. /\ id \in Ids /\ (\A c \in Cap : id \notin Range(pool[c]))
      /\ (\A p \in Owner : id # old[p]) /\ \A p \in Owner : id = buf[p] => o = p
  BY <1>1, Zenon DEF Inv, Owned
<1>3. Returns(id)
  BY <1>1, <1>2, Returned, Zenon
<1>4. blocks[id].capacity \in Cap
  BY <1>2, GoodParts, Zenon DEF Inv
<1>5. /\ old \in [Owner -> Nat] /\ buf \in [Owner -> Nat] /\ put \in [Owner -> Nat] /\ got \in [Owner -> Nat]
  BY Zenon DEF Inv, Types
<1>6. buf' \in [Owner -> Nat] /\ buf'[o] = NULL /\ \A p \in Owner : p # o => buf'[p] = buf[p]
  BY <1>1, <1>5, Zenon DEF NULL
<1>g. got'[o] = put[o] /\ got' \in [Owner -> Nat] /\ \A p \in Owner : p # o => got'[p] = got[p]
  <2>1. got[o] + blocks[id].length = put[o]
    <3>1. put[o] \in Nat /\ got[o] \in Nat /\ blocks[id].length = put[o] - got[o]
      BY <1>1, Held, Zenon
    <3> QED
      BY <3>1
  <2>2. got' = [got EXCEPT ![o] = put[o]]
    BY <1>1, <2>1, Zenon
  <2> QED
    BY <1>5, <2>2, Zenon
<1> HIDE DEF id
<1>7. Types'
  BY <1>1, <1>3, <1>5, <1>6, <1>g, Zenon DEF Types, Returns
<1>8. Owned'
  <2>1. \A c \in Cap : \A x : x # id => (x \in Range(pool'[c]) <=> x \in Range(pool[c]))
    BY <1>3, Zenon DEF Returns
  <2>2. ASSUME NEW p \in Owner, old[p] # NULL
        PROVE  /\ old[p] \in Ids /\ \A c \in Cap : old[p] \notin Range(pool'[c])
               /\ \A q \in Owner : old[p] # buf'[q] /\ (old[p] = old[q] => p = q)
    <3>1. /\ old[p] \in Ids /\ (\A c \in Cap : old[p] \notin Range(pool[c]))
          /\ (\A q \in Owner : old[p] # buf[q] /\ (old[p] = old[q] => p = q)) /\ old[p] # id
      BY <1>2, <2>2, Zenon DEF Inv, Owned
    <3> QED
      BY <1>6, <2>1, <2>2, <3>1, Zenon
  <2>3. ASSUME NEW p \in Owner, buf'[p] # NULL
        PROVE  /\ buf'[p] \in Ids /\ \A c \in Cap : buf'[p] \notin Range(pool'[c])
               /\ \A q \in Owner : buf'[p] # old[q] /\ (buf'[p] = buf'[q] => p = q)
    <3>1. p # o /\ buf'[p] = buf[p] /\ buf[p] # id
      BY <1>2, <1>6, <2>3, Zenon
    <3>2. /\ buf[p] \in Ids /\ (\A c \in Cap : buf[p] \notin Range(pool[c]))
          /\ (\A q \in Owner : buf[p] # old[q] /\ (buf[p] = buf[q] => p = q))
      BY <2>3, <3>1, Zenon DEF Inv, Owned
    <3> QED
      BY <1>6, <2>1, <2>3, <3>1, <3>2, Zenon
  <2>4. old' = old /\ Ids' = Ids
    BY <1>1, <1>3, Zenon DEF Returns
  <2> QED
    BY <2>2, <2>3, <2>4, Zenon DEF Owned
<1>9. Somewhere'
  <2>1. /\ (\A c \in Cap : \A x : x \in Range(pool[c]) => x \in Range(pool'[c]))
        /\ id \in Range(pool'[blocks[id].capacity])
    BY <1>3, <1>4, Zenon DEF Returns
  <2>2. ASSUME NEW i \in Ids
        PROVE  (\E c \in Cap : i \in Range(pool'[c])) \/ \E p \in Owner : old[p] = i \/ buf'[p] = i
    <3>1. CASE i = id
      BY <1>4, <2>1, <3>1, Zenon
    <3>2. CASE i # id
      <4>1. (\E c \in Cap : i \in Range(pool[c])) \/ \E p \in Owner : old[p] = i \/ buf[p] = i
        BY Zenon DEF Inv, Somewhere
      <4>2. \A p \in Owner : buf[p] = i => buf'[p] = i
        BY <1>6, <3>2, Zenon DEF id
      <4> QED
        BY <2>1, <4>1, <4>2, Zenon
    <3> QED
      BY <3>1, <3>2, Zenon
  <2> QED
    BY <1>1, <1>3, <2>2, Zenon DEF Somewhere, Returns
<1>10. Content'
  <2>1. ASSUME NEW p \in Owner
        PROVE  IF buf'[p] = NULL THEN put[p] = got'[p]
               ELSE Holds(blocks'[buf'[p]], got'[p], put[p] - got'[p])
    <3>1. CASE p = o
      BY <1>6, <1>g, <3>1, Zenon
    <3>2. CASE p # o
      <4>1. buf'[p] = buf[p] /\ got'[p] = got[p] /\ buf[p] # id
        BY <1>2, <1>6, <1>g, <3>2, Zenon
      <4>2. IF buf[p] = NULL THEN put[p] = got[p]
            ELSE buf[p] \in Ids /\ Holds(blocks[buf[p]], got[p], put[p] - got[p])
        BY Zenon DEF Inv, Content, Owned
      <4>3. \A i \in Ids : i # id => blocks'[i] = blocks[i]
        BY <1>3, Zenon DEF Returns
      <4> QED
        BY <4>1, <4>2, <4>3, Zenon
    <3> QED
      BY <3>1, <3>2, Zenon
  <2> QED
    BY <1>1, <2>1, Zenon DEF Content
<1>11. total_mem' = Memory(blocks') /\ total_mem' < MEM_LIMIT
  BY <1>1, <1>3, Zenon DEF Inv, Returns
<1> QED
  BY <1>3, <1>7, <1>8, <1>9, <1>10, <1>11, Zenon DEF Inv, Returns

\* The size alloc_buf takes fits.
LEMMA IndexFits == ASSUME NEW n, Fits(n) # {} PROVE Index(n) \in Cap /\ n <= Index(n)
<1>1. Fits(n) \subseteq Nat
  BY BufAssumption, Zenon DEF Fits
<1>2. \E x \in Fits(n) : \A y \in Fits(n) : x <= y
  BY <1>1, Least, Zenon
<1>3. Index(n) \in Fits(n)
  BY <1>2, Zenon DEF Index, Min
<1> QED
  BY <1>3, Zenon DEF Fits

\* alloc_buf lends an empty block of the size that nobody has.
Lends(a, c) ==
    /\ a.blocks \in Seq(Block) /\ a.pool \in [Cap -> Seq(Nat)]
    /\ a.id \in 1 .. Len(a.blocks) /\ a.id # NULL
    /\ (\A i \in 1 .. Len(a.blocks) : i # a.id => i \in Ids)
    /\ (\A i \in Ids : i \in 1 .. Len(a.blocks) /\ a.blocks[i] = blocks[i])
    /\ Becomes(a.blocks[a.id], c, 0, 0, 0)
    /\ (\A o \in Owner : buf[o] # a.id /\ old[o] # a.id)
    /\ (\A d \in Cap : Distinct(a.pool[d]) /\ a.id \notin Range(a.pool[d]))
    /\ (\A d \in Cap : \A x : x # a.id => (x \in Range(a.pool[d]) <=> x \in Range(pool[d])))
    /\ a.mem = Memory(a.blocks) /\ a.mem < MEM_LIMIT

\* alloc_buf makes a block below the limit (buf_pool.cpp:106-116).
LEMMA LendsNew ==
    ASSUME Inv, NEW c \in Cap, pool[c] = <<>>, ~TooMuch(c) PROVE Lends(alloc_new(c), c)
<1> DEFINE id == Len(blocks) + 1
           bs == Append(blocks, io_buf(c))
           a == alloc_new(c)
<1>1. /\ blocks \in Seq(Block) /\ pool \in [Cap -> Seq(Nat)] /\ buf \in [Owner -> Nat] /\ old \in [Owner -> Nat]
      /\ Ids = 1 .. Len(blocks) /\ total_mem = Memory(blocks)
  BY Zenon DEF Inv, Types, Ids
<1>2. a.id = id /\ a.blocks = bs /\ a.pool = pool /\ a.mem = total_mem + c
  BY Zenon DEF alloc_new
<1>3. Becomes(io_buf(c), c, 0, 0, 0)
  BY Made, Zenon
<1>4. io_buf(c) \in Block /\ io_buf(c).capacity = c
  BY <1>3, Zenon DEF Becomes, Good
<1>5. /\ bs \in Seq(Block) /\ Len(bs) = id /\ bs[id] = io_buf(c) /\ Len(blocks) \in Nat
      /\ \A i \in 1 .. Len(blocks) : bs[i] = blocks[i]
  BY <1>1, <1>4, SeqLen, SeqAppend
<1>6. Memory(blocks) \in Nat /\ Memory(bs) = Memory(blocks) + c
  BY <1>1, <1>4, MemoryAppend, Zenon
<1>7. total_mem + c < MEM_LIMIT
  <2>1. ~(total_mem + c >= MEM_LIMIT)
    BY Zenon DEF TooMuch
  <2> QED
    BY <1>1, <1>6, <2>1, BufAssumption
<1> HIDE DEF a, bs
<1>8. /\ id \in 1 .. Len(bs) /\ id # NULL /\ id \notin Ids
      /\ (\A i \in 1 .. Len(bs) : i # id => i \in Ids) /\ (\A i \in Ids : i \in 1 .. Len(bs))
  BY <1>1, <1>5 DEF NULL
<1> HIDE DEF id
<1>9. \A o \in Owner : buf[o] # id /\ old[o] # id
  BY <1>8, Zenon DEF Inv, Owned
<1>10. \A d \in Cap : Distinct(pool[d]) /\ id \notin Range(pool[d])
  BY <1>8, Zenon DEF Inv, Listed
<1>11. Lends(a, c)
  BY <1>1, <1>2, <1>3, <1>5, <1>6, <1>7, <1>8, <1>9, <1>10, Zenon DEF Lends
<1> QED
  BY <1>11, Zenon DEF a

\* alloc_buf takes the first block of a list (buf_pool.cpp:118-124).
LEMMA LendsFree ==
    ASSUME Inv, NEW c \in Cap, pool[c] # <<>> PROVE Lends(alloc_free(c), c)
<1> DEFINE id == Head(pool[c])
           q == [pool EXCEPT ![c] = Tail(pool[c])]
           a == alloc_free(c)
<1>1. /\ blocks \in Seq(Block) /\ pool \in [Cap -> Seq(Nat)] /\ Ids = 1 .. Len(blocks)
      /\ total_mem = Memory(blocks) /\ total_mem < MEM_LIMIT
  BY Zenon DEF Inv, Types, Ids
<1>2. a.id = id /\ a.blocks = blocks /\ a.pool = q /\ a.mem = total_mem
  BY Zenon DEF alloc_free
<1>3. pool[c] \in Seq(Nat) /\ Distinct(pool[c])
  BY <1>1, Zenon DEF Inv, Listed
<1>4. /\ Tail(pool[c]) \in Seq(Nat) /\ Distinct(Tail(pool[c]))
      /\ id \in Range(pool[c]) /\ id \notin Range(Tail(pool[c]))
      /\ \A x : x \in Range(pool[c]) <=> x = id \/ x \in Range(Tail(pool[c]))
  BY <1>3, TakeFirst, Zenon
<1>5. q \in [Cap -> Seq(Nat)] /\ q[c] = Tail(pool[c]) /\ \A d \in Cap : d # c => q[d] = pool[d]
  BY <1>1, <1>4, Zenon
<1> HIDE DEF id, q, a
<1>6. id \in Ids /\ blocks[id].capacity = c /\ blocks[id].length = 0 /\ blocks[id].head = 0
  BY <1>4, Zenon DEF Inv, Listed
<1>7. id # NULL
  BY <1>1, <1>6, SeqLen DEF NULL
<1>8. Becomes(blocks[id], c, 0, 0, 0)
  <2>1. Good(blocks[id]) /\ \A i \in 1 .. 0 : FALSE
    BY <1>6 DEF Inv
  <2> QED
    BY <1>6, <2>1, Zenon DEF Becomes, Holds
<1>9. \A o \in Owner : buf[o] # id /\ old[o] # id
  BY <1>4, <1>7, Zenon DEF Inv, Owned
<1>10. ASSUME NEW d \in Cap PROVE Distinct(q[d]) /\ id \notin Range(q[d])
  <2>1. CASE d = c
    BY <1>4, <1>5, <2>1, Zenon
  <2>2. CASE d # c
    <3>1. Distinct(pool[d]) /\ \A x \in Range(pool[d]) : blocks[x].capacity = d
      BY Zenon DEF Inv, Listed
    <3> QED
      BY <1>5, <1>6, <2>2, <3>1, Zenon
  <2> QED
    BY <2>1, <2>2, Zenon
<1>11. \A d \in Cap : \A x : x # id => (x \in Range(q[d]) <=> x \in Range(pool[d]))
  BY <1>4, <1>5, Zenon
<1>12. Lends(a, c)
  BY <1>1, <1>2, <1>5, <1>6, <1>7, <1>8, <1>9, <1>10, <1>11, Zenon DEF Lends
<1> QED
  BY <1>12, Zenon DEF a

\* A buffer moves to a block that was lent, with one more piece of bytes.
LEMMA Moved ==
    ASSUME Inv, NEW o \in Owner, old[o] = NULL, NEW a, NEW c, Lends(a, c),
           NEW r, NEW p \in Nat, Becomes(r, c, 0, got[o], p - got[o]),
           blocks' = [a.blocks EXCEPT ![a.id] = r], pool' = a.pool, total_mem' = a.mem,
           buf' = [buf EXCEPT ![o] = a.id], old' = [old EXCEPT ![o] = buf[o]],
           put' = [put EXCEPT ![o] = p], got' = got
    PROVE  Inv'
<1> DEFINE id == a.id
           bs == a.blocks
<1>1. /\ blocks \in Seq(Block) /\ pool \in [Cap -> Seq(Nat)] /\ Ids = 1 .. Len(blocks)
      /\ buf \in [Owner -> Nat] /\ old \in [Owner -> Nat]
      /\ put \in [Owner -> Nat] /\ got \in [Owner -> Nat]
      /\ \A i \in Ids : Good(blocks[i])
  BY Zenon DEF Inv, Types, Ids
<1>2. /\ bs \in Seq(Block) /\ pool' \in [Cap -> Seq(Nat)] /\ id \in 1 .. Len(bs) /\ id # NULL
      /\ (\A i \in 1 .. Len(bs) : i # id => i \in Ids)
      /\ (\A i \in Ids : i \in 1 .. Len(bs) /\ bs[i] = blocks[i])
      /\ Becomes(bs[id], c, 0, 0, 0)
      /\ (\A q \in Owner : buf[q] # id /\ old[q] # id)
  BY Zenon DEF Lends
<1>3. /\ (\A d \in Cap : Distinct(pool'[d]) /\ id \notin Range(pool'[d]))
      /\ (\A d \in Cap : \A x : x # id => (x \in Range(pool'[d]) <=> x \in Range(pool[d])))
  BY Zenon DEF Lends
<1>4. total_mem' = Memory(bs) /\ total_mem' < MEM_LIMIT
  BY Zenon DEF Lends
<1>5. Good(r) /\ r \in Block /\ r.capacity = c /\ Holds(r, got[o], p - got[o])
  BY Zenon DEF Becomes, Good
<1>6. bs[id].capacity = c
  BY <1>2, Zenon DEF Becomes
<1>7. Replaces(blocks', bs, id, r)
  <2>1. Replaces([bs EXCEPT ![id] = r], bs, id, r)
    BY <1>2, <1>5, Replaced, Zenon
  <2> QED
    BY <2>1, Zenon
<1> HIDE DEF id, bs
<1>8. /\ blocks' \in Seq(Block) /\ Len(blocks') = Len(bs) /\ Ids' = 1 .. Len(bs) /\ blocks'[id] = r
      /\ \A i \in 1 .. Len(bs) : i # id => blocks'[i] = bs[i]
  BY <1>7, Zenon DEF Replaces, Ids
<1>9. \A i \in Ids : i \in Ids' /\ (i # id => blocks'[i] = blocks[i])
  BY <1>2, <1>8, Zenon
<1>10. /\ buf' \in [Owner -> Nat] /\ buf'[o] = id /\ \A q \in Owner : q # o => buf'[q] = buf[q]
  <2>1. id \in Nat
    BY <1>2, SeqLen
  <2> QED
    BY <1>1, <2>1, Zenon DEF id
<1>11. /\ old' \in [Owner -> Nat] /\ old'[o] = buf[o] /\ \A q \in Owner : q # o => old'[q] = old[q]
  BY <1>1, Zenon
<1>12. /\ put' \in [Owner -> Nat] /\ put'[o] = p /\ \A q \in Owner : q # o => put'[q] = put[q]
  BY <1>1, Zenon
<1>13. Types'
  BY <1>1, <1>2, <1>8, <1>10, <1>11, <1>12, Zenon DEF Types
<1>14. \A i \in Ids' : Good(blocks'[i])
  BY <1>1, <1>2, <1>5, <1>8, <1>9, Zenon
<1>15. Listed'
  <2>1. ASSUME NEW d \in Cap, NEW x \in Range(pool'[d])
        PROVE  x \in Ids' /\ blocks'[x].capacity = d /\ blocks'[x].length = 0 /\ blocks'[x].head = 0
    <3>1. x # id /\ x \in Range(pool[d])
      BY <1>3, <2>1, Zenon
    <3>2. x \in Ids /\ blocks[x].capacity = d /\ blocks[x].length = 0 /\ blocks[x].head = 0
      BY <3>1, Zenon DEF Inv, Listed
    <3> QED
      BY <1>9, <3>1, <3>2, Zenon
  <2> QED
    BY <1>3, <2>1, Zenon DEF Listed
<1>16. ASSUME NEW q \in Owner, buf[q] # NULL
       PROVE  /\ buf[q] \in Ids' /\ buf[q] # id /\ (\A d \in Cap : buf[q] \notin Range(pool'[d]))
              /\ \A u \in Owner : buf[q] # old[u] /\ (buf[q] = buf[u] => q = u)
  <2>1. /\ buf[q] \in Ids /\ (\A d \in Cap : buf[q] \notin Range(pool[d]))
        /\ \A u \in Owner : buf[q] # old[u] /\ (buf[q] = buf[u] => q = u)
    BY <1>16, Zenon DEF Inv, Owned
  <2> QED
    BY <1>2, <1>3, <1>9, <2>1, Zenon
<1>17. ASSUME NEW q \in Owner, old[q] # NULL
       PROVE  /\ old[q] \in Ids' /\ old[q] # id /\ (\A d \in Cap : old[q] \notin Range(pool'[d]))
              /\ \A u \in Owner : old[q] # buf[u] /\ (old[q] = old[u] => q = u)
  <2>1. /\ old[q] \in Ids /\ (\A d \in Cap : old[q] \notin Range(pool[d]))
        /\ \A u \in Owner : old[q] # buf[u] /\ (old[q] = old[u] => q = u)
    BY <1>17, Zenon DEF Inv, Owned
  <2> QED
    BY <1>2, <1>3, <1>9, <2>1, Zenon
<1>18. ASSUME NEW q \in Owner, buf'[q] # NULL
       PROVE  /\ buf'[q] \in Ids' /\ (\A d \in Cap : buf'[q] \notin Range(pool'[d]))
              /\ \A u \in Owner : buf'[q] # old'[u] /\ (buf'[q] = buf'[u] => q = u)
  <2>1. CASE q = o
    <3>1. \A u \in Owner : id # old'[u] /\ (u # o => id # buf'[u])
      BY <1>2, <1>10, <1>11, Zenon
    <3> QED
      BY <1>2, <1>3, <1>8, <1>10, <2>1, <3>1, Zenon
  <2>2. CASE q # o
    <3>1. buf'[q] = buf[q] /\ buf[q] # NULL
      BY <1>10, <1>18, <2>2, Zenon
    <3>2. \A u \in Owner : buf[q] # old'[u] /\ (buf[q] = buf'[u] => q = u)
      BY <1>10, <1>11, <1>16, <2>2, <3>1, Zenon
    <3> QED
      BY <1>16, <3>1, <3>2, Zenon
  <2> QED
    BY <2>1, <2>2, Zenon
<1>19. ASSUME NEW q \in Owner, old'[q] # NULL
       PROVE  /\ old'[q] \in Ids' /\ (\A d \in Cap : old'[q] \notin Range(pool'[d]))
              /\ \A u \in Owner : old'[q] # buf'[u] /\ (old'[q] = old'[u] => q = u)
  <2>1. CASE q = o
    <3>1. old'[q] = buf[o] /\ buf[o] # NULL
      BY <1>11, <1>19, <2>1, Zenon
    <3>2. \A u \in Owner : buf[o] # buf'[u] /\ (buf[o] = old'[u] => o = u)
      BY <1>10, <1>11, <1>16, <3>1, Zenon
    <3> QED
      BY <1>16, <2>1, <3>1, <3>2, Zenon
  <2>2. CASE q # o
    <3>1. old'[q] = old[q] /\ old[q] # NULL
      BY <1>11, <1>19, <2>2, Zenon
    <3>2. \A u \in Owner : old[q] # buf'[u] /\ (old[q] = old'[u] => q = u)
      BY <1>10, <1>11, <1>17, <2>2, <3>1, Zenon
    <3> QED
      BY <1>17, <3>1, <3>2, Zenon
  <2> QED
    BY <2>1, <2>2, Zenon
<1>20. Owned'
  BY <1>18, <1>19, Zenon DEF Owned
<1>21. ASSUME NEW i \in Ids'
       PROVE  (\E d \in Cap : i \in Range(pool'[d])) \/ \E q \in Owner : buf'[q] = i \/ old'[q] = i
  <2>1. CASE i = id
    BY <1>10, <2>1, Zenon
  <2>2. CASE i # id
    <3>1. i \in Ids
      BY <1>2, <1>8, <2>2, Zenon
    <3>2. i # NULL
      BY <1>1, <3>1, SeqLen DEF NULL
    <3>3. (\E d \in Cap : i \in Range(pool[d])) \/ \E q \in Owner : buf[q] = i \/ old[q] = i
      BY <3>1, Zenon DEF Inv, Somewhere
    <3>4. CASE \E d \in Cap : i \in Range(pool[d])
      BY <1>3, <2>2, <3>4, Zenon
    <3>5. CASE \E q \in Owner : buf[q] = i
      BY <1>10, <1>11, <3>5, Zenon
    <3>6. CASE \E q \in Owner : old[q] = i
      BY <1>11, <3>2, <3>6, Zenon
    <3> QED
      BY <3>3, <3>4, <3>5, <3>6, Zenon
  <2> QED
    BY <2>1, <2>2, Zenon
<1>22. Somewhere'
  BY <1>21, Zenon DEF Somewhere
<1>23. ASSUME NEW q \in Owner
       PROVE  IF buf'[q] = NULL THEN put'[q] = got'[q]
              ELSE Holds(blocks'[buf'[q]], got'[q], put'[q] - got'[q])
  <2>1. CASE q = o
    <3>1. buf'[q] = id /\ id # NULL /\ blocks'[id] = r /\ put'[q] = p /\ got'[q] = got[o]
      BY <1>2, <1>8, <1>10, <1>12, <2>1, Zenon
    <3> QED
      BY <1>5, <3>1, Zenon
  <2>2. CASE q # o
    <3>1. put'[q] = put[q] /\ got'[q] = got[q] /\ buf'[q] = buf[q] /\ buf[q] # id
      BY <1>2, <1>10, <1>12, <2>2, Zenon
    <3>2. IF buf[q] = NULL THEN put[q] = got[q]
          ELSE buf[q] \in Ids /\ Holds(blocks[buf[q]], got[q], put[q] - got[q])
      BY Zenon DEF Inv, Content, Owned
    <3> QED
      BY <1>9, <3>1, <3>2, Zenon
  <2> QED
    BY <2>1, <2>2, Zenon
<1>24. Content'
  BY <1>23, Zenon DEF Content
<1>25. SameSizes(bs, blocks', Len(bs))
  BY <1>5, <1>6, <1>8, Zenon DEF SameSizes
<1>26. Memory(blocks') = Memory(bs)
  BY <1>2, <1>8, <1>25, MemorySame, Zenon
<1> QED
  BY <1>4, <1>13, <1>14, <1>15, <1>20, <1>22, <1>24, <1>26, Zenon DEF Inv

\* A buffer that is too small is replaced by a larger one (reactor_buf.cpp:59-134).
LEMMA send_data_alloc_Inv ==
    ASSUME Inv, NEW o \in Owner, NEW n \in Nat, send_data_alloc(o, n) PROVE Inv'
<1> DEFINE c == Index(Needed(o, n))
           a == alloc_buf(c)
           b == blocks[buf[o]]
           new == IF buf[o] = NULL THEN a.blocks[a.id] ELSE copy(a.blocks[a.id], b)
           r == filled(new, Bytes(o, n))
<1>1. /\ old[o] = NULL /\ Fits(Needed(o, n)) # {} /\ ~TooMuch(c)
      /\ blocks' = [a.blocks EXCEPT ![a.id] = r] /\ pool' = a.pool /\ total_mem' = a.mem
      /\ buf' = [buf EXCEPT ![o] = a.id] /\ old' = [old EXCEPT ![o] = buf[o]]
      /\ put' = [put EXCEPT ![o] = put[o] + n] /\ got' = got
  BY Zenon DEF send_data_alloc, Busy
<1>2. c \in Cap /\ c \in Nat /\ Needed(o, n) <= c
  BY <1>1, IndexFits, BufAssumption, Zenon
<1> HIDE DEF c
<1>3. Lends(a, c)
  <2>1. CASE pool[c] = <<>>
    BY <1>1, <1>2, <2>1, LendsNew, Zenon DEF alloc_buf
  <2>2. CASE pool[c] # <<>>
    BY <1>2, <2>2, LendsFree, Zenon DEF alloc_buf
  <2> QED
    BY <2>1, <2>2, Zenon
<1> HIDE DEF a
<1>4. put[o] \in Nat /\ got[o] \in Nat
  BY Zenon DEF Inv, Types
<1> DEFINE e == a.blocks[a.id]
<1>5. Good(e) /\ e.capacity = c /\ e.head = 0 /\ e.length = 0
  BY <1>3, Zenon DEF Lends, Becomes, Holds
<1>6. /\ Becomes(new, c, 0, got[o], put[o] - got[o]) /\ put[o] - got[o] \in Nat
      /\ (put[o] - got[o]) + n <= c
  <2>1. CASE buf[o] = NULL
    <3>1. new = e /\ Needed(o, n) = n /\ put[o] = got[o]
      BY <2>1, Zenon DEF Needed, Inv, Content
    <3>2. /\ put[o] - got[o] = 0 /\ (put[o] - got[o]) + n <= c /\ put[o] - got[o] \in Nat
          /\ \A i \in 1 .. 0 : FALSE
      BY <1>2, <1>4, <3>1
    <3> QED
      BY <1>5, <3>1, <3>2, Zenon DEF Becomes, Holds
  <2>2. CASE buf[o] # NULL
    <3>1. /\ Good(b) /\ b.length \in Nat /\ b.length = put[o] - got[o] /\ Holds(b, got[o], b.length)
      BY <2>2, Held, Zenon
    <3>2. new = copy(e, b) /\ Needed(o, n) = n + b.length
      BY <2>2, Zenon DEF Needed
    <3> HIDE DEF b, e
    <3>3. b.length <= c /\ b.length + n <= c
      BY <1>2, <3>1, <3>2
    <3>4. Becomes(copy(e, b), e.capacity, 0, got[o], b.length)
      BY <1>4, <1>5, <3>1, <3>3, Copied, Zenon
    <3> QED
      BY <1>5, <3>1, <3>2, <3>3, <3>4, Zenon
  <2> QED
    BY <2>1, <2>2, Zenon
<1> HIDE DEF new, e
<1>7. /\ Good(new) /\ new.capacity = c /\ new.head = 0 /\ new.length = put[o] - got[o]
      /\ Holds(new, got[o], new.length)
  BY <1>6, Zenon DEF Becomes, Holds
<1>8. /\ new.length + n <= new.capacity /\ got[o] + new.length = put[o]
      /\ new.length + n = (put[o] + n) - got[o] /\ put[o] + n \in Nat
  BY <1>4, <1>6, <1>7
<1>9. Bytes(o, n) = [i \in 1 .. n |-> got[o] + new.length + i]
  BY <1>8, Zenon DEF Bytes
<1>10. Becomes(filled(new, [i \in 1 .. n |-> got[o] + new.length + i]),
               new.capacity, 0, got[o], new.length + n)
  BY <1>4, <1>7, <1>8, Filled, Zenon
<1>11. Becomes(r, c, 0, got[o], (put[o] + n) - got[o])
  BY <1>7, <1>8, <1>9, <1>10, Zenon
<1> HIDE DEF r
<1> QED
  BY <1>1, <1>3, <1>8, <1>11, Moved, Zenon

-----------------------------------------------------------------------------

\* Every operation of a buffer keeps the invariant.
LEMMA NextInv == Inv /\ [Next]_vars => Inv'
<1> SUFFICES ASSUME Inv, [Next]_vars PROVE Inv'
  BY Zenon
<1>1. \A n \in 0 .. MaxChunk : n \in Nat
  BY BufAssumption
<1>2. \A n \in 1 .. MaxBytes : n \in Nat
  BY BufAssumption
<1>3. ASSUME UNCHANGED <<blocks, pool, total_mem, buf, old, put, got>> PROVE Inv'
  BY <1>3, Zenon DEF Inv, Types, Ids, Listed, Owned, Somewhere, Content
<1>4. CASE UNCHANGED vars
  BY <1>3, <1>4, Zenon DEF vars
<1>5. ASSUME NEW o \in Owner, NEW n \in 0 .. MaxChunk,
             send_data(o, n) \/ send_data_alloc(o, n) \/ send_data_exit(o, n)
      PROVE  Inv'
  <2>1. CASE send_data(o, n)
    BY <1>1, <2>1, send_data_Inv, Zenon
  <2>2. CASE send_data_alloc(o, n)
    BY <1>1, <2>2, send_data_alloc_Inv, Zenon
  <2>3. CASE send_data_exit(o, n)
    BY <1>3, <2>3, Zenon DEF send_data_exit
  <2> QED
    BY <1>5, <2>1, <2>2, <2>3, Zenon
<1>6. ASSUME NEW o \in Owner, send_data_revert(o) \/ pop_all(o) \/ input_adjust(o) PROVE Inv'
  BY <1>6, send_data_revert_Inv, pop_all_Inv, input_adjust_Inv, Zenon
<1>7. ASSUME NEW o \in Owner, NEW n \in 1 .. MaxBytes, write2fd(o, n) \/ pop(o, n) PROVE Inv'
  BY <1>2, <1>7, write2fd_Inv, pop_Inv, Zenon
<1> QED
  BY <1>4, <1>5, <1>6, <1>7, Zenon DEF Next

\* make_io_buf_list makes empty blocks and a list of each size.
LEMMA OrderOf ==
    ASSUME NEW N \in Nat, NEW S \in SUBSET (1 .. N), NEW s \in Orders(S)
    PROVE  s \in Seq(Nat) /\ Distinct(s) /\ \A x : x \in Range(s) <=> x \in S
<1> DEFINE k == Cardinality(S)
<1>1. k \in Nat
  <2>1. IsFiniteSet(1 .. N)
    BY FS_Interval
  <2>2. IsFiniteSet(S)
    BY <2>1, FS_Subset, Zenon
  <2> QED
    BY <2>2, FS_CardinalityType, Zenon
<1>2. /\ s \in [1 .. k -> S] /\ (\A t \in S : \E i \in 1 .. k : s[i] = t) /\ IsInjective(s)
  BY Zenon DEF Orders, Bijection, Injection, Surjection
<1> HIDE DEF k
<1>3. S \subseteq Nat /\ DOMAIN s = 1 .. k
  BY <1>2
<1>4. s \in Seq(Nat) /\ Len(s) = k
  <2>1. s \in [1 .. k -> Nat]
    BY <1>2, <1>3, Zenon
  <2> QED
    BY <1>1, <2>1
<1>5. \A i, j \in 1 .. k : s[i] = s[j] => i = j
  BY <1>2, <1>3, Zenon DEF IsInjective
<1>6. Distinct(s)
  BY <1>4, <1>5, Zenon DEF Distinct
<1>7. \A x : x \in Range(s) <=> x \in S
  BY <1>2, <1>3, Zenon DEF Range
<1> QED
  BY <1>4, <1>6, <1>7, Zenon

\* The pool as buf_pool::buf_pool fills it (buf_pool.cpp:14-55).
LEMMA InitInv == Init => Inv
<1> SUFFICES ASSUME Init PROVE Inv
  BY Zenon
<1> DEFINE N == Len(InitialSizes)
<1>1. N \in Nat /\ \A i \in 1 .. N : InitialSizes[i] \in Cap
  BY BufAssumption, SeqLen, SeqAt
<1> HIDE DEF N
<1>2. /\ blocks = [i \in 1 .. N |-> io_buf(InitialSizes[i])] /\ pool \in Lists
      /\ total_mem = Memory(blocks) /\ Memory(InitialBlocks) < MEM_LIMIT /\ blocks = InitialBlocks
  BY LimitAssumption, Zenon DEF Init, InitialBlocks, N
<1>3. /\ buf = [o \in Owner |-> NULL] /\ old = [o \in Owner |-> NULL]
      /\ put = [o \in Owner |-> 0] /\ got = [o \in Owner |-> 0] /\ NULL = 0 /\ 0 \in Nat
  BY Zenon DEF Init, NULL
<1>4. \A o \in Owner : buf[o] = NULL /\ old[o] = NULL /\ put[o] = got[o]
  BY <1>3, Zenon
<1>5. \A i \in 1 .. N : blocks[i] = io_buf(InitialSizes[i]) /\ Becomes(blocks[i], InitialSizes[i], 0, 0, 0)
  BY <1>1, <1>2, Made, Zenon
<1>6. \A i \in 1 .. N : /\ blocks[i] \in Block /\ Good(blocks[i]) /\ blocks[i].capacity = InitialSizes[i]
                        /\ blocks[i].length = 0 /\ blocks[i].head = 0
  BY <1>5, Zenon DEF Becomes, Holds, Good
<1>7. blocks \in Seq(Block) /\ Len(blocks) = N
  <2>1. blocks \in [1 .. N -> Block]
    <3>1. \A i \in 1 .. N : io_buf(InitialSizes[i]) \in Block
      BY <1>5, <1>6, Zenon
    <3> QED
      BY <1>2, <3>1, Zenon
  <2> HIDE DEF Block
  <2> QED
    BY <1>1, <2>1
<1>8. Ids = 1 .. N
  BY <1>7, Zenon DEF Ids
<1>9. ASSUME NEW c \in Cap
      PROVE  pool[c] \in Seq(Nat) /\ Distinct(pool[c]) /\ \A x : x \in Range(pool[c]) <=> x \in OfSize(c)
  <2>1. OfSize(c) \in SUBSET (1 .. N)
    BY Zenon DEF OfSize, N
  <2>2. pool[c] \in Orders(OfSize(c))
    BY <1>2, Zenon DEF Lists
  <2> QED
    BY <1>1, <2>1, <2>2, OrderOf, Zenon
<1>10. pool \in [Cap -> Seq(Nat)]
  <2>1. pool \in [Cap -> UNION {Orders(OfSize(c)) : c \in Cap}]
    BY <1>2, Zenon DEF Lists
  <2> QED
    BY <1>9, <2>1, Zenon
<1>11. Types
  BY <1>3, <1>7, <1>10, Zenon DEF Types
<1>12. \A c \in Cap : \A x \in OfSize(c) : x \in 1 .. N /\ InitialSizes[x] = c
  BY Zenon DEF OfSize, N
<1>13. Listed
  BY <1>6, <1>8, <1>9, <1>12, Zenon DEF Listed
<1>14. Owned /\ Content
  BY <1>4, Zenon DEF Owned, Content
<1>15. Somewhere
  <2>1. \A i \in 1 .. N : i \in OfSize(InitialSizes[i])
    BY Zenon DEF OfSize, N
  <2> QED
    BY <1>1, <1>8, <1>9, <2>1, Zenon DEF Somewhere
<1> QED
  BY <1>2, <1>6, <1>8, <1>11, <1>13, <1>14, <1>15, Zenon DEF Inv

\* The invariant says where a block is.
LEMMA OnePlace == ASSUME Inv, NEW id \in Ids PROVE Cardinality(Places(id)) = 1
<1>1. Places(id) = InLists(id) \cup AsBuf(id) \cup AsOld(id)
  BY Zenon DEF Places
<1>2. id # NULL
  BY SeqLen DEF Ids, NULL, Inv, Types
<1> SUFFICES \E x : Places(id) = {x}
  BY FS_Singleton, Zenon
<1>3. ASSUME \A c \in Cap : id \notin Range(pool[c]) PROVE InLists(id) = {}
  BY <1>3, Zenon DEF Range, InLists
<1>4. ASSUME NEW c \in Cap, id \in Range(pool[c]) PROVE \E x : Places(id) = {x}
  <2>1. PICK i \in DOMAIN pool[c] : pool[c][i] = id
    BY <1>4, Zenon DEF Range
  <2>2. blocks[id].capacity = c /\ \A j \in DOMAIN pool[c] : pool[c][j] = id => j = i
    <3>1. DOMAIN pool[c] = 1 .. Len(pool[c])
      BY SeqLen DEF Inv, Types
    <3>2. blocks[id].capacity = c /\ Distinct(pool[c])
      BY <1>4, Zenon DEF Inv, Listed
    <3> QED
      BY <2>1, <3>1, <3>2, Zenon DEF Distinct
  <2>3. InLists(id) = {<<c, i>>}
    <3>1. ASSUME NEW x \in InLists(id) PROVE x = <<c, i>>
      <4>1. PICK d \in Cap : /\ blocks[id].capacity = d
                             /\ x \in {<<d, j>> : j \in {j \in DOMAIN pool[d] : pool[d][j] = id}}
        BY <3>1, Zenon DEF InLists
      <4>2. d = c
        BY <2>2, <4>1, Zenon
      <4> QED
        BY <2>2, <4>1, <4>2, Zenon
    <3>2. <<c, i>> \in InLists(id)
      BY <2>1, <2>2, ZenonT(60) DEF InLists
    <3> QED
      BY <3>1, <3>2, ZenonT(60)
  <2>4. AsBuf(id) = {} /\ AsOld(id) = {}
    <3>1. ASSUME NEW o \in Owner PROVE buf[o] # id
      <4>1. buf[o] # NULL => buf[o] \notin Range(pool[c])
        BY Zenon DEF Inv, Owned
      <4> QED
        BY <1>2, <1>4, <4>1, Zenon
    <3>2. ASSUME NEW o \in Owner PROVE old[o] # id
      <4>1. old[o] # NULL => old[o] \notin Range(pool[c])
        BY Zenon DEF Inv, Owned
      <4> QED
        BY <1>2, <1>4, <4>1, Zenon
    <3> QED
      BY <3>1, <3>2, Zenon DEF AsBuf, AsOld
  <2> QED
    BY <1>1, <2>3, <2>4, Zenon
<1>5. ASSUME NEW o \in Owner, buf[o] = id PROVE \E x : Places(id) = {x}
  <2>1. /\ (\A c \in Cap : id \notin Range(pool[c]))
        /\ \A p \in Owner : old[p] # id /\ (buf[p] = id => p = o)
    BY <1>2, <1>5, Zenon DEF Inv, Owned
  <2>2. AsBuf(id) = {<<o, "buf">>} /\ AsOld(id) = {}
    BY <1>5, <2>1, Zenon DEF AsBuf, AsOld
  <2>3. InLists(id) = {}
    BY <1>3, <2>1, Zenon
  <2> QED
    BY <1>1, <2>2, <2>3, Zenon
<1>6. ASSUME NEW o \in Owner, old[o] = id PROVE \E x : Places(id) = {x}
  <2>1. /\ (\A c \in Cap : id \notin Range(pool[c]))
        /\ \A p \in Owner : buf[p] # id /\ (old[p] = id => p = o)
    BY <1>2, <1>6, Zenon DEF Inv, Owned
  <2>2. AsOld(id) = {<<o, "old">>} /\ AsBuf(id) = {}
    BY <1>6, <2>1, Zenon DEF AsBuf, AsOld
  <2>3. InLists(id) = {}
    BY <1>3, <2>1, Zenon
  <2> QED
    BY <1>1, <2>2, <2>3, Zenon
<1> QED
  BY <1>4, <1>5, <1>6, Zenon DEF Inv, Somewhere

\* The invariant says what a buffer holds.
LEMMA InOrder == ASSUME Inv, NEW o \in Owner
                 PROVE  Contents(o) = [i \in 1 .. put[o] - got[o] |-> got[o] + i]
<1> DEFINE n == put[o] - got[o]
           t == [i \in 1 .. n |-> got[o] + i]
<1>1. put[o] \in Nat /\ got[o] \in Nat
  BY Zenon DEF Inv, Types
<1>2. CASE buf[o] = NULL
  <2>1. Contents(o) = <<>> /\ put[o] = got[o]
    BY <1>2, Zenon DEF Contents, Inv, Content
  <2>2. t = <<>>
    BY <1>1, <2>1
  <2> QED
    BY <2>1, <2>2, Zenon
<1>3. CASE buf[o] # NULL
  <2> DEFINE b == blocks[buf[o]]
             s == SubSeq(b.data, b.head + 1, b.head + b.length)
  <2>1. Good(b) /\ n \in Nat /\ b.length = n /\ Holds(b, got[o], n)
    BY <1>3, Held, Zenon
  <2>2. Contents(o) = s
    BY <1>3, Zenon DEF Contents
  <2>3. /\ b.capacity \in Nat /\ b.head \in Nat /\ b.data \in [1 .. b.capacity -> Nat]
        /\ b.head + n <= b.capacity
    BY <2>1, GoodParts, Zenon
  <2>4. \A i \in 1 .. n : b.data[b.head + i] = got[o] + i
    BY <2>1, Zenon DEF Holds
  <2> HIDE DEF b, n
  <2>5. \A i \in b.head + 1 .. b.head + n : b.data[i] \in Nat
    BY <2>1, <2>3
  <2>6. /\ s \in Seq(Nat) /\ Len(s) = n /\ \A i \in 1 .. n : s[i] = b.data[b.head + i]
    BY <2>1, <2>3, <2>5, SeqPart
  <2> HIDE DEF s
  <2>7. t \in Seq(Nat) /\ Len(t) = n /\ \A i \in 1 .. n : t[i] = got[o] + i
    BY <1>1, <2>1
  <2> HIDE DEF t
  <2>8. s = t
    BY <2>4, <2>6, <2>7, SeqSame, Zenon
  <2> QED
    BY <2>2, <2>8, Zenon DEF t, n
<1> QED
  BY <1>2, <1>3, Zenon

-----------------------------------------------------------------------------

\* A block has one place, and the memory is counted and stays below its
\* limit, whatever the connections do and in whatever order alloc_buf and
\* revert come (buf_pool.cpp:58-151, reactor_buf.cpp:21-43, 59-227).
THEOREM BlocksLentOnce == Spec => []OnePlaceEach
<1>1. Inv => OnePlaceEach
  <2> SUFFICES ASSUME Inv PROVE OnePlaceEach
    BY Zenon
  <2>1. DOMAIN blocks = Ids
    BY SeqLen DEF Ids, Inv, Types
  <2> QED
    BY <2>1, OnePlace, Zenon DEF OnePlaceEach, Inv
<1> QED
  BY <1>1, InitInv, NextInv, PTL DEF Spec

\* The bytes come out of a buffer once and in the order they went in, through
\* every copy to a larger block, pop and adjust (reactor_buf.cpp:59-227,
\* io_buf.cpp:27-53).
THEOREM BytesKeptInOrder == Spec => []BytesInOrder
<1>1. Inv => BytesInOrder
  BY InOrder, Zenon DEF BytesInOrder
<1> QED
  BY <1>1, InitInv, NextInv, PTL DEF Spec
=============================================================================
