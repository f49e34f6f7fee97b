-------------------------- MODULE TcpServerProofs ---------------------------
(***************************************************************************)
(* NoLostWakeup, OneOwner, TableInStep and InOrderExactlyOnce hold for any *)
(* number of threads, tasks, connections and descriptors, and any limit.   *)
(***************************************************************************)
EXTENDS TcpServer, FiniteSetTheorems, WellFoundedInduction, TLAPS

USE SMTT(60), ZenonT(60)

-----------------------------------------------------------------------------
(* What is known of sequences                                              *)

\* The positions of a sequence.
LEMMA SeqLen ==
    ASSUME NEW S, NEW s \in Seq(S)
    PROVE  Len(s) \in Nat /\ DOMAIN s = 1 .. Len(s) /\ s \in [1 .. Len(s) -> S]
OBVIOUS

\* The elements of a sequence.
LEMMA SeqAt == ASSUME NEW S, NEW s \in Seq(S), NEW k \in 1 .. Len(s) PROVE s[k] \in S
OBVIOUS

\* The empty sequence, the only one of length 0.
LEMMA SeqNone ==
    ASSUME NEW S
    PROVE  <<>> \in Seq(S) /\ Len(<<>>) = 0 /\ \A s \in Seq(S) : s # <<>> => Len(s) \in Nat \ {0}
OBVIOUS

\* A sequence with one more element at its end.
LEMMA SeqAppend ==
    ASSUME NEW S, NEW s \in Seq(S), NEW e \in S
    PROVE  /\ Append(s, e) \in Seq(S) /\ Append(s, e) # <<>> /\ Len(Append(s, e)) = Len(s) + 1
           /\ \A k \in 1 .. Len(s) : Append(s, e)[k] = s[k]
           /\ Append(s, e)[Len(s) + 1] = e
OBVIOUS

\* Two sequences, one after the other.
LEMMA SeqConcat ==
    ASSUME NEW S, NEW s \in Seq(S), NEW t \in Seq(S)
    PROVE  /\ s \o t \in Seq(S) /\ Len(s \o t) = Len(s) + Len(t)
           /\ \A k \in 1 .. Len(s) + Len(t) : (s \o t)[k] = IF k <= Len(s) THEN s[k] ELSE t[k - Len(s)]
OBVIOUS

\* A sequence with an empty one before or after it.
LEMMA SeqConcatNone == ASSUME NEW S, NEW s \in Seq(S) PROVE s \o <<>> = s /\ <<>> \o s = s
OBVIOUS

\* Three sequences, one after the other.
LEMMA SeqAssoc ==
    ASSUME NEW S, NEW s \in Seq(S), NEW t \in Seq(S), NEW u \in Seq(S)
    PROVE  (s \o t) \o u = s \o (t \o u)
OBVIOUS

Msg == [type : {"NEW_TASK"}, id : Nat] \cup [type : {"NEW_CONN"}, id : Conn, fd : Fd]

PoolTypes ==
    /\ queue \in [Thread -> Seq(Msg)] /\ batch \in [Thread -> Seq(Msg)]
    /\ ready \in [Thread -> Seq(Msg)] /\ handled \in [Thread -> [Type -> Seq(Msg)]]
    /\ evfd \in [Thread -> Nat] /\ tasks \in Nat
    /\ step \in [Thread -> {"wait", "deal", "tasks"}]

ServerTypes ==
    /\ used \in SUBSET Fd /\ accepted \in Nat
    /\ main \in [step : {"idle", "check"}, fd : Fd \cup {NoFd}, conn : Conn \cup {NULL}]
    /\ work \in [Thread -> [step : {"idle", "open", "clean", "close"},
                            fd : Fd \cup {NoFd}, conn : Int]]
    /\ listen_fds \in [Thread -> SUBSET Fd]
    /\ conns \in [Fd -> Int] /\ curr_conns \in Int

\* The messages of a thread that are still to be dealt with, and the
\* connections it has made.
Pend(w) == batch[w] \o queue[w]
Ids(w) == {m.id : m \in Range(handled[w]["NEW_CONN"])}

\* A batch is dealt with before the loop goes on, and a thread runs tasks only
\* while there are some and it makes or cleans no connection.
LoopStep(w) ==
    /\ step[w] # "deal" => batch[w] = <<>>
    /\ step[w] = "tasks" => ready[w] # <<>> /\ work[w].step = "idle"

\* A descriptor is in one message at most, and the one just accepted in none.
Waits(w, i, fd) ==
    i \in 1 .. Len(Pend(w)) /\ Pend(w)[i].type = "NEW_CONN" /\ Pend(w)[i].fd = fd
OneMessage ==
    \A w, v \in Thread, fd \in Fd : \A i \in 1 .. Len(Pend(w)), j \in 1 .. Len(Pend(v)) :
        Waits(w, i, fd) /\ Waits(v, j, fd) => w = v /\ i = j
OneHolder ==
    /\ \A w \in Thread : \A fd \in listen_fds[w] :
        fd \in used /\ \A v \in Thread : v # w => fd \notin listen_fds[v]
    /\ \A w \in Thread, fd \in Fd : \A i \in 1 .. Len(Pend(w)) :
        Waits(w, i, fd) => fd \in used /\ \A v \in Thread : fd \notin listen_fds[v]
    /\ main.step = "check" =>
        /\ main.fd \in used /\ main.conn \in Conn
        /\ \A w \in Thread :
            main.fd \notin listen_fds[w] /\ \A i \in 1 .. Len(Pend(w)) : ~Waits(w, i, main.fd)

\* A thread makes and cleans connections of its own.
OwnWork(w) ==
    /\ work[w].step # "idle" => work[w].fd \in listen_fds[w]
    /\ work[w].step = "open" => work[w].conn \in Ids(w)
    /\ Ids(w) \subseteq Conn

\* The table has the connections that are made and not being cleaned.
Entered(w, fd) ==
    fd \in listen_fds[w] /\ ~(work[w].fd = fd /\ work[w].step \in {"open", "close"})
Table ==
    /\ curr_conns = Cardinality({fd \in Fd : conns[fd] \in Conn})
    /\ Runs => \A fd \in Fd :
        /\ conns[fd] \in Conn => \E w \in Thread : Entered(w, fd)
        /\ \A w \in Thread : Entered(w, fd) => conns[fd] \in Ids(w)

Inv ==
    /\ PoolTypes /\ ServerTypes
    /\ NoLostWakeup
    /\ \A w \in Thread : LoopStep(w) /\ OwnWork(w)
    /\ OneMessage /\ OneHolder
    /\ Table

-----------------------------------------------------------------------------
(* The messages of a type in a sequence                                   *)

\* Of some naturals one is the smallest: what proofs by induction rest on.
LEMMA Least ==
    ASSUME NEW D, D \subseteq Nat, D # {}
    PROVE  \E x \in D : \A y \in D : x <= y
<1> DEFINE less == {p \in Nat \X Nat : p[1] < p[2]}
<1>1. IsWellFoundedOn(less, Nat)
  BY NatLessThanWellFounded DEF OpToRel
<1>2. \E x \in D : \A y \in D : ~(<<y, x>> \in less)
  <2> HIDE DEF less
  <2> QED
    BY <1>1, WFMin, Zenon
<1>3. PICK x \in D : \A y \in D : ~(<<y, x>> \in less)
  BY <1>2
<1>4. ASSUME NEW y \in D PROVE x <= y
  <2>1. x \in Nat /\ y \in Nat /\ <<y, x>> \notin less
    BY <1>3
  <2> QED
    BY <2>1
<1> QED
  BY <1>4

\* One message makes a sequence.
LEMMA OneIsSeq == \A m \in Msg, type \in Type : One(m, type) \in Seq(Msg)
<1>1. ASSUME NEW m \in Msg PROVE <<m>> \in Seq(Msg) /\ <<>> \in Seq(Msg)
  OBVIOUS
<1> QED
  BY <1>1, Zenon DEF One

\* f tells which of the first n messages of s are of the type.
Picks(f, s, type, n) ==
    /\ f \in [0 .. n -> Seq(Msg)] /\ f[0] = <<>>
    /\ \A i \in 1 .. n : f[i] = f[i - 1] \o One(s[i], type)

\* There is such a function.
LEMMA PicksExist ==
    ASSUME NEW type \in Type, NEW s \in Seq(Msg) PROVE \E f : Picks(f, s, type, Len(s))
<1> DEFINE Up(n) == \E f : Picks(f, s, type, n)
           D == {n \in 0 .. Len(s) : ~Up(n)}
<1>1. Len(s) \in Nat /\ \A i \in 1 .. Len(s) : s[i] \in Msg
  BY SeqLen, SeqAt
<1>2. Up(0)
  <2> DEFINE f == [i \in 0 .. 0 |-> <<>>]
  <2>1. f \in [0 .. 0 -> Seq(Msg)] /\ f[0] = <<>>
    BY SeqNone
  <2>2. \A i \in 1 .. 0 : FALSE
    OBVIOUS
  <2> HIDE DEF f
  <2> QED
    BY <2>1, <2>2, Zenon DEF Picks
<1>3. D \subseteq Nat /\ \A n \in 0 .. Len(s) : n \notin D => Up(n)
  <2> HIDE DEF Up
  <2> QED
    BY <1>1
<1>4. \A n \in D : n \in 0 .. Len(s) /\ ~Up(n)
  BY Zenon
<1> HIDE DEF D
<1>5. D = {}
  <2> SUFFICES ASSUME D # {} PROVE FALSE
    BY Zenon
  <2>1. PICK n \in D : \A m \in D : n <= m
    BY <1>3, Least, Zenon
  <2>2. n # 0
    BY <1>2, <1>4, Zenon
  <2>3. n - 1 \in 0 .. Len(s) /\ n \in 1 .. Len(s) /\ n - 1 \notin D
    <3> HIDE DEF Up
    <3> QED
      BY <1>1, <1>4, <2>1, <2>2
  <2>4. PICK f : Picks(f, s, type, n - 1)
    BY <1>3, <2>3, Zenon
  <2> DEFINE e == f[n - 1] \o One(s[n], type)
             g == [i \in 0 .. n |-> IF i = n THEN e ELSE f[i]]
  <2>5. n - 1 \in 0 .. n - 1 /\ \A i \in 0 .. n : i # n => i \in 0 .. n - 1
    BY <2>3
  <2>6. e \in Seq(Msg)
    <3>1. f[n - 1] \in Seq(Msg) /\ One(s[n], type) \in Seq(Msg)
      BY <1>1, <2>3, <2>4, <2>5, OneIsSeq, Zenon DEF Picks
    <3> QED
      BY <3>1, SeqConcat, Zenon
  <2>7. g \in [0 .. n -> Seq(Msg)]
    <3> HIDE DEF e
    <3> QED
      BY <2>4, <2>5, <2>6, Zenon DEF Picks
  <2>8. \A i \in 0 .. n : g[i] = IF i = n THEN e ELSE f[i]
    BY Zenon
  <2> HIDE DEF g
  <2>9. 0 \in 0 .. n /\ 0 # n
    BY <2>3
  <2>10. ASSUME NEW i \in 1 .. n PROVE g[i] = g[i - 1] \o One(s[i], type)
    <3>1. i \in 0 .. n /\ i - 1 \in 0 .. n /\ i - 1 # n /\ (i # n => i \in 1 .. n - 1)
      BY <2>3
    <3>2. g[i - 1] = f[i - 1] /\ g[i] = IF i = n THEN e ELSE f[i]
      BY <2>8, <3>1, Zenon
    <3> QED
      BY <2>4, <3>1, <3>2, Zenon DEF Picks
  <2>11. g[0] = <<>>
    BY <2>4, <2>8, <2>9, Zenon DEF Picks
  <2>12. Up(n)
    BY <2>7, <2>10, <2>11, Zenon DEF Picks
  <2> QED
    BY <1>4, <2>1, <2>12, Zenon
<1>6. Len(s) \in 0 .. Len(s)
  BY <1>1
<1> QED
  BY <1>3, <1>5, <1>6, Zenon

\* Two such functions agree as far as the sequences they pick from do.
Agree(s, t, n) == \A i \in 1 .. n : s[i] = t[i]

\* The messages of a type are the same in two queues that agree so far.
LEMMA PicksAgree ==
    ASSUME NEW type \in Type, NEW s, NEW t, NEW n \in Nat, NEW f, NEW g,
           Agree(s, t, n), Picks(f, s, type, n), Picks(g, t, type, n + 1)
    PROVE  f[n] = g[n]
<1> DEFINE D == {i \in 0 .. n : f[i] # g[i]}
<1> SUFFICES ASSUME n \in D PROVE FALSE
  OBVIOUS
<1>1. D \subseteq Nat /\ \A i \in D : f[i] # g[i]
  OBVIOUS
<1>2. \A i \in 0 .. n : i \notin D => f[i] = g[i]
  OBVIOUS
<1>3. \A i \in D : i \in 0 .. n
  OBVIOUS
<1> HIDE DEF D
<1>4. PICK i \in D : \A j \in D : i <= j
  BY <1>1, Least, Zenon
<1>5. i # 0
  BY <1>1, Zenon DEF Picks
<1>6. i \in 1 .. n /\ i \in 1 .. n + 1 /\ i - 1 \in 0 .. n /\ i - 1 \notin D
  BY <1>3, <1>4, <1>5
<1>7. f[i] = f[i - 1] \o One(s[i], type) /\ g[i] = g[i - 1] \o One(t[i], type)
  BY <1>6, Zenon DEF Picks
<1> QED
  BY <1>1, <1>2, <1>4, <1>6, <1>7, Zenon DEF Agree

\* OfType is what such a function says of all the messages.
LEMMA OfTypeIs ==
    ASSUME NEW type \in Type, NEW s \in Seq(Msg)
    PROVE  \E f : Picks(f, s, type, Len(s)) /\ OfType(s, type) = f[Len(s)]
<1> DEFINE Rec(f) == f = [i \in 0 .. Len(s) |-> IF i = 0 THEN <<>> ELSE f[i - 1] \o One(s[i], type)]
           of == CHOOSE f : Rec(f)
<1>1. Len(s) \in Nat
  BY SeqLen
<1>2. PICK f : Picks(f, s, type, Len(s))
  BY PicksExist
<1>3. f \in [0 .. Len(s) -> Seq(Msg)] /\ f[0] = <<>>
      /\ \A i \in 1 .. Len(s) : f[i] = f[i - 1] \o One(s[i], type)
  BY <1>2, Zenon DEF Picks
<1>4. \A i \in 0 .. Len(s) : i # 0 => i \in 1 .. Len(s)
  BY <1>1
<1>5. Rec(f)
  BY <1>3, <1>4, Zenon
<1>6. ASSUME NEW g, Rec(g) PROVE g[Len(s)] = f[Len(s)]
  <2> DEFINE D == {i \in 0 .. Len(s) : g[i] # f[i]}
  <2> SUFFICES ASSUME Len(s) \in D PROVE FALSE
    BY <1>1
  <2>1. D \subseteq Nat /\ (\A i \in D : g[i] # f[i] /\ i \in 0 .. Len(s))
        /\ \A i \in 0 .. Len(s) : i \notin D => g[i] = f[i]
    OBVIOUS
  <2> HIDE DEF D
  <2>2. PICK i \in D : \A j \in D : i <= j
    BY <2>1, Least, Zenon
  <2>3. \A j \in 0 .. Len(s) : g[j] = IF j = 0 THEN <<>> ELSE g[j - 1] \o One(s[j], type)
    BY <1>6, Zenon
  <2>4. i # 0
    BY <1>3, <2>1, <2>2, <2>3, Zenon
  <2>5. i \in 1 .. Len(s) /\ i - 1 \in 0 .. Len(s) /\ i - 1 \notin D
    BY <1>1, <2>1, <2>2, <2>4
  <2> QED
    BY <1>3, <2>1, <2>2, <2>3, <2>4, <2>5, Zenon
<1>7. Rec(of)
  BY <1>5, Zenon
<1>8. OfType(s, type) = of[Len(s)]
  BY DEF OfType
<1> HIDE DEF of, Rec
<1> QED
  BY <1>2, <1>6, <1>7, <1>8, Zenon

\* It makes a sequence, and nothing of nothing.
LEMMA OfTypeSeq ==
    ASSUME NEW type \in Type
    PROVE  OfType(<<>>, type) = <<>> /\ \A s \in Seq(Msg) : OfType(s, type) \in Seq(Msg)
<1>1. <<>> \in Seq(Msg) /\ Len(<<>>) = 0
  BY SeqNone, Zenon
<1>2. ASSUME NEW s \in Seq(Msg) PROVE OfType(s, type) \in Seq(Msg) /\ (Len(s) = 0 => OfType(s, type) = <<>>)
  <2>1. PICK f : Picks(f, s, type, Len(s)) /\ OfType(s, type) = f[Len(s)]
    BY OfTypeIs, Zenon
  <2>2. Len(s) \in Nat
    BY SeqLen
  <2>3. Len(s) \in 0 .. Len(s)
    BY <2>2
  <2> QED
    BY <2>1, <2>3, Zenon DEF Picks
<1> QED
  BY <1>1, <1>2, Zenon

\* Sequences of messages are joined in any order.
Joins(a, b, c) == (a \o b) \o c = a \o (b \o c)

\* Messages of three queues, one after the other.
LEMMA JoinMsgs ==
    ASSUME NEW a \in Seq(Msg), NEW b \in Seq(Msg), NEW c \in Seq(Msg) PROVE Joins(a, b, c)
BY SeqAssoc DEF Joins

\* One message more.
LEMMA OfTypeAppend ==
    ASSUME NEW type \in Type, NEW s \in Seq(Msg), NEW m \in Msg
    PROVE  OfType(Append(s, m), type) = OfType(s, type) \o One(m, type)
<1> DEFINE n == Len(s)
           more == Append(s, m)
<1>1. /\ n \in Nat /\ more \in Seq(Msg) /\ Len(more) = n + 1 /\ more[n + 1] = m
      /\ \A i \in 1 .. n : s[i] = more[i]
  BY SeqAppend, SeqLen
<1>2. PICK f : Picks(f, s, type, n) /\ OfType(s, type) = f[n]
  BY OfTypeIs, Zenon
<1> HIDE DEF n, more
<1>3. PICK g : Picks(g, more, type, n + 1) /\ OfType(more, type) = g[n + 1]
  <2>1. PICK g : Picks(g, more, type, Len(more)) /\ OfType(more, type) = g[Len(more)]
    BY <1>1, OfTypeIs, Zenon
  <2> QED
    BY <1>1, <2>1, Zenon
<1>4. n + 1 \in Nat /\ n <= n + 1 /\ n + 1 \in 1 .. n + 1 /\ (n + 1) - 1 = n /\ n \in 0 .. n
  BY <1>1
<1>5. f[n] = g[n]
  <2>1. n \in Nat /\ Agree(s, more, n)
    BY <1>1, Zenon DEF Agree
  <2>2. Picks(f, s, type, n) /\ Picks(g, more, type, n + 1)
    BY <1>2, <1>3, Zenon
  <2> QED
    BY <2>1, <2>2, PicksAgree
<1>6. g[n + 1] = g[n] \o One(more[n + 1], type)
  BY <1>3, <1>4, Zenon DEF Picks
<1> QED
  BY <1>1, <1>2, <1>3, <1>4, <1>5, <1>6, Zenon DEF more

\* The messages of a type in one sequence and then in another.
LEMMA OfTypeConcat ==
    ASSUME NEW type \in Type, NEW s \in Seq(Msg), NEW t \in Seq(Msg)
    PROVE  /\ OfType(s, type) \in Seq(Msg) /\ OfType(t, type) \in Seq(Msg)
           /\ OfType(s \o t, type) = OfType(s, type) \o OfType(t, type)
<1> DEFINE u(k) == SubSeq(t, 1, k)
           Ok(k) == OfType(s \o u(k), type) = OfType(s, type) \o OfType(u(k), type)
           D == {k \in 0 .. Len(t) : ~Ok(k)}
<1>1. /\ Len(t) \in Nat /\ u(Len(t)) = t /\ u(0) = <<>>
      /\ \A k \in 0 .. Len(t) : u(k) \in Seq(Msg)
      /\ \A k \in 1 .. Len(t) : t[k] \in Msg /\ u(k) = Append(u(k - 1), t[k])
  <2>1. Len(t) \in Nat /\ \A k \in 1 .. Len(t) : t[k] \in Msg
    BY SeqLen, SeqAt
  <2>2. u(Len(t)) = t /\ u(0) = <<>>
    BY <2>1
  <2>3. ASSUME NEW k \in 0 .. Len(t) PROVE u(k) \in Seq(Msg)
    BY <2>1
  <2>4. ASSUME NEW k \in 1 .. Len(t) PROVE u(k) = Append(u(k - 1), t[k])
    BY <2>1
  <2> HIDE DEF u
  <2> QED
    BY <2>1, <2>2, <2>3, <2>4, Zenon
<1>2. D \subseteq Nat /\ (\A k \in D : k \in 0 .. Len(t) /\ ~Ok(k))
      /\ \A k \in 0 .. Len(t) : k \notin D => Ok(k)
  <2> HIDE DEF Ok
  <2> QED
    BY <1>1
<1> HIDE DEF D, u
<1>3. \A q \in Seq(Msg) : OfType(q, type) \in Seq(Msg) /\ q \o <<>> = q
  BY OfTypeSeq, SeqConcatNone, Zenon
<1>4. Ok(0)
  BY <1>1, <1>3, OfTypeSeq, Zenon
<1>5. D = {}
  <2> SUFFICES ASSUME D # {} PROVE FALSE
    BY Zenon
  <2>1. PICK k \in D : \A j \in D : k <= j
    BY <1>2, Least, Zenon
  <2>2. k # 0
    BY <1>2, <1>4, <2>1, Zenon
  <2>3. k \in 1 .. Len(t) /\ k - 1 \in 0 .. Len(t) /\ k - 1 \notin D
    <3> HIDE DEF Ok
    <3> QED
      BY <1>1, <1>2, <2>1, <2>2
  <2> DEFINE v == u(k - 1)
             m == t[k]
             o == One(m, type)
  <2>4. v \in Seq(Msg) /\ m \in Msg /\ u(k) = Append(v, m) /\ Ok(k - 1) /\ o \in Seq(Msg)
    BY <1>1, <1>2, <2>3, OneIsSeq, Zenon
  <2>5. OfType(s \o v, type) = OfType(s, type) \o OfType(v, type)
    BY <2>4, Zenon
  <2> HIDE DEF v, m, Ok
  <2>6. s \o v \in Seq(Msg) /\ s \o Append(v, m) = Append(s \o v, m)
    BY <2>4
  <2>7. OfType(Append(s \o v, m), type) = OfType(s \o v, type) \o o
    BY <2>4, <2>6, OfTypeAppend, Zenon
  <2>8. OfType(Append(v, m), type) = OfType(v, type) \o o
    BY <2>4, OfTypeAppend, Zenon
  <2>9. Joins(OfType(s, type), OfType(v, type), o)
    BY <1>3, <2>4, JoinMsgs, Zenon
  <2>10. Ok(k)
    BY <2>4, <2>5, <2>6, <2>7, <2>8, <2>9, Zenon DEF Ok, Joins
  <2> QED
    BY <1>2, <2>1, <2>10, Zenon
<1>6. Len(t) \in 0 .. Len(t)
  BY <1>1
<1>7. Ok(Len(t))
  BY <1>2, <1>5, <1>6, Zenon
<1> QED
  BY <1>1, <1>3, <1>7, Zenon

-----------------------------------------------------------------------------
(* The messages of one thread                                              *)

\* What InOrderExactlyOnce says of the messages of a type: those handled, and
\* those ready, in the batch and in the queue, are those sent.
InOrder(h, r, b, q, s, type) == h \o OfType(r \o b \o q, type) = OfType(s, type)

\* The three are looked through one by one.
Parts(r, b, q, type) ==
    /\ OfType(r \o b \o q, type) = (OfType(r, type) \o OfType(b, type)) \o OfType(q, type)
    /\ r \o b \o q \in Seq(Msg)

\* The messages of a type in the tasks, the batch and the queue of a thread are
\* those of each in turn.
LEMMA Apart ==
    ASSUME NEW type \in Type, NEW r \in Seq(Msg), NEW b \in Seq(Msg), NEW q \in Seq(Msg)
    PROVE  Parts(r, b, q, type)
<1>1. r \o b \in Seq(Msg)
  OBVIOUS
<1>2. OfType(r \o b, type) = OfType(r, type) \o OfType(b, type)
  BY OfTypeConcat, Zenon
<1>3. OfType((r \o b) \o q, type) = OfType(r \o b, type) \o OfType(q, type)
  BY <1>1, OfTypeConcat, Zenon
<1>4. (r \o b) \o q \in Seq(Msg)
  BY <1>1
<1> QED
  BY <1>2, <1>3, <1>4, Zenon DEF Parts

\* Some sequence, and its first message.
LEMMA FirstOf ==
    ASSUME NEW type \in Type, NEW b \in Seq(Msg), b # <<>>
    PROVE  /\ Head(b) \in Msg /\ Tail(b) \in Seq(Msg)
           /\ OfType(b, type) = One(Head(b), type) \o OfType(Tail(b), type)
<1> DEFINE m == Head(b)
           t == Tail(b)
<1>1. m \in Msg /\ t \in Seq(Msg) /\ <<m>> \in Seq(Msg) /\ b = <<m>> \o t /\ <<m>> = Append(<<>>, m)
  OBVIOUS
<1> HIDE DEF m, t
<1>2. <<>> \in Seq(Msg) /\ One(m, type) \in Seq(Msg)
  BY <1>1, SeqNone, OneIsSeq, Zenon
<1>3. OfType(<<m>>, type) = <<>> \o One(m, type)
  BY <1>1, <1>2, OfTypeAppend, OfTypeSeq, Zenon
<1>4. <<>> \o One(m, type) = One(m, type)
  BY <1>2, SeqConcatNone, Zenon
<1>5. OfType(b, type) = OfType(<<m>>, type) \o OfType(t, type)
  BY <1>1, OfTypeConcat, Zenon
<1> QED
  BY <1>1, <1>3, <1>4, <1>5, Zenon DEF m, t

\* A message is sent.
LEMMA SendOrder ==
    ASSUME NEW type \in Type, NEW h \in Seq(Msg), NEW r \in Seq(Msg), NEW b \in Seq(Msg),
           NEW q \in Seq(Msg), NEW s \in Seq(Msg), NEW m \in Msg, InOrder(h, r, b, q, s, type)
    PROVE  InOrder(h, r, b, Append(q, m), Append(s, m), type)
<1> DEFINE all == r \o b \o q
           o == One(m, type)
<1>1. all \in Seq(Msg) /\ o \in Seq(Msg)
  <2>1. Parts(r, b, q, type)
    BY Apart, Zenon
  <2> QED
    BY <2>1, OneIsSeq, Zenon DEF Parts
<1>2. r \o b \o Append(q, m) = Append(all, m)
  <2>1. r \o b \in Seq(Msg)
    OBVIOUS
  <2> QED
    BY <2>1
<1> HIDE DEF all, o
<1>3. OfType(Append(all, m), type) = OfType(all, type) \o o /\ OfType(all, type) \in Seq(Msg)
  BY <1>1, OfTypeAppend, OfTypeSeq, Zenon DEF o
<1>4. Joins(h, OfType(all, type), o)
  BY <1>1, <1>3, JoinMsgs, Zenon
<1>5. OfType(Append(s, m), type) = OfType(s, type) \o o
  BY OfTypeAppend, Zenon DEF o
<1> QED
  BY <1>2, <1>3, <1>4, <1>5, Zenon DEF InOrder, Joins, all

\* recv, and a task that is moved on.
LEMMA MoveOrder ==
    ASSUME NEW type \in Type, NEW h, NEW r \in Seq(Msg), NEW b \in Seq(Msg), NEW q \in Seq(Msg), NEW s,
           InOrder(h, r, b, q, s, type)
    PROVE  /\ b = <<>> => InOrder(h, r, q, <<>>, s, type)
           /\ b # <<>> => InOrder(h, Append(r, Head(b)), Tail(b), q, s, type)
<1>1. b = <<>> => r \o b \o q = r \o q \o <<>>
  OBVIOUS
<1>2. b # <<>> => r \o b = Append(r, Head(b)) \o Tail(b)
  OBVIOUS
<1> QED
  BY <1>1, <1>2, Zenon DEF InOrder

\* The first message of the batch is handled; no message of its type is ready.
LEMMA HandleOrder ==
    ASSUME NEW type \in Type, NEW h \in Seq(Msg), NEW r \in Seq(Msg), NEW b \in Seq(Msg),
           NEW q \in Seq(Msg), NEW s, InOrder(h, r, b, q, s, type), b # <<>>,
           OfType(r, type) = <<>> \/ One(Head(b), type) = <<>>
    PROVE  InOrder(h \o One(Head(b), type), r, Tail(b), q, s, type)
<1> DEFINE o == One(Head(b), type)
           R == OfType(r, type)
           B == OfType(Tail(b), type)
           Q == OfType(q, type)
<1>1. Head(b) \in Msg /\ Tail(b) \in Seq(Msg) /\ OfType(b, type) = o \o B
  BY FirstOf, Zenon
<1>2. o \in Seq(Msg) /\ R \in Seq(Msg) /\ B \in Seq(Msg) /\ Q \in Seq(Msg)
  BY <1>1, OneIsSeq, OfTypeSeq, Zenon
<1>3. Parts(r, b, q, type) /\ Parts(r, Tail(b), q, type)
  BY <1>1, Apart, Zenon
<1>4. /\ OfType(r \o b \o q, type) = (R \o (o \o B)) \o Q
      /\ OfType(r \o Tail(b) \o q, type) = (R \o B) \o Q
  BY <1>1, <1>3, Zenon DEF Parts
<1>5. R = <<>> \/ o = <<>>
  OBVIOUS
<1> HIDE DEF o, R, B, Q
<1>6. h \o ((R \o (o \o B)) \o Q) = (h \o o) \o ((R \o B) \o Q)
  <2>1. R \o (o \o B) = o \o (R \o B)
    <3>1. o \o B \in Seq(Msg) /\ R \o B \in Seq(Msg)
      BY <1>2, SeqConcat, Zenon
    <3> QED
      BY <1>2, <1>5, <3>1, SeqConcatNone, Zenon
  <2>2. R \o B \in Seq(Msg) /\ (R \o B) \o Q \in Seq(Msg)
    BY <1>2, SeqConcat
  <2>3. Joins(o, R \o B, Q) /\ Joins(h, o, (R \o B) \o Q)
    BY <1>2, <2>2, JoinMsgs, Zenon
  <2> QED
    BY <2>1, <2>3, Zenon DEF Joins
<1> QED
  BY <1>4, <1>6, Zenon DEF InOrder, o

\* The first task that is ready is run.
LEMMA RunOrder ==
    ASSUME NEW type \in Type, NEW h \in Seq(Msg), NEW r \in Seq(Msg), NEW b \in Seq(Msg),
           NEW q \in Seq(Msg), NEW s, InOrder(h, r, b, q, s, type), r # <<>>
    PROVE  InOrder(h \o One(Head(r), type), Tail(r), b, q, s, type)
<1> DEFINE o == One(Head(r), type)
           R == OfType(Tail(r), type)
           B == OfType(b, type)
           Q == OfType(q, type)
<1>1. Head(r) \in Msg /\ Tail(r) \in Seq(Msg) /\ OfType(r, type) = o \o R
  BY FirstOf, Zenon
<1>2. o \in Seq(Msg) /\ R \in Seq(Msg) /\ B \in Seq(Msg) /\ Q \in Seq(Msg)
  BY <1>1, OneIsSeq, OfTypeSeq, Zenon
<1>3. Parts(r, b, q, type) /\ Parts(Tail(r), b, q, type)
  BY <1>1, Apart, Zenon
<1>4. /\ OfType(r \o b \o q, type) = ((o \o R) \o B) \o Q
      /\ OfType(Tail(r) \o b \o q, type) = (R \o B) \o Q
  BY <1>1, <1>3, Zenon DEF Parts
<1> HIDE DEF o, R, B, Q
<1>5. h \o (((o \o R) \o B) \o Q) = (h \o o) \o ((R \o B) \o Q)
  <2>1. Joins(o, R, B)
    BY <1>2, JoinMsgs, Zenon
  <2>2. R \o B \in Seq(Msg) /\ (R \o B) \o Q \in Seq(Msg)
    BY <1>2, SeqConcat
  <2>3. Joins(o, R \o B, Q) /\ Joins(h, o, (R \o B) \o Q)
    BY <1>2, <2>2, JoinMsgs, Zenon
  <2> QED
    BY <2>1, <2>3, Zenon DEF Joins
<1> QED
  BY <1>4, <1>5, Zenon DEF InOrder, o

-----------------------------------------------------------------------------
(* Steps                                                                   *)

\* Swapping the queue out does not change what is to be dealt with.
LEMMA PendSwap == \A q \in Seq(Msg) : q \o <<>> = q /\ <<>> \o q = q
OBVIOUS

\* A connection that is made joins those the thread has made.
LEMMA RangeAppend ==
    ASSUME NEW s \in Seq(Msg), NEW m \in Msg
    PROVE Range(Append(s, m)) = Range(s) \cup {m}
<1> DEFINE t == Append(s, m)
<1>1. DOMAIN s = 1 .. Len(s) /\ DOMAIN t = 1 .. Len(s) + 1 /\ Len(s) \in Nat
  OBVIOUS
<1>2. t[Len(s) + 1] = m /\ \A i \in 1 .. Len(s) : t[i] = s[i]
  OBVIOUS
<1>3. \A i \in 1 .. Len(s) + 1 : i \in 1 .. Len(s) \/ i = Len(s) + 1
  BY <1>1
<1>4. Len(s) + 1 \in 1 .. Len(s) + 1 /\ \A i \in 1 .. Len(s) : i \in 1 .. Len(s) + 1
  BY <1>1
<1>5. Range(t) = Range(s) \cup {m}
  <2> HIDE DEF t
  <2> QED
    BY <1>1, <1>2, <1>3, <1>4, Zenon DEF Range
<1> QED
  BY <1>5, Zenon

\* An empty entry of the table is no connection.
LEMMA NoConn ==
    /\ NULL \in Int /\ Garbage \in Int /\ NULL \notin Conn /\ Garbage \notin Conn
    /\ Conn \subseteq Int
BY ServerAssumption DEF NULL, Garbage, Conn

\* Nobody gets hold of a descriptor where no event, no queue and no descriptor
\* changes.
LEMMA HolderSame ==
    ASSUME OneHolder, Thread' = Thread, \A v : Pend(v)' = Pend(v),
           used' = used, listen_fds' = listen_fds, main' = main
    PROVE  OneHolder'
<1>1. \A w, i, fd : Waits(w, i, fd)' <=> Waits(w, i, fd)
  BY Zenon DEF Waits
<1>2. ASSUME NEW w \in Thread' PROVE \A fd \in listen_fds'[w] :
            fd \in used' /\ \A v \in Thread' : v # w => fd \notin listen_fds'[v]
  BY Zenon DEF OneHolder
<1>3. ASSUME NEW w \in Thread', NEW fd \in Fd, NEW i \in 1 .. Len(Pend(w)'), Waits(w, i, fd)'
      PROVE fd \in used' /\ \A v \in Thread' : fd \notin listen_fds'[v]
  <2>1. w \in Thread /\ i \in 1 .. Len(Pend(w)) /\ Waits(w, i, fd)
    BY <1>1, <1>3, Zenon
  <2> QED
    BY <2>1, Zenon DEF OneHolder
<1>4. ASSUME main'.step = "check"
      PROVE /\ main'.fd \in used' /\ main'.conn \in Conn
            /\ \A w \in Thread' : main'.fd \notin listen_fds'[w]
                /\ \A i \in 1 .. Len(Pend(w)') : ~Waits(w, i, main.fd)'
  <2>1. \A w, i : ~Waits(w, i, main.fd) => ~Waits(w, i, main.fd)'
    BY Zenon DEF Waits
  <2> QED
    BY <1>4, <2>1, Zenon DEF OneHolder
<1> QED
  BY <1>2, <1>3, <1>4, Zenon DEF OneHolder

\* What the steps that leave the pool alone leave alone with it.
LEMMA PoolSame ==
    ASSUME Inv, UNCHANGED pool
    PROVE /\ Thread' = Thread
          /\ PoolTypes' /\ NoLostWakeup' /\ OneMessage'
          /\ \A w : Pend(w)' = Pend(w) /\ Ids(w)' = Ids(w)
<1>1. Thread' = Thread /\ \A w : Pend(w)' = Pend(w) /\ Ids(w)' = Ids(w)
  BY Zenon DEF pool, queues, loops, Thread, Pend, Ids
<1>2. PoolTypes' /\ NoLostWakeup'
  BY <1>1, Zenon DEF Inv, PoolTypes, NoLostWakeup, pool, queues, loops, sender
<1>3. OneMessage'
  BY <1>1 DEF Inv, OneMessage, Waits
<1> QED
  BY <1>1, <1>2, <1>3, Zenon

\* What the steps of the pool leave alone, except those that send or take a
\* message.
LEMMA MessagesSame ==
    ASSUME Inv, UNCHANGED <<thread_cnt, server>>, \A w \in Thread : Pend(w)' = Pend(w),
           \A w \in Thread : handled'[w]["NEW_CONN"] = handled[w]["NEW_CONN"]
    PROVE /\ Thread' = Thread
          /\ ServerTypes' /\ OneMessage' /\ OneHolder' /\ Table'
          /\ \A w \in Thread : OwnWork(w)'
<1>1. Thread' = Thread /\ \A w \in Thread : Ids(w)' = Ids(w)
  BY Zenon DEF Thread, Ids
<1>2. ServerTypes' /\ OneMessage' /\ OneHolder'
  BY <1>1 DEF Inv, ServerTypes, OneMessage, OneHolder, Waits, server
<1>3. Table' /\ \A w \in Thread : OwnWork(w)'
  BY <1>1, Zenon DEF Inv, Table, Entered, OwnWork, Runs, server
<1> QED
  BY <1>1, <1>2, <1>3, Zenon

\* What sending a message does to the queues.
LEMMA Sent ==
    ASSUME Inv, NEW t, NEW m \in Msg, send(t, m), UNCHANGED <<thread_cnt, batch>>
    PROVE /\ Thread' = Thread /\ NoLostWakeup'
          /\ queue' \in [Thread -> Seq(Msg)] /\ evfd' \in [Thread -> Nat]
          /\ \A w \in Thread, i \in Nat, fd \in Fd :
                Waits(w, i, fd)' <=>
                    \/ Waits(w, i, fd)
                    \/ w = t /\ i = Len(Pend(w)) + 1 /\ m.type = "NEW_CONN" /\ m.fd = fd
<1> USE DEF Inv
<1>1. Thread' = Thread
  BY Zenon DEF Thread
<1>2. queue' \in [Thread -> Seq(Msg)] /\ evfd' \in [Thread -> Nat]
  <2>1. \A w \in Thread : Append(queue[w], m) \in Seq(Msg) /\ evfd[w] + 1 \in Nat
    BY DEF PoolTypes
  <2> QED
    BY <1>1, <2>1, Zenon DEF PoolTypes, send
<1>3. NoLostWakeup'
  BY <1>1, <1>2 DEF NoLostWakeup, PoolTypes, send
<1>4. ASSUME NEW w \in Thread, NEW i \in Nat, NEW fd \in Fd
      PROVE Waits(w, i, fd)' <=>
                \/ Waits(w, i, fd)
                \/ w = t /\ i = Len(Pend(w)) + 1 /\ m.type = "NEW_CONN" /\ m.fd = fd
  <2>1. CASE w = t
    <3>1. batch[w] \in Seq(Msg) /\ queue[w] \in Seq(Msg)
          /\ batch'[w] = batch[w] /\ queue'[w] = Append(queue[w], m)
      BY <2>1, Zenon DEF PoolTypes, send
    <3>2. /\ Len(Pend(w)') = Len(Pend(w)) + 1 /\ Len(Pend(w)) \in Nat
          /\ \A k \in 1 .. Len(Pend(w)) : Pend(w)'[k] = Pend(w)[k]
          /\ Pend(w)'[Len(Pend(w)) + 1] = m
      <4> DEFINE old == Pend(w)
                 new == Pend(w)'
                 b == batch[w]
                 q == queue[w]
      <4>1. b \in Seq(Msg) /\ q \in Seq(Msg) /\ old = b \o q /\ new = b \o Append(q, m)
        BY <3>1, Zenon DEF Pend
      <4> HIDE DEF old, new, b, q
      <4>2. Len(new) = Len(old) + 1 /\ Len(old) \in Nat
        BY <4>1
      <4>3. \A k \in 1 .. Len(old) : new[k] = old[k]
        BY <4>1
      <4>4. new[Len(old) + 1] = m
        BY <4>1
      <4> QED
        BY <4>2, <4>3, <4>4, Zenon DEF old, new
    <3> QED
      BY <2>1, <3>2 DEF Waits
  <2>2. CASE w # t
    BY <2>2, Zenon DEF PoolTypes, send, Waits, Pend
  <2> QED
    BY <2>1, <2>2, Zenon
<1> QED
  BY <1>1, <1>2, <1>3, <1>4, Zenon

\* What taking the first message of a batch does.
LEMMA Taken ==
    ASSUME Inv, NEW t \in Thread, NEW type \in Type, next_msg(t, type),
           UNCHANGED <<thread_cnt, queue>>
    PROVE /\ Thread' = Thread /\ step[t] = "deal"
          /\ batch' \in [Thread -> Seq(Msg)]
          /\ Head(batch[t]) \in Msg /\ Head(batch[t]).type = type
          /\ type = "NEW_CONN" => Waits(t, 1, Head(batch[t]).fd)
          /\ \A w \in Thread, i \in Nat, fd \in Fd :
                Waits(w, i, fd)' <=> IF w = t THEN i > 0 /\ Waits(w, i + 1, fd)
                                     ELSE Waits(w, i, fd)
<1> USE DEF Inv
<1>1. Thread' = Thread /\ step[t] = "deal" /\ Head(batch[t]).type = type
  BY Zenon DEF Thread, next_msg
<1>2. /\ batch[t] \in Seq(Msg) /\ queue[t] \in Seq(Msg) /\ batch[t] # <<>>
      /\ batch'[t] = Tail(batch[t]) /\ queue'[t] = queue[t]
  BY Zenon DEF PoolTypes, next_msg
<1>3. batch' \in [Thread -> Seq(Msg)] /\ Head(batch[t]) \in Msg
  <2>1. Tail(batch[t]) \in Seq(Msg) /\ Head(batch[t]) \in Msg
    BY <1>2
  <2> QED
    BY <1>1, <2>1, Zenon DEF PoolTypes, next_msg
<1>4. /\ Len(Pend(t)) \in Nat \ {0} /\ Head(batch[t]) = Pend(t)[1]
      /\ Len(Pend(t)') = Len(Pend(t)) - 1
      /\ \A k \in 1 .. Len(Pend(t)) - 1 : Pend(t)'[k] = Pend(t)[k + 1]
  <2> DEFINE old == Pend(t)
             new == Pend(t)'
             b == batch[t]
             q == queue[t]
  <2>1. /\ b \in Seq(Msg) /\ q \in Seq(Msg) /\ b # <<>>
        /\ old = b \o q /\ new = Tail(b) \o q
    BY <1>2, Zenon DEF Pend
  <2> HIDE DEF old, new, b, q
  <2>2. Len(old) \in Nat \ {0} /\ Head(b) = old[1]
    BY <2>1
  <2>3. Len(new) = Len(old) - 1
    BY <2>1
  <2>4. \A k \in 1 .. Len(old) - 1 : new[k] = old[k + 1]
    BY <2>1
  <2> QED
    BY <2>2, <2>3, <2>4, Zenon DEF old, new, b
<1>5. type = "NEW_CONN" => Waits(t, 1, Head(batch[t]).fd)
  BY <1>1, <1>4 DEF Waits
<1>6. ASSUME NEW w \in Thread, NEW i \in Nat, NEW fd \in Fd
      PROVE Waits(w, i, fd)' <=> IF w = t THEN i > 0 /\ Waits(w, i + 1, fd)
                                 ELSE Waits(w, i, fd)
  <2>1. CASE w = t
    BY <2>1, <1>4 DEF Waits
  <2>2. CASE w # t
    BY <2>2, Zenon DEF PoolTypes, next_msg, Waits, Pend
  <2> QED
    BY <2>1, <2>2, Zenon
<1> QED
  BY <1>1, <1>3, <1>5, <1>6, Zenon

\* A refused connection was in no message.
LEMMA refuse_Inv ==
    ASSUME Inv, refuse PROVE Inv'
<1> USE DEF Inv
<1>s. UNCHANGED pool
  BY Zenon DEF refuse
<1>p. Thread' = Thread /\ \A v : Pend(v)' = Pend(v) /\ Ids(v)' = Ids(v)
  BY <1>s, PoolSame, Zenon
<1>1. PoolTypes' /\ NoLostWakeup' /\ OneMessage'
  BY <1>s, PoolSame, Zenon
<1>2. ServerTypes'
  BY <1>s, <1>p, NoConn, Zenon DEF ServerTypes, Idle, refuse
<1>3. ASSUME NEW u \in Thread PROVE LoopStep(u)'
  BY <1>s, <1>p, Zenon DEF LoopStep, ServerTypes, Idle, refuse, pool, loops
<1>4. ASSUME NEW u \in Thread PROVE OwnWork(u)'
  BY <1>s, <1>p, Zenon DEF OwnWork, ServerTypes, Idle, refuse
<1>5. OneHolder'
  BY <1>s, <1>p DEF OneHolder, Waits, ServerTypes, OwnWork, Idle, refuse
<1>6. Table'
  BY <1>s, <1>p, Zenon DEF Table, Entered, OwnWork, ServerTypes, OneHolder, Runs, Idle, refuse
<1> QED
  BY <1>p, <1>1, <1>2, <1>3, <1>4, <1>5, <1>6, Zenon

\* A thread cleans a connection it listens to.
LEMMA clean_conn_Inv ==
    ASSUME Inv, NEW w \in Thread, NEW fd \in Fd, clean_conn(w, fd) PROVE Inv'
<1> USE DEF Inv
<1>s. UNCHANGED pool
  BY Zenon DEF clean_conn
<1>p. Thread' = Thread /\ \A v : Pend(v)' = Pend(v) /\ Ids(v)' = Ids(v)
  BY <1>s, PoolSame, Zenon
<1>1. PoolTypes' /\ NoLostWakeup' /\ OneMessage'
  BY <1>s, PoolSame, Zenon
<1>2. ServerTypes'
  BY <1>s, <1>p, NoConn, Zenon DEF ServerTypes, Idle, clean_conn
<1>3. ASSUME NEW u \in Thread PROVE LoopStep(u)'
  BY <1>s, <1>p, Zenon DEF LoopStep, ServerTypes, Idle, clean_conn, CanServe, pool, loops
<1>4. ASSUME NEW u \in Thread PROVE OwnWork(u)'
  BY <1>s, <1>p, Zenon DEF OwnWork, ServerTypes, Idle, clean_conn
<1>5. OneHolder'
  BY <1>s, <1>p DEF OneHolder, Waits, ServerTypes, OwnWork, Idle, clean_conn
<1>6. Table'
  BY <1>s, <1>p DEF Table, Entered, OwnWork, ServerTypes, OneHolder, Runs, Idle, clean_conn
<1> QED
  BY <1>p, <1>1, <1>2, <1>3, <1>4, <1>5, <1>6, Zenon

\* A descriptor is given back when its only holder lets it go.
LEMMA close_Inv ==
    ASSUME Inv, NEW w \in Thread, close(w) PROVE Inv'
<1> USE DEF Inv
<1>s. UNCHANGED pool
  BY Zenon DEF close
<1>p. Thread' = Thread /\ \A v : Pend(v)' = Pend(v) /\ Ids(v)' = Ids(v)
  BY <1>s, PoolSame, Zenon
<1>1. PoolTypes' /\ NoLostWakeup' /\ OneMessage'
  BY <1>s, PoolSame, Zenon
<1>2. ServerTypes'
  BY <1>s, <1>p, NoConn, Zenon DEF ServerTypes, Idle, close
<1>3. ASSUME NEW u \in Thread PROVE LoopStep(u)'
  BY <1>s, <1>p, Zenon DEF LoopStep, ServerTypes, Idle, close, pool, loops
<1>4. ASSUME NEW u \in Thread PROVE OwnWork(u)'
  BY <1>s, <1>p, Zenon DEF OwnWork, ServerTypes, Idle, close
<1>5. OneHolder'
  BY <1>s, <1>p DEF OneHolder, Waits, ServerTypes, OwnWork, Idle, close
<1>6. Table'
  BY <1>s, <1>p DEF Table, Entered, OwnWork, ServerTypes, OneHolder, Runs, Idle, close
<1> QED
  BY <1>p, <1>1, <1>2, <1>3, <1>4, <1>5, <1>6, Zenon

\* hand_over sends the descriptor just accepted, which nobody else holds.
LEMMA hand_over_Inv ==
    ASSUME Inv, hand_over PROVE Inv'
<1> USE DEF Inv
<1> DEFINE m == [type |-> "NEW_CONN", id |-> main.conn, fd |-> main.fd]
<1>1. /\ main.step = "check" /\ main.fd \in used /\ main.fd \in Fd /\ m \in Msg
      /\ UNCHANGED <<thread_cnt, listening, step, batch, ready, handled, next, tasks>>
      /\ UNCHANGED <<used, accepted, work, listen_fds, conns, curr_conns>> /\ main' = Idle
  BY Zenon DEF hand_over, OneHolder, ServerTypes, Msg, loops, sender
<1>2. Thread' = Thread /\ \A w \in Thread : Ids(w)' = Ids(w)
  BY <1>1, Zenon DEF Thread, Ids
<1>3. ServerTypes'
  BY <1>1, <1>2, Zenon DEF ServerTypes, Idle
<1>4. ASSUME NEW u \in Thread PROVE LoopStep(u)' /\ OwnWork(u)'
  BY <1>1, <1>2, Zenon DEF LoopStep, OwnWork
<1>5. Table'
  <2>1. Runs
    BY Zenon DEF hand_over
  <2> QED
    BY <1>1, <1>2, <2>1, Zenon DEF Table, Entered
<1>6. CASE UNCHANGED queues
  <2>1. PoolTypes' /\ NoLostWakeup'
    BY <1>1, <1>2, <1>6, Zenon DEF PoolTypes, NoLostWakeup, queues
  <2>2. \A w, i, fd : Pend(w)' = Pend(w) /\ (Waits(w, i, fd)' <=> Waits(w, i, fd))
    BY <1>1, <1>6, Zenon DEF Waits, Pend, queues
  <2>3. OneMessage' /\ OneHolder'
    BY <1>1, <1>2, <2>2 DEF OneMessage, OneHolder, Idle
  <2> QED
    BY <1>2, <1>3, <1>4, <1>5, <2>1, <2>3, Zenon
<1>7. CASE send(get_thread, m)
  <2> DEFINE t == get_thread
  <2>1. /\ NoLostWakeup' /\ queue' \in [Thread -> Seq(Msg)] /\ evfd' \in [Thread -> Nat]
        /\ \A w \in Thread, i \in Nat, fd \in Fd :
              Waits(w, i, fd)' => Waits(w, i, fd)
                                  \/ (w = t /\ i = Len(Pend(w)) + 1 /\ fd = main.fd)
    <3> HIDE DEF t
    <3>1. send(t, m)
      BY <1>7, Zenon DEF t
    <3> QED
      BY <1>1, <3>1, Sent
  <2> HIDE DEF t
  <2>2. PoolTypes'
    BY <1>1, <1>2, <2>1, Zenon DEF PoolTypes
  <2>3. \A w \in Thread, i \in Nat, fd \in Fd : Waits(w, i, fd) => i \in 1 .. Len(Pend(w))
    BY Zenon DEF Waits
  <2>4. \A w \in Thread, i \in Nat : ~Waits(w, i, main.fd)
    BY <1>1, <2>3, Zenon DEF OneHolder
  <2>5. OneMessage'
    <3> SUFFICES ASSUME NEW w \in Thread, NEW v \in Thread, NEW fd \in Fd,
                        NEW i \in Nat, NEW j \in Nat, Waits(w, i, fd)', Waits(v, j, fd)'
                 PROVE w = v /\ i = j
      BY <1>2 DEF OneMessage
    <3>1. CASE fd = main.fd
      BY <2>1, <2>4, <3>1, Zenon
    <3>2. CASE fd # main.fd
      BY <2>1, <2>3, <3>2 DEF OneMessage
    <3> QED
      BY <3>1, <3>2, Zenon
  <2>6. OneHolder'
    <3>1. ASSUME NEW w \in Thread, NEW fd \in Fd, NEW i \in Nat, Waits(w, i, fd)'
          PROVE fd \in used /\ \A v \in Thread : fd \notin listen_fds[v]
      BY <1>1, <2>1, <2>3, <3>1 DEF OneHolder
    <3> QED
      BY <1>1, <1>2, <3>1 DEF OneHolder, Idle
  <2> QED
    BY <1>2, <1>3, <1>4, <1>5, <2>1, <2>2, <2>5, <2>6, Zenon
<1> QED
  BY <1>6, <1>7, Zenon DEF hand_over

\* A task is a message without a descriptor.
LEMMA send_task_Inv ==
    ASSUME Inv, Pool(send_task) PROVE Inv'
<1> USE DEF Inv
<1> DEFINE m == [type |-> "NEW_TASK", id |-> tasks']
<1>1. /\ tasks' \in Nat /\ m \in Msg /\ send(next, m)
      /\ UNCHANGED <<thread_cnt, listening, step, batch, ready, handled>>
      /\ UNCHANGED <<used, accepted, main, work, listen_fds, conns, curr_conns, ub>>
  BY DEF Pool, send_task, PoolTypes, Msg, loops, server
<1>2. Thread' = Thread /\ \A w \in Thread : Ids(w)' = Ids(w)
  BY <1>1, Zenon DEF Thread, Ids
<1>3. /\ NoLostWakeup' /\ queue' \in [Thread -> Seq(Msg)] /\ evfd' \in [Thread -> Nat]
      /\ \A w \in Thread, i \in Nat, fd \in Fd : Waits(w, i, fd)' <=> Waits(w, i, fd)
  BY <1>1, Sent, Zenon
<1>4. PoolTypes'
  BY <1>1, <1>2, <1>3, Zenon DEF PoolTypes
<1>5. ServerTypes' /\ \A u \in Thread : LoopStep(u)' /\ OwnWork(u)'
  BY <1>1, <1>2 DEF ServerTypes, LoopStep, OwnWork
<1>6. Table'
  BY <1>1, <1>2, Zenon DEF Table, Entered, Runs
<1>7. \A w \in Thread, i \in Nat, fd \in Fd : Waits(w, i, fd) => i \in 1 .. Len(Pend(w))
  BY Zenon DEF Waits
<1>8. OneMessage'
  <2>1. OneMessage
    BY ZenonT(60)
  <2> HIDE DEF Inv
  <2> QED
    BY <1>2, <1>3, <1>7, <2>1 DEF OneMessage
<1>9. OneHolder'
  <2>1. main.step = "check" => main.fd \in Fd
    BY Zenon DEF OneHolder, ServerTypes
  <2>2. \A w \in Thread, i \in Nat : main.step = "check" => ~Waits(w, i, main.fd)
    BY <1>7, <2>1, Zenon DEF OneHolder
  <2> QED
    BY <1>1, <1>2, <1>3, <1>7, <2>1, <2>2 DEF OneHolder
<1> QED
  BY <1>2, <1>3, <1>4, <1>5, <1>6, <1>8, <1>9, Zenon

\* A thread that registers its callback finds its queue as it is.
LEMMA thread_main_Inv ==
    ASSUME Inv, NEW w \in Thread, Pool(thread_main(w)) PROVE Inv'
<1> USE DEF Inv
<1>1. UNCHANGED <<thread_cnt, queue, evfd, batch, ready, handled, step, tasks, server>>
  BY Zenon DEF Pool, thread_main, queues, sender
<1>2. /\ Thread' = Thread /\ ServerTypes' /\ OneMessage' /\ OneHolder' /\ Table'
      /\ \A u \in Thread : OwnWork(u)'
  BY <1>1, MessagesSame, Zenon DEF Pend
<1>3. PoolTypes' /\ NoLostWakeup' /\ \A u \in Thread : LoopStep(u)'
  BY <1>1, <1>2, Zenon DEF PoolTypes, NoLostWakeup, LoopStep, server
<1> QED
  BY <1>2, <1>3, Zenon

\* The queue that deal_task swaps out becomes the batch, which was empty.
LEMMA deal_task_Inv ==
    ASSUME Inv, NEW w \in Thread, Pool(deal_task(w)) PROVE Inv'
<1> USE DEF Inv
<1>1. /\ UNCHANGED <<thread_cnt, ready, handled, tasks, server>>
      /\ step[w] = "wait" /\ batch[w] = <<>> /\ step' = [step EXCEPT ![w] = "deal"]
      /\ evfd' = [evfd EXCEPT ![w] = 0] /\ batch' = [batch EXCEPT ![w] = queue[w]]
      /\ queue' = [queue EXCEPT ![w] = <<>>]
  BY Zenon DEF Pool, deal_task, recv, sender, LoopStep
<1>2. \A u \in Thread : Pend(u)' = Pend(u)
  <2>1. \A u \in Thread \ {w} : Pend(u)' = Pend(u)
    BY <1>1, Zenon DEF PoolTypes, Pend
  <2>2. queue[w] \in Seq(Msg) /\ Pend(w)' = queue[w] \o <<>> /\ Pend(w) = <<>> \o queue[w]
    BY <1>1, Zenon DEF PoolTypes, Pend
  <2>3. Pend(w)' = Pend(w)
    BY <2>2, PendSwap, Zenon
  <2> QED
    BY <2>1, <2>3, Zenon
<1>3. /\ Thread' = Thread /\ ServerTypes' /\ OneMessage' /\ OneHolder' /\ Table'
      /\ \A u \in Thread : OwnWork(u)'
  BY <1>1, <1>2, MessagesSame, Zenon
<1>4. PoolTypes'
  BY <1>1, <1>3, Zenon DEF PoolTypes
<1>5. NoLostWakeup'
  BY <1>1, <1>3, Zenon DEF PoolTypes, NoLostWakeup
<1>6. ASSUME NEW u \in Thread PROVE LoopStep(u)'
  BY <1>1, Zenon DEF PoolTypes, LoopStep, server
<1> QED
  BY <1>3, <1>4, <1>5, <1>6, Zenon

\* The loop goes on with its tasks only when the batch is dealt with.
LEMMA events_end_Inv ==
    ASSUME Inv, NEW w \in Thread, work[w] = Idle, Pool(events_end(w)) PROVE Inv'
<1> USE DEF Inv
<1>1. /\ UNCHANGED <<thread_cnt, queue, evfd, batch, ready, handled, tasks, server>>
      /\ batch[w] = <<>> /\ work[w].step = "idle"
      /\ step' = [step EXCEPT ![w] = IF ready[w] = <<>> THEN "wait" ELSE "tasks"]
  BY DEF Pool, events_end, queues, sender, Idle
<1>2. /\ Thread' = Thread /\ ServerTypes' /\ OneMessage' /\ OneHolder' /\ Table'
      /\ \A u \in Thread : OwnWork(u)'
  BY <1>1, MessagesSame, Zenon DEF Pend
<1>3. PoolTypes' /\ NoLostWakeup'
  BY <1>1, <1>2, Zenon DEF PoolTypes, NoLostWakeup
<1>4. ASSUME NEW u \in Thread PROVE LoopStep(u)'
  BY <1>1, Zenon DEF PoolTypes, LoopStep, server
<1> QED
  BY <1>2, <1>3, <1>4, ZenonT(60)

\* A task that is run is no connection that is made.
LEMMA run_task_Inv ==
    ASSUME Inv, NEW w \in Thread, Pool(run_task(w)) PROVE Inv'
<1> USE DEF Inv
<1>1. /\ UNCHANGED <<thread_cnt, queue, evfd, batch, tasks, server>>
      /\ step[w] = "tasks" /\ ready[w] # <<>>
      /\ handled' = [handled EXCEPT ![w]["NEW_TASK"] = Append(@, Head(ready[w]))]
      /\ ready' = [ready EXCEPT ![w] = Tail(@)]
      /\ step' = [step EXCEPT ![w] = IF Len(ready[w]) = 1 THEN "wait" ELSE "tasks"]
  BY Zenon DEF Pool, run_task, queues, sender, LoopStep
<1>2. ready[w] \in Seq(Msg) /\ Head(ready[w]) \in Msg /\ Tail(ready[w]) \in Seq(Msg)
      /\ (Len(ready[w]) # 1 => Tail(ready[w]) # <<>>)
  <2> DEFINE s == ready[w]
  <2>1. s \in Seq(Msg) /\ s # <<>>
    BY <1>1, Zenon DEF PoolTypes
  <2> HIDE DEF s, Inv
  <2>2. Head(s) \in Msg /\ Tail(s) \in Seq(Msg) /\ Len(Tail(s)) = Len(s) - 1 /\ Len(s) \in Nat
    BY <2>1
  <2>3. Len(s) # 1 => Tail(s) # <<>>
    <3>1. Len(s) # 1 => Len(Tail(s)) # 0
      BY <2>2
    <3>2. Len(<<>>) = 0
      BY Zenon
    <3> QED
      BY <3>1, <3>2, Zenon
  <2> QED
    BY <2>1, <2>2, <2>3, Zenon DEF s
<1>3. /\ handled' \in [Thread -> [Type -> Seq(Msg)]]
      /\ \A u \in Thread : handled'[u]["NEW_CONN"] = handled[u]["NEW_CONN"]
  <2>1. Append(handled[w]["NEW_TASK"], Head(ready[w])) \in Seq(Msg)
    BY <1>2 DEF PoolTypes, Type
  <2> QED
    BY <1>1, <2>1, Zenon DEF PoolTypes, Type
<1>4. /\ Thread' = Thread /\ ServerTypes' /\ OneMessage' /\ OneHolder' /\ Table'
      /\ \A u \in Thread : OwnWork(u)'
  BY <1>1, <1>3, MessagesSame, Zenon DEF Pend
<1>5. PoolTypes' /\ NoLostWakeup'
  BY <1>1, <1>2, <1>3, <1>4, Zenon DEF PoolTypes, NoLostWakeup
<1>6. ASSUME NEW u \in Thread PROVE LoopStep(u)'
  BY <1>1, <1>2, Zenon DEF PoolTypes, LoopStep, server
<1> QED
  BY <1>4, <1>5, <1>6, Zenon

\* When a thread has taken its first message, a descriptor still has one.
LEMMA OneMessageTaken ==
    ASSUME OneMessage, Thread' = Thread, NEW w \in Thread,
           \A u \in Thread, i \in Nat, fd \in Fd : Waits(u, i, fd) => i \in 1 .. Len(Pend(u)),
           \A u \in Thread, i \in Nat, fd \in Fd :
                Waits(u, i, fd)' <=> IF u = w THEN i > 0 /\ Waits(u, i + 1, fd)
                                     ELSE Waits(u, i, fd)
    PROVE  OneMessage'
<1> SUFFICES ASSUME NEW u \in Thread, NEW v \in Thread, NEW fd \in Fd,
                    NEW i \in Nat, NEW j \in Nat, Waits(u, i, fd)', Waits(v, j, fd)'
             PROVE u = v /\ i = j
  BY DEF OneMessage
<1> DEFINE at(x, k) == IF x = w THEN k + 1 ELSE k
<1>1. at(u, i) \in Nat /\ at(v, j) \in Nat
  OBVIOUS
<1>2. Waits(u, at(u, i), fd) /\ Waits(v, at(v, j), fd)
  BY Zenon
<1>3. at(u, i) \in 1 .. Len(Pend(u)) /\ at(v, j) \in 1 .. Len(Pend(v))
  <2> HIDE DEF at
  <2> QED
    BY <1>1, <1>2, Zenon
<1>4. u = v /\ at(u, i) = at(v, j)
  <2> HIDE DEF at
  <2> QED
    BY <1>2, <1>3, Zenon DEF OneMessage
<1> QED
  BY <1>4

\* Taking a task from the batch leaves the descriptors where they are.
LEMMA add_task_Inv ==
    ASSUME Inv, NEW w \in Thread, Pool(add_task(w)) PROVE Inv'
<1> USE DEF Inv
<1>1. /\ UNCHANGED <<thread_cnt, queue, evfd, handled, step, tasks>>
      /\ UNCHANGED <<used, accepted, main, work, listen_fds, conns, curr_conns, ub>>
      /\ next_msg(w, "NEW_TASK")
      /\ ready' = [ready EXCEPT ![w] = Append(@, Head(batch[w]))]
  BY Zenon DEF Pool, add_task, queues, sender, server
<1>2. /\ Thread' = Thread /\ step[w] = "deal" /\ batch' \in [Thread -> Seq(Msg)]
      /\ Head(batch[w]) \in Msg
      /\ \A u \in Thread, i \in Nat, fd \in Fd :
            Waits(u, i, fd)' <=> IF u = w THEN i > 0 /\ Waits(u, i + 1, fd)
                                 ELSE Waits(u, i, fd)
  BY <1>1, Taken, Zenon DEF Type
<1>3. \A u \in Thread : Ids(u)' = Ids(u)
  BY <1>1, Zenon DEF Ids
<1>4. PoolTypes' /\ NoLostWakeup'
  <2>1. ready' \in [Thread -> Seq(Msg)]
    BY <1>1, <1>2 DEF PoolTypes
  <2> QED
    BY <1>1, <1>2, <2>1, Zenon DEF PoolTypes, NoLostWakeup
<1>5. ASSUME NEW u \in Thread PROVE LoopStep(u)' /\ OwnWork(u)'
  <2>1. u # w => batch'[u] = batch[u] /\ ready'[u] = ready[u]
    BY <1>1, Zenon DEF PoolTypes, next_msg
  <2> QED
    BY <1>1, <1>2, <1>3, <2>1, Zenon DEF LoopStep, OwnWork
<1>6. ServerTypes' /\ Table'
  BY <1>1, <1>2, <1>3 DEF ServerTypes, Table, Entered, Runs
<1>7. \A u \in Thread, i \in Nat, fd \in Fd : Waits(u, i, fd) => i \in 1 .. Len(Pend(u))
  BY Zenon DEF Waits
<1>8. OneMessage'
  BY <1>2, <1>7, OneMessageTaken, Zenon
<1>9. OneHolder'
  <2>1. ASSUME NEW u \in Thread, NEW i \in Nat, NEW fd \in Fd, Waits(u, i, fd)'
        PROVE \E k \in 1 .. Len(Pend(u)) : Waits(u, k, fd)
    BY <1>2, <1>7, <2>1
  <2>2. main.step = "check" => main.fd \in Fd
    BY Zenon DEF OneHolder, ServerTypes
  <2>3. \A u \in Thread : \A fd \in listen_fds[u] :
            fd \in used /\ \A v \in Thread : v # u => fd \notin listen_fds[v]
    BY Zenon DEF OneHolder
  <2>4. ASSUME NEW u \in Thread, NEW i \in Nat, NEW fd \in Fd, Waits(u, i, fd)'
        PROVE fd \in used /\ \A v \in Thread : fd \notin listen_fds[v]
    BY <2>1, <2>4, Zenon DEF OneHolder
  <2>5. ASSUME NEW u \in Thread, NEW i \in Nat, main.step = "check"
        PROVE main.fd \notin listen_fds[u] /\ ~Waits(u, i, main.fd)'
    <3>1. main.fd \notin listen_fds[u] /\ \A k \in 1 .. Len(Pend(u)) : ~Waits(u, k, main.fd)
      BY <2>5, Zenon DEF OneHolder
    <3>2. main' = main
      BY <1>1, Zenon
    <3> QED
      BY <2>1, <2>2, <2>5, <3>1, <3>2, Zenon
  <2>6. main.step = "check" => main.fd \in used /\ main.conn \in Conn
    BY Zenon DEF OneHolder
  <2>7. \A u \in Thread : 1 .. Len(Pend(u))' \subseteq Nat
    OBVIOUS
  <2>8. ASSUME NEW u \in Thread', NEW fd \in Fd, NEW i \in 1 .. Len(Pend(u)'), Waits(u, i, fd)'
        PROVE fd \in used' /\ \A v \in Thread' : fd \notin listen_fds'[v]
    BY <1>1, <1>2, <2>4, <2>7, <2>8, Zenon
  <2>9. ASSUME main'.step = "check"
        PROVE /\ main'.fd \in used' /\ main'.conn \in Conn
              /\ \A u \in Thread' : main'.fd \notin listen_fds'[u]
                  /\ \A i \in 1 .. Len(Pend(u)') : ~Waits(u, i, main.fd)'
    BY <1>1, <1>2, <2>5, <2>6, <2>7, <2>9, Zenon
  <2>10. ASSUME NEW u \in Thread' PROVE \A fd \in listen_fds'[u] :
            fd \in used' /\ \A v \in Thread' : v # u => fd \notin listen_fds'[v]
    BY <1>1, <1>2, <2>3, <2>10, Zenon
  <2> QED
    BY <2>8, <2>9, <2>10, Zenon DEF OneHolder
<1> QED
  BY <1>2, <1>4, <1>5, <1>6, <1>8, <1>9, Zenon

\* A descriptor goes from the only message that has it to the loop of its
\* thread, which enters the connection next.
LEMMA new_conn_Inv ==
    ASSUME Inv, NEW w \in Thread, new_conn(w) PROVE Inv'
<1> USE DEF Inv
<1> DEFINE m == Head(batch[w])
<1>1. /\ UNCHANGED <<thread_cnt, queue, evfd, ready, step, tasks>>
      /\ UNCHANGED <<used, accepted, main, conns, curr_conns, ub>>
      /\ next_msg(w, "NEW_CONN") /\ Runs /\ work[w].step = "idle"
      /\ handled' = [handled EXCEPT ![w]["NEW_CONN"] = Append(@, m)]
      /\ listen_fds' = [listen_fds EXCEPT ![w] = @ \cup {m.fd}]
      /\ work' = [work EXCEPT ![w] = [step |-> "open", fd |-> m.fd, conn |-> m.id]]
  BY DEF new_conn, queues, sender, Idle
<1>2. /\ Thread' = Thread /\ step[w] = "deal" /\ batch' \in [Thread -> Seq(Msg)]
      /\ m \in Msg /\ m.type = "NEW_CONN" /\ Waits(w, 1, m.fd)
      /\ \A u \in Thread, i \in Nat, fd \in Fd :
            Waits(u, i, fd)' <=> IF u = w THEN i > 0 /\ Waits(u, i + 1, fd)
                                 ELSE Waits(u, i, fd)
  BY <1>1, Taken, Zenon DEF Type
<1>3. m.fd \in Fd /\ m.id \in Conn
  BY <1>2, Zenon DEF Msg
<1>f. PICK fd \in Fd : fd = m.fd
  BY <1>3, Zenon
<1>4. \A u \in Thread, i \in Nat, f \in Fd : Waits(u, i, f) => i \in 1 .. Len(Pend(u))
  BY Zenon DEF Waits
<1>5. /\ fd \in used /\ \A u \in Thread : fd \notin listen_fds[u]
      /\ main.step = "check" => main.fd # fd
  BY <1>2, <1>f, <1>4, ZenonT(60) DEF OneHolder
<1>6. \A u \in Thread, i \in Nat : ~Waits(u, i, fd)'
  <2> SUFFICES ASSUME NEW u \in Thread, NEW i \in Nat, Waits(u, i, fd)' PROVE FALSE
    BY Zenon
  <2>1. \E k \in Nat \ {1} : Waits(w, k, fd)
    <3>1. CASE u = w
      BY <1>2, <3>1
    <3>2. CASE u # w
      <4>1. Waits(u, i, fd) /\ Waits(w, 1, fd)
        BY <1>2, <1>f, <3>2, Zenon
      <4> QED
        BY <1>4, <3>2, <4>1, Zenon DEF OneMessage
    <3> QED
      BY <3>1, <3>2, Zenon
  <2> QED
    BY <1>2, <1>f, <1>4, <2>1 DEF OneMessage
<1>7. /\ handled' \in [Thread -> [Type -> Seq(Msg)]]
      /\ handled'[w]["NEW_CONN"] = Append(handled[w]["NEW_CONN"], m)
      /\ handled[w]["NEW_CONN"] \in Seq(Msg)
      /\ \A u \in Thread \ {w} : handled'[u] = handled[u]
  <2>1. handled[w]["NEW_CONN"] \in Seq(Msg) /\ Append(handled[w]["NEW_CONN"], m) \in Seq(Msg)
    BY <1>2 DEF PoolTypes, Type
  <2> QED
    BY <1>1, <2>1, Zenon DEF PoolTypes, Type
<1>8. Ids(w)' = Ids(w) \cup {m.id} /\ \A u \in Thread \ {w} : Ids(u)' = Ids(u)
  <2>1. Range(handled'[w]["NEW_CONN"]) = Range(handled[w]["NEW_CONN"]) \cup {m}
    BY <1>2, <1>7, RangeAppend, Zenon
  <2> QED
    BY <1>7, <2>1, Zenon DEF Ids
<1> HIDE DEF m
<1>9. /\ work'[w] = [step |-> "open", fd |-> fd, conn |-> m.id]
      /\ listen_fds'[w] = listen_fds[w] \cup {fd}
      /\ \A u \in Thread \ {w} : work'[u] = work[u] /\ listen_fds'[u] = listen_fds[u]
  BY <1>1, <1>f, Zenon DEF ServerTypes
<1>10. PoolTypes' /\ NoLostWakeup'
  BY <1>1, <1>2, <1>7, Zenon DEF PoolTypes, NoLostWakeup
<1>11. ServerTypes'
  <2>1. listen_fds' \in [Thread -> SUBSET Fd]
    BY <1>1, <1>3, <1>2, Zenon DEF ServerTypes
  <2>2. work' \in [Thread -> [step : {"idle", "open", "clean", "close"},
                              fd : Fd \cup {NoFd}, conn : Int]]
    <3>1. [step |-> "open", fd |-> m.fd, conn |-> m.id] \in
             [step : {"idle", "open", "clean", "close"}, fd : Fd \cup {NoFd}, conn : Int]
      BY <1>3, NoConn, Zenon
    <3> QED
      BY <1>1, <3>1, Zenon DEF ServerTypes
  <2> QED
    BY <1>1, <1>2, <2>1, <2>2, Zenon DEF ServerTypes
<1>12. ASSUME NEW u \in Thread PROVE LoopStep(u)' /\ OwnWork(u)'
  <2>1. u # w => batch'[u] = batch[u]
    BY <1>1, Zenon DEF PoolTypes, next_msg
  <2>2. LoopStep(u)'
    BY <1>1, <1>2, <1>9, <2>1, Zenon DEF LoopStep
  <2>3. OwnWork(u)'
    BY <1>3, <1>8, <1>9 DEF OwnWork
  <2> QED
    BY <2>2, <2>3, Zenon
<1>13. OneMessage'
  BY <1>2, <1>4, OneMessageTaken, Zenon
<1>14. OneHolder'
  <2>1. ASSUME NEW u \in Thread, NEW i \in Nat, NEW f \in Fd, Waits(u, i, f)'
        PROVE f # fd /\ \E k \in 1 .. Len(Pend(u)) : Waits(u, k, f)
    BY <1>2, <1>4, <1>6, <2>1
  <2>2. main.step = "check" => main.fd \in Fd
    BY ZenonT(60) DEF OneHolder, ServerTypes
  <2>3. ASSUME NEW u \in Thread, NEW f \in listen_fds'[u]
        PROVE f \in used /\ \A v \in Thread : v # u => f \notin listen_fds'[v]
    BY <1>5, <1>9 DEF OneHolder
  <2>4. ASSUME NEW u \in Thread, NEW f \in Fd, NEW i \in Nat, Waits(u, i, f)'
        PROVE f \in used /\ \A v \in Thread : f \notin listen_fds'[v]
    BY <1>9, <2>1, <2>4 DEF OneHolder
  <2>5. ASSUME main.step = "check"
        PROVE /\ main.fd \in used /\ main.conn \in Conn
              /\ \A u \in Thread : main.fd \notin listen_fds'[u]
              /\ \A u \in Thread, i \in Nat : ~Waits(u, i, main.fd)'
    BY <1>1, <1>5, <1>9, <2>1, <2>2, <2>5, ZenonT(60) DEF OneHolder
  <2> QED
    BY <1>1, <1>2, <2>3, <2>4, <2>5 DEF OneHolder
<1>15. Table'
  <2>1. ASSUME NEW f \in Fd, NEW u \in Thread
        PROVE /\ Entered(u, f)' <=> Entered(u, f)
              /\ Entered(u, f) => conns[f] \in Ids(u)'
    BY <1>1, <1>5, <1>8, <1>9 DEF Table, Entered
  <2> QED
    BY <1>1, <1>2, <2>1, Zenon DEF Table
<1> QED
  BY <1>2, <1>10, <1>11, <1>12, <1>13, <1>14, <1>15, ZenonT(60)

-----------------------------------------------------------------------------
(* Steps that rest on facts about finite sets                              *)

\* The kernel's lowest free descriptor is a free one, when there is one.
LEMMA LowestFree == Free # {} => Min(Free) \in Free
<1> SUFFICES ASSUME Free # {} PROVE Min(Free) \in Free
  BY Zenon
<1>1. Free \subseteq Nat
  BY ServerAssumption DEF Free, Fd
<1> DEFINE less == {p \in Nat \X Nat : p[1] < p[2]}
<1>2. IsWellFoundedOn(less, Nat)
  BY NatLessThanWellFounded, Zenon DEF OpToRel
<1>3. \E x \in Free : \A y \in Free : ~(<<y, x>> \in less)
  <2> HIDE DEF less
  <2> QED
    BY <1>1, <1>2, WFMin, Zenon
<1>4. PICK x \in Free : \A y \in Free : ~(<<y, x>> \in less)
  BY <1>3, Zenon
<1>5. ASSUME NEW y \in Free PROVE x <= y
  <2>1. x \in Nat /\ y \in Nat /\ <<y, x>> \notin less
    BY <1>1, <1>4, Zenon
  <2> QED
    BY <2>1
<1> QED
  BY <1>5, Zenon DEF Min

\* The connections of the table can be counted.
LEMMA FiniteFds == \A T \in SUBSET Fd : IsFiniteSet(T)
<1>1. IsFiniteSet(Fd)
  BY ServerAssumption, FS_Interval DEF Fd
<1> QED
  BY <1>1, FS_Subset, Zenon

\* The descriptor the kernel gives out is held by nobody.
LEMMA accept_Inv ==
    ASSUME Inv, accept PROVE Inv'
<1> USE DEF Inv
<1>s. UNCHANGED pool
  BY Zenon DEF accept
<1>p. Thread' = Thread /\ \A v : Pend(v)' = Pend(v) /\ Ids(v)' = Ids(v)
  BY <1>s, PoolSame, Zenon
<1>f. /\ Min(Free) \in Fd /\ Min(Free) \notin used
      /\ accepted + 1 \in Conn /\ accepted + 1 \in Nat
  <2>1. Min(Free) \in Free
    BY LowestFree, Zenon DEF accept
  <2>2. accepted \in Nat /\ accepted < MaxConns
    BY Zenon DEF accept, ServerTypes
  <2> QED
    BY <2>1, <2>2, ServerAssumption DEF Free, Conn
<1>1. PoolTypes' /\ NoLostWakeup' /\ OneMessage'
  BY <1>s, PoolSame, Zenon
<1>2. ServerTypes'
  BY <1>f, <1>p, Zenon DEF ServerTypes, accept, Idle
<1>3. ASSUME NEW u \in Thread PROVE LoopStep(u)'
  BY <1>s, <1>p, Zenon DEF LoopStep, ServerTypes, Idle, accept, pool, loops
<1>4. ASSUME NEW u \in Thread PROVE OwnWork(u)'
  BY <1>s, <1>p, ZenonT(60) DEF OwnWork, ServerTypes, Idle, accept
<1>5. OneHolder'
  <2>1. /\ used' = used \cup {Min(Free)} /\ listen_fds' = listen_fds
        /\ main' = [step |-> "check", fd |-> Min(Free), conn |-> accepted + 1]
    BY Zenon DEF accept
  <2>2. main'.fd = Min(Free) /\ main'.conn = accepted + 1
    BY <2>1
  <2>3. \A u, i, fd : Waits(u, i, fd)' <=> Waits(u, i, fd)
    BY <1>p, Zenon DEF Waits
  <2>4. \A u, i : Waits(u, i, main.fd)' <=> Waits(u, i, Min(Free))
    BY <1>p, <2>2, Zenon DEF Waits
  <2>5. ASSUME NEW u \in Thread' PROVE \A fd \in listen_fds'[u] :
            fd \in used' /\ \A v \in Thread' : v # u => fd \notin listen_fds'[v]
    BY <1>p, <2>1, <2>5, Zenon DEF OneHolder
  <2>6. ASSUME NEW u \in Thread', NEW fd \in Fd, NEW i \in 1 .. Len(Pend(u)'), Waits(u, i, fd)'
        PROVE fd \in used' /\ \A v \in Thread' : fd \notin listen_fds'[v]
    <3>1. u \in Thread /\ i \in 1 .. Len(Pend(u)) /\ Waits(u, i, fd)
      BY <1>p, <2>3, <2>6, Zenon
    <3> QED
      BY <1>p, <2>1, <3>1, Zenon DEF OneHolder
  <2>7. ASSUME NEW u \in Thread
        PROVE /\ Min(Free) \notin listen_fds[u]
              /\ \A i \in 1 .. Len(Pend(u)) : ~Waits(u, i, Min(Free))
    BY <1>f, <2>7, Zenon DEF OneHolder
  <2>8. /\ main'.fd \in used' /\ main'.conn \in Conn
        /\ \A u \in Thread' : main'.fd \notin listen_fds'[u]
            /\ \A i \in 1 .. Len(Pend(u)') : ~Waits(u, i, main.fd)'
    BY <1>f, <1>p, <2>1, <2>2, <2>4, <2>7, Zenon
  <2> QED
    BY <2>5, <2>6, <2>8, Zenon DEF OneHolder
<1>6. Table'
  BY <1>s, <1>p, ZenonT(60) DEF Table, Entered, OwnWork, ServerTypes, OneHolder, Runs, Idle, accept
<1> QED
  BY <1>p, <1>1, <1>2, <1>3, <1>4, <1>5, <1>6, Zenon

\* A connection is counted once, when its thread enters it.
LEMMA increase_conn_Inv ==
    ASSUME Inv, NEW w \in Thread, increase_conn(w) PROVE Inv'
<1> USE DEF Inv
<1>s. UNCHANGED pool
  BY Zenon DEF increase_conn
<1>p. Thread' = Thread /\ \A v : Pend(v)' = Pend(v) /\ Ids(v)' = Ids(v)
  BY <1>s, PoolSame, Zenon
<1>1. PoolTypes' /\ NoLostWakeup' /\ OneMessage'
  BY <1>s, PoolSame, Zenon
<1>2. ServerTypes'
  BY <1>s, <1>p, NoConn DEF ServerTypes, Idle, increase_conn
<1>3. ASSUME NEW u \in Thread PROVE LoopStep(u)'
  BY <1>s, <1>p, Zenon DEF LoopStep, ServerTypes, Idle, increase_conn, pool, loops
<1>4. ASSUME NEW u \in Thread PROVE OwnWork(u)'
  BY <1>s, <1>p, ZenonT(60) DEF OwnWork, ServerTypes, Idle, increase_conn
<1>5. OneHolder'
  <2>1. used' = used /\ listen_fds' = listen_fds /\ main' = main
    BY Zenon DEF increase_conn
  <2> QED
    BY <1>p, <2>1, HolderSame, Zenon
<1>6. Table'
  <2> DEFINE fd == work[w].fd
             S == {f \in Fd : conns[f] \in Conn}
  <2>1. /\ fd \in Fd /\ fd \in listen_fds[w] /\ Runs
        /\ work[w].step = "open" /\ work[w].conn \in Conn /\ work[w].conn \in Ids(w)
        /\ work'[w].step = "idle" /\ (\A v \in Thread \ {w} : work'[v] = work[v])
        /\ listen_fds' = listen_fds
    BY ZenonT(60) DEF ServerTypes, OwnWork, increase_conn, Idle
  <2>2. conns[fd] \notin Conn
    BY <2>1 DEF Table, Entered, OneHolder
  <2>3. CASE InTable(fd)
    <3>1. /\ conns' = [conns EXCEPT ![fd] = work[w].conn]
          /\ curr_conns' = curr_conns + 1 /\ ub' = ub
      BY <2>3, ZenonT(60) DEF increase_conn
    <3>2. {f \in Fd : conns'[f] \in Conn} = S \cup {fd} /\ fd \notin S
      BY <2>1, <2>2, <3>1 DEF ServerTypes
    <3>3. Cardinality(S \cup {fd}) = Cardinality(S) + 1
      <4> HIDE DEF S, fd
      <4>1. IsFiniteSet(S)
        BY FiniteFds, Zenon DEF S
      <4> QED
        BY <3>2, <4>1, FS_AddElement, Zenon
    <3>4. ASSUME NEW f \in Fd
          PROVE /\ conns'[f] \in Conn => \E v \in Thread : Entered(v, f)'
                /\ \A v \in Thread : Entered(v, f)' => conns'[f] \in Ids(v)
      <4>1. CASE f = fd
        BY <2>1, <3>1, <4>1, ZenonT(60) DEF ServerTypes, Entered, OneHolder
      <4>2. CASE f # fd
        BY <2>1, <3>1, <4>2 DEF ServerTypes, Entered, Table
      <4> QED
        BY <4>1, <4>2, Zenon
    <3> QED
      BY <1>p, <3>1, <3>2, <3>3, <3>4, Zenon DEF Table
  <2>4. CASE ~InTable(fd)
    BY <2>4, <1>p, Zenon DEF Table, Runs, increase_conn
  <2> QED
    BY <2>3, <2>4, Zenon
<1> QED
  BY <1>p, <1>1, <1>2, <1>3, <1>4, <1>5, <1>6, Zenon

\* A connection that is cleaned was in the table.
LEMMA decrease_conn_Inv ==
    ASSUME Inv, NEW w \in Thread, decrease_conn(w) PROVE Inv'
<1> USE DEF Inv
<1>s. UNCHANGED pool
  BY Zenon DEF decrease_conn
<1>p. Thread' = Thread /\ \A v : Pend(v)' = Pend(v) /\ Ids(v)' = Ids(v)
  BY <1>s, PoolSame, Zenon
<1>1. PoolTypes' /\ NoLostWakeup' /\ OneMessage'
  BY <1>s, PoolSame, Zenon
<1>2. ServerTypes'
  <2>1. [step |-> "close", fd |-> work[w].fd, conn |-> work[w].conn] \in
             [step : {"idle", "open", "clean", "close"}, fd : Fd \cup {NoFd}, conn : Int]
    BY Zenon DEF ServerTypes
  <2>2. work' \in [Thread -> [step : {"idle", "open", "clean", "close"},
                              fd : Fd \cup {NoFd}, conn : Int]]
    BY <2>1, Zenon DEF ServerTypes, decrease_conn
  <2>3. conns' \in [Fd -> Int] /\ curr_conns' \in Int
    <3>1. conns \in [Fd -> Int] /\ curr_conns \in Int
      BY Zenon DEF ServerTypes
    <3>2. conns' = [conns EXCEPT ![work[w].fd] = NULL] /\ curr_conns' = curr_conns - 1
      BY Zenon DEF decrease_conn
    <3>3. curr_conns' \in Int
      BY <3>1, <3>2
    <3>4. \A f \in Fd : conns'[f] \in Int
      BY <3>1, <3>2 DEF NULL
    <3> QED
      BY <3>1, <3>2, <3>3, <3>4, Zenon
  <2> QED
    BY <2>2, <2>3, <1>p, Zenon DEF ServerTypes, decrease_conn
<1>3. ASSUME NEW u \in Thread PROVE LoopStep(u)'
  BY <1>s, <1>p, Zenon DEF LoopStep, ServerTypes, Idle, decrease_conn, pool, loops
<1>4. ASSUME NEW u \in Thread PROVE OwnWork(u)'
  BY <1>s, <1>p, Zenon DEF OwnWork, ServerTypes, Idle, decrease_conn
<1>5. OneHolder'
  <2>1. used' = used /\ listen_fds' = listen_fds /\ main' = main
    BY Zenon DEF decrease_conn
  <2> QED
    BY <1>p, <2>1, HolderSame, Zenon
<1>6. Table'
  <2> DEFINE fd == work[w].fd
             S == {f \in Fd : conns[f] \in Conn}
  <2>1. /\ fd \in Fd /\ fd \in listen_fds[w] /\ Runs /\ work[w].step = "clean"
        /\ work'[w].step = "close" /\ work'[w].fd = fd
        /\ \A v \in Thread \ {w} : work'[v] = work[v]
        /\ conns' = [conns EXCEPT ![fd] = NULL] /\ curr_conns' = curr_conns - 1
        /\ listen_fds' = listen_fds /\ ub' = ub
    BY Zenon DEF ServerTypes, OwnWork, decrease_conn
  <2>2. conns[fd] \in Conn
    BY <2>1, Zenon DEF Table, Entered, OwnWork
  <2>3. {f \in Fd : conns'[f] \in Conn} = S \ {fd} /\ fd \in S
    BY <2>1, <2>2, NoConn, Zenon DEF ServerTypes
  <2>4. Cardinality(S \ {fd}) = Cardinality(S) - 1
    <3> HIDE DEF S, fd
    <3>1. IsFiniteSet(S)
      BY FiniteFds, Zenon DEF S
    <3> QED
      BY <2>3, <3>1, FS_RemoveElement, Zenon
  <2>5. ASSUME NEW f \in Fd
        PROVE /\ conns'[f] \in Conn => \E v \in Thread : Entered(v, f)'
              /\ \A v \in Thread : Entered(v, f)' => conns'[f] \in Ids(v)
    <3>1. CASE f = fd
      BY <2>1, <3>1, NoConn, Zenon DEF ServerTypes, Entered, OneHolder
    <3>2. CASE f # fd
      <4>1. conns'[f] = conns[f]
        BY <2>1, <3>2, Zenon DEF ServerTypes
      <4>2. \A v \in Thread : Entered(v, f)' <=> Entered(v, f)
        BY <2>1, <3>2, Zenon DEF Entered
      <4> QED
        BY <2>1, <4>1, <4>2, Zenon DEF Table
    <3> QED
      BY <3>1, <3>2, Zenon
  <2>6. curr_conns' = Cardinality({f \in Fd : conns'[f] \in Conn})
    BY <2>1, <2>3, <2>4, Zenon DEF Table
  <2> QED
    BY <1>p, <2>5, <2>6, Zenon DEF Table
<1> QED
  BY <1>p, <1>1, <1>2, <1>3, <1>4, <1>5, <1>6, Zenon

\* A server starts with empty queues, no connection and an empty table.
LEMMA InitInv == Init => Inv
<1> SUFFICES ASSUME Init PROVE Inv
  BY Zenon
<1>1. PoolTypes /\ NoLostWakeup
  BY DEF Init, PoolInit, PoolTypes, NoLostWakeup
<1>2. ServerTypes
  BY NoConn DEF Init, ServerTypes, Idle
<1>3. \A w \in Thread : Pend(w) = <<>> /\ Len(Pend(w)) = 0
  BY PendSwap DEF Init, PoolInit, Pend
<1>4. OneMessage /\ OneHolder
  BY <1>3 DEF Init, OneMessage, OneHolder, Idle
<1>5. ASSUME NEW w \in Thread PROVE LoopStep(w) /\ OwnWork(w)
  <2>1. Ids(w) = {}
    BY DEF Init, PoolInit, Ids, Range, Type
  <2> QED
    BY <2>1, ZenonT(60) DEF Init, PoolInit, LoopStep, OwnWork, Idle
<1>6. Table
  <2>1. {fd \in Fd : conns[fd] \in Conn} = {}
    BY NoConn, Zenon DEF Init
  <2>2. \A fd \in Fd, w \in Thread : ~Entered(w, fd)
    BY Zenon DEF Init, Entered
  <2>3. Cardinality({}) = 0
    BY FS_EmptySet, Zenon
  <2> QED
    BY <2>1, <2>2, <2>3, NoConn, Zenon DEF Init, Table
<1> QED
  BY <1>1, <1>2, <1>4, <1>5, <1>6, Zenon DEF Inv

\* Every step of the accepting thread, of a sender of tasks and of a worker
\* preserves the invariant.
LEMMA NextInv == Inv /\ [Next]_vars => Inv'
<1> SUFFICES ASSUME Inv, [Next]_vars PROVE Inv'
  BY Zenon
<1>1. CASE accept
  BY <1>1, accept_Inv, Zenon
<1>2. CASE refuse
  BY <1>2, refuse_Inv, Zenon
<1>3. CASE hand_over
  BY <1>3, hand_over_Inv, Zenon
<1>4. CASE Pool(send_task)
  BY <1>4, send_task_Inv, Zenon
<1>5. ASSUME NEW w \in Thread, Pool(thread_main(w)) PROVE Inv'
  BY <1>5, thread_main_Inv, Zenon
<1>6. ASSUME NEW w \in Thread, process(w) PROVE Inv'
  <2>1. work[w] = Idle /\ (\/ Pool(deal_task(w)) \/ Pool(add_task(w))
                           \/ Pool(events_end(w)) \/ Pool(run_task(w)))
    BY <1>6, Zenon DEF process, pool_process, Pool
  <2> QED
    BY <2>1, deal_task_Inv, add_task_Inv, events_end_Inv, run_task_Inv, Zenon
<1>7. ASSUME NEW w \in Thread, new_conn(w) PROVE Inv'
  BY <1>7, new_conn_Inv, Zenon
<1>8. ASSUME NEW w \in Thread, increase_conn(w) PROVE Inv'
  BY <1>8, increase_conn_Inv, Zenon
<1>9. ASSUME NEW w \in Thread, NEW fd \in Fd, clean_conn(w, fd) PROVE Inv'
  BY <1>9, clean_conn_Inv, Zenon
<1>10. ASSUME NEW w \in Thread, decrease_conn(w) PROVE Inv'
  BY <1>10, decrease_conn_Inv, Zenon
<1>11. ASSUME NEW w \in Thread, close(w) PROVE Inv'
  BY <1>11, close_Inv, Zenon
<1>12. CASE UNCHANGED vars
  <2>1. UNCHANGED pool /\ UNCHANGED <<thread_cnt, server>>
    BY <1>12, Zenon DEF vars, pool
  <2>2. /\ Thread' = Thread /\ PoolTypes' /\ NoLostWakeup' /\ OneMessage'
        /\ \A w : Pend(w)' = Pend(w) /\ Ids(w)' = Ids(w)
    BY <2>1, PoolSame, Zenon
  <2>3. \A w \in Thread : handled'[w]["NEW_CONN"] = handled[w]["NEW_CONN"]
    BY <2>1, Zenon DEF pool, loops
  <2>4. ServerTypes' /\ OneHolder' /\ Table' /\ \A w \in Thread : OwnWork(w)'
    BY <2>1, <2>2, <2>3, MessagesSame, Zenon
  <2>5. \A w \in Thread : LoopStep(w)'
    BY <2>1, Zenon DEF Inv, LoopStep, pool, loops, server
  <2> QED
    BY <2>2, <2>4, <2>5, Zenon DEF Inv
<1> QED
  BY <1>1, <1>2, <1>3, <1>4, <1>5, <1>6, <1>7, <1>8, <1>9, <1>10, <1>11, <1>12, Zenon
     DEF Next, serve

\* The wakeup of a waiting message is never lost, for any number of threads
\* and messages (thread_queue.h:33-70).
THEOREM Wakeup == Spec => []NoLostWakeup
<1>1. Inv => NoLostWakeup
  BY Zenon DEF Inv
<1> QED
  BY <1>1, InitInv, NextInv, PTL DEF Spec

\* No two threads serve the same descriptor, and no message names one that is
\* free or served, however often the kernel hands the numbers out again
\* (tcp_conn.cpp:188-206, tcp_server.cpp:259-343).
THEOREM Owner == Spec => []OneOwner
<1>1. Inv => OneOwner
  <2> SUFFICES ASSUME Inv PROVE OneOwner
    BY Zenon
  <2> USE DEF Inv
  <2>1. ASSUME NEW w \in Thread, NEW m \in Range(batch[w] \o queue[w]), m.type = "NEW_CONN",
               NEW v \in Thread
        PROVE m.fd \in used \ listen_fds[v]
    <3>1. Pend(w) \in Seq(Msg)
      BY DEF PoolTypes, Pend
    <3>2. PICK i \in 1 .. Len(Pend(w)) : m = Pend(w)[i]
      <4>1. DOMAIN Pend(w) = 1 .. Len(Pend(w))
        BY <3>1
      <4> QED
        BY <4>1, Zenon DEF Range, Pend
    <3>3. m \in Msg /\ m.fd \in Fd
      BY <2>1, <3>1, <3>2 DEF Msg
    <3>4. Waits(w, i, m.fd)
      BY <2>1, <3>2, Zenon DEF Waits
    <3> QED
      BY <3>3, <3>4, Zenon DEF OneHolder
  <2>2. ASSUME NEW w \in Thread
        PROVE /\ listen_fds[w] \subseteq used
              /\ \A v \in Thread : w # v => listen_fds[w] \cap listen_fds[v] = {}
    BY Zenon DEF OneHolder
  <2> QED
    BY <2>1, <2>2, Zenon DEF OneOwner
<1> QED
  BY <1>1, InitInv, NextInv, PTL DEF Spec

\* The count that do_accept compares with the limit is that of the table, and
\* a task finds in it the connection of every descriptor its loop listens to,
\* although it reads it without the lock
\* (tcp_server.cpp:38-67, subscribe.cpp:84, 129).
THEOREM TableOfConns == Spec => []TableInStep
<1>1. Inv => TableInStep
  <2> SUFFICES ASSUME Inv PROVE TableInStep
    BY Zenon
  <2>1. ASSUME Runs, NEW w \in Thread, step[w] = "tasks", NEW fd \in listen_fds[w]
        PROVE conns[fd] \in Ids(w)
    <3>1. fd \in Fd /\ Entered(w, fd)
      BY <2>1, Zenon DEF Inv, ServerTypes, LoopStep, Entered
    <3> QED
      BY <2>1, <3>1, Zenon DEF Inv, Table
  <2> QED
    BY <2>1, Zenon DEF Inv, TableInStep, Table, Ids
<1> QED
  BY <1>1, InitInv, NextInv, PTL DEF Spec

-----------------------------------------------------------------------------
(* Messages are handled once and in order                                  *)

\* No connection waits among the tasks.
Order(w) ==
    /\ OfType(ready[w], "NEW_CONN") = <<>>
    /\ \A type \in Type : InOrder(handled[w][type], ready[w], batch[w], queue[w], sent[w], type)
OrderInv == sent \in [Thread -> Seq(Msg)] /\ \A w \in Thread : Order(w)

\* What the messages of a thread are.
LEMMA Messages ==
    ASSUME Inv, OrderInv, NEW w \in Thread
    PROVE  /\ queue[w] \in Seq(Msg) /\ batch[w] \in Seq(Msg) /\ ready[w] \in Seq(Msg)
           /\ sent[w] \in Seq(Msg) /\ \A type \in Type : handled[w][type] \in Seq(Msg)
BY Zenon DEF Inv, PoolTypes, OrderInv

\* A thread whose messages stay where they are.
LEMMA Rests ==
    ASSUME OrderInv, NEW w \in Thread, ready'[w] = ready[w], batch'[w] = batch[w],
           queue'[w] = queue[w], sent'[w] = sent[w], handled'[w] = handled[w]
    PROVE  Order(w)'
BY Zenon DEF OrderInv, Order

\* A message is sent to a thread.
LEMMA send_Order ==
    ASSUME Inv, OrderInv, NEW t, NEW m \in Msg, send(t, m), UNCHANGED <<thread_cnt, loops>>
    PROVE  OrderInv'
<1>1. Thread' = Thread /\ UNCHANGED <<ready, batch, handled>>
  BY Zenon DEF Thread, loops
<1>2. sent \in [Thread -> Seq(Msg)] /\ queue \in [Thread -> Seq(Msg)]
  BY Zenon DEF OrderInv, Inv, PoolTypes
<1>3. \A w \in Thread : Append(sent[w], m) \in Seq(Msg)
  BY <1>2
<1>4. sent' \in [Thread -> Seq(Msg)]
  BY <1>2, <1>3, Zenon DEF send
<1>5. ASSUME NEW w \in Thread, w = t PROVE Order(w)'
  <2>1. queue'[w] = Append(queue[w], m) /\ sent'[w] = Append(sent[w], m)
    BY <1>2, <1>5, Zenon DEF send
  <2>2. ASSUME NEW type \in Type
        PROVE  InOrder(handled[w][type], ready[w], batch[w], queue'[w], sent'[w], type)
    <3>1. InOrder(handled[w][type], ready[w], batch[w], queue[w], sent[w], type)
      BY Zenon DEF OrderInv, Order
    <3>2. InOrder(handled[w][type], ready[w], batch[w], Append(queue[w], m), Append(sent[w], m), type)
      BY <3>1, Messages, SendOrder, Zenon
    <3> QED
      BY <2>1, <3>2, Zenon
  <2> QED
    BY <1>1, <2>2, Zenon DEF Order, OrderInv
<1>6. ASSUME NEW w \in Thread, w # t PROVE Order(w)'
  <2>1. queue'[w] = queue[w] /\ sent'[w] = sent[w]
    BY <1>2, <1>6, Zenon DEF send
  <2> QED
    BY <1>1, <2>1, Rests, Zenon
<1> QED
  BY <1>1, <1>4, <1>5, <1>6, Zenon DEF OrderInv

\* A thread takes its queue, or the next message of its batch.
LEMMA deal_task_Order ==
    ASSUME Inv, OrderInv, NEW t \in Thread, deal_task(t) PROVE OrderInv'
<1>1. /\ Thread' = Thread /\ UNCHANGED <<ready, handled, sent>> /\ step[t] = "wait"
      /\ batch' = [batch EXCEPT ![t] = queue[t]] /\ queue' = [queue EXCEPT ![t] = <<>>]
  BY Zenon DEF Thread, deal_task, recv
<1>2. "wait" # "deal"
  OBVIOUS
<1>3. batch[t] = <<>> /\ batch \in [Thread -> Seq(Msg)] /\ queue \in [Thread -> Seq(Msg)]
  BY <1>1, <1>2, Zenon DEF Inv, LoopStep, PoolTypes
<1>4. Order(t)'
  <2>1. batch'[t] = queue[t] /\ queue'[t] = <<>>
    BY <1>1, <1>3, Zenon
  <2>2. ASSUME NEW type \in Type
        PROVE  InOrder(handled[t][type], ready[t], queue[t], <<>>, sent[t], type)
    <3>1. InOrder(handled[t][type], ready[t], batch[t], queue[t], sent[t], type)
      BY Zenon DEF OrderInv, Order
    <3> QED
      BY <1>3, <3>1, Messages, MoveOrder, Zenon
  <2> QED
    BY <1>1, <2>1, <2>2, Zenon DEF Order, OrderInv
<1>5. ASSUME NEW w \in Thread, w # t PROVE Order(w)'
  <2>1. queue'[w] = queue[w] /\ batch'[w] = batch[w]
    BY <1>1, <1>3, <1>5, Zenon
  <2> QED
    BY <1>1, <2>1, Rests, Zenon
<1> QED
  BY <1>1, <1>4, <1>5, Zenon DEF OrderInv

\* A task joins the ready ones.
LEMMA add_task_Order ==
    ASSUME Inv, OrderInv, NEW t \in Thread, add_task(t) PROVE OrderInv'
<1> DEFINE m == Head(batch[t])
<1>1. /\ Thread' = Thread /\ UNCHANGED <<queue, handled, sent>>
      /\ batch[t] # <<>> /\ m.type = "NEW_TASK"
      /\ batch' = [batch EXCEPT ![t] = Tail(@)] /\ ready' = [ready EXCEPT ![t] = Append(@, m)]
  BY Zenon DEF Thread, add_task, next_msg, queues
<1>2. batch \in [Thread -> Seq(Msg)] /\ ready \in [Thread -> Seq(Msg)]
  BY Zenon DEF Inv, PoolTypes
<1>3. Order(t)'
  <2>1. batch'[t] = Tail(batch[t]) /\ ready'[t] = Append(ready[t], m)
    BY <1>1, <1>2, Zenon
  <2>2. ASSUME NEW type \in Type
        PROVE  InOrder(handled[t][type], Append(ready[t], m), Tail(batch[t]), queue[t], sent[t], type)
    <3>1. InOrder(handled[t][type], ready[t], batch[t], queue[t], sent[t], type)
      BY Zenon DEF OrderInv, Order
    <3> QED
      BY <1>1, <3>1, Messages, MoveOrder, Zenon
  <2>3. OfType(Append(ready[t], m), "NEW_CONN") = <<>>
    <3>1. m \in Msg /\ ready[t] \in Seq(Msg)
      BY <1>1, <1>2
    <3>2. "NEW_CONN" \in Type /\ "NEW_CONN" # "NEW_TASK" /\ <<>> \o <<>> = <<>>
      BY DEF Type
    <3>3. One(m, "NEW_CONN") = <<>>
      BY <1>1, <3>2, Zenon DEF One
    <3>4. OfType(ready[t], "NEW_CONN") = <<>>
      BY Zenon DEF OrderInv, Order
    <3> HIDE DEF m
    <3> QED
      BY <3>1, <3>2, <3>3, <3>4, OfTypeAppend, Zenon
  <2> QED
    BY <1>1, <2>1, <2>2, <2>3, Zenon DEF Order
<1>4. ASSUME NEW w \in Thread, w # t PROVE Order(w)'
  <2>1. batch'[w] = batch[w] /\ ready'[w] = ready[w]
    BY <1>1, <1>2, <1>4, Zenon
  <2> QED
    BY <1>1, <2>1, Rests, Zenon
<1> QED
  BY <1>1, <1>3, <1>4, Zenon DEF OrderInv

\* A connection is made.
LEMMA new_conn_Order ==
    ASSUME Inv, OrderInv, NEW t \in Thread, new_conn(t) PROVE OrderInv'
<1> DEFINE m == Head(batch[t])
<1>1. /\ Thread' = Thread /\ UNCHANGED <<queue, ready, sent>>
      /\ batch[t] # <<>> /\ m.type = "NEW_CONN"
      /\ batch' = [batch EXCEPT ![t] = Tail(@)]
      /\ handled' = [handled EXCEPT ![t]["NEW_CONN"] = Append(@, m)]
  BY Zenon DEF Thread, new_conn, next_msg, queues
<1>2. batch \in [Thread -> Seq(Msg)] /\ handled \in [Thread -> [Type -> Seq(Msg)]]
  BY Zenon DEF Inv, PoolTypes
<1>3. Order(t)'
  <2>1. /\ batch'[t] = Tail(batch[t]) /\ handled'[t]["NEW_TASK"] = handled[t]["NEW_TASK"]
        /\ handled'[t]["NEW_CONN"] = Append(handled[t]["NEW_CONN"], m)
    <3>1. "NEW_CONN" \in Type /\ "NEW_TASK" \in Type /\ "NEW_CONN" # "NEW_TASK"
      BY DEF Type
    <3> QED
      BY <1>1, <1>2, <3>1, Zenon
  <2>2. ASSUME NEW type \in Type
        PROVE  InOrder(handled[t][type] \o One(m, type), ready[t], Tail(batch[t]), queue[t], sent[t], type)
    <3>1. InOrder(handled[t][type], ready[t], batch[t], queue[t], sent[t], type)
      BY Zenon DEF OrderInv, Order
    <3>2. type = "NEW_CONN" \/ (type = "NEW_TASK" /\ type # m.type)
      BY <1>1 DEF Type
    <3>3. OfType(ready[t], type) = <<>> \/ One(m, type) = <<>>
      BY <3>2, Zenon DEF OrderInv, Order, One
    <3> QED
      BY <1>1, <3>1, <3>3, Messages, HandleOrder, Zenon
  <2>3. ASSUME NEW type \in Type PROVE handled'[t][type] = handled[t][type] \o One(m, type)
    <3>1. \A h \in Seq(Msg) : Append(h, m) = h \o <<m>> /\ h \o <<>> = h
      OBVIOUS
    <3>2. type = "NEW_CONN" \/ (type = "NEW_TASK" /\ type # m.type)
      BY <1>1 DEF Type
    <3>3. handled[t][type] \in Seq(Msg)
      BY <1>2, Zenon
    <3> QED
      BY <1>1, <2>1, <3>1, <3>2, <3>3, Zenon DEF One
  <2> QED
    BY <1>1, <2>1, <2>2, <2>3, Zenon DEF Order, OrderInv
<1>4. ASSUME NEW w \in Thread, w # t PROVE Order(w)'
  <2>1. batch'[w] = batch[w] /\ handled'[w] = handled[w]
    BY <1>1, <1>2, <1>4, Zenon
  <2> QED
    BY <1>1, <2>1, Rests, Zenon
<1> QED
  BY <1>1, <1>3, <1>4, Zenon DEF OrderInv

\* A task is run.
LEMMA run_task_Order ==
    ASSUME Inv, OrderInv, NEW t \in Thread, run_task(t) PROVE OrderInv'
<1> DEFINE m == Head(ready[t])
<1>1. /\ Thread' = Thread /\ UNCHANGED <<queue, batch, sent>> /\ step[t] = "tasks"
      /\ ready' = [ready EXCEPT ![t] = Tail(@)]
      /\ handled' = [handled EXCEPT ![t]["NEW_TASK"] = Append(@, m)]
  BY Zenon DEF Thread, run_task, queues
<1>2. ready \in [Thread -> Seq(Msg)] /\ handled \in [Thread -> [Type -> Seq(Msg)]] /\ ready[t] # <<>>
  BY <1>1, Zenon DEF Inv, PoolTypes, LoopStep
<1>3. "NEW_CONN" \in Type /\ "NEW_TASK" \in Type /\ "NEW_CONN" # "NEW_TASK"
  BY DEF Type
<1>4. One(m, "NEW_CONN") = <<>> /\ OfType(Tail(ready[t]), "NEW_CONN") = <<>> /\ m \in Msg
  <2> DEFINE o == One(m, "NEW_CONN")
             r == OfType(Tail(ready[t]), "NEW_CONN")
  <2>1. m \in Msg /\ Tail(ready[t]) \in Seq(Msg) /\ OfType(ready[t], "NEW_CONN") = o \o r
    BY <1>2, <1>3, FirstOf, Zenon
  <2>2. o \in Seq(Msg) /\ r \in Seq(Msg) /\ o \o r = <<>>
    BY <1>3, <2>1, OneIsSeq, OfTypeSeq, Zenon DEF OrderInv, Order
  <2> HIDE DEF o, r
  <2>3. o = <<>> /\ r = <<>>
    BY <2>2
  <2> QED
    BY <2>1, <2>3, Zenon DEF o, r
<1>5. m.type = "NEW_TASK"
  <2>1. <<m>> # <<>>
    OBVIOUS
  <2>2. m.type # "NEW_CONN"
    BY <1>4, <2>1, Zenon DEF One
  <2> QED
    BY <1>4, <2>2 DEF Msg
<1>6. Order(t)'
  <2>1. /\ ready'[t] = Tail(ready[t]) /\ handled'[t]["NEW_CONN"] = handled[t]["NEW_CONN"]
        /\ handled'[t]["NEW_TASK"] = Append(handled[t]["NEW_TASK"], m)
    BY <1>1, <1>2, <1>3, Zenon
  <2>2. ASSUME NEW type \in Type
        PROVE  InOrder(handled[t][type] \o One(m, type), Tail(ready[t]), batch[t], queue[t], sent[t], type)
    <3>1. InOrder(handled[t][type], ready[t], batch[t], queue[t], sent[t], type)
      BY Zenon DEF OrderInv, Order
    <3> QED
      BY <1>2, <3>1, Messages, RunOrder, Zenon
  <2>3. ASSUME NEW type \in Type PROVE handled'[t][type] = handled[t][type] \o One(m, type)
    <3>1. \A h \in Seq(Msg) : Append(h, m) = h \o <<m>> /\ h \o <<>> = h
      BY <1>4
    <3>2. type = "NEW_TASK" \/ type = "NEW_CONN"
      BY DEF Type
    <3>3. handled[t][type] \in Seq(Msg)
      BY <1>2, Zenon
    <3> QED
      BY <1>4, <1>5, <2>1, <3>1, <3>2, <3>3, Zenon DEF One
  <2> QED
    BY <1>1, <1>4, <2>1, <2>2, <2>3, Zenon DEF Order
<1>7. ASSUME NEW w \in Thread, w # t PROVE Order(w)'
  <2>1. ready'[w] = ready[w] /\ handled'[w] = handled[w]
    BY <1>1, <1>2, <1>7, Zenon
  <2> QED
    BY <1>1, <2>1, Rests, Zenon
<1> QED
  BY <1>1, <1>6, <1>7, Zenon DEF OrderInv

\* There are no messages at the start.
LEMMA InitOrder == Init => OrderInv
<1> SUFFICES ASSUME Init PROVE OrderInv
  BY Zenon
<1>1. <<>> \in Seq(Msg) /\ <<>> \o <<>> = <<>> /\ <<>> \o <<>> \o <<>> = <<>> /\ "NEW_CONN" \in Type
  BY DEF Type
<1>2. sent = [w \in Thread |-> <<>>]
  BY Zenon DEF Init, PoolInit
<1>3. ASSUME NEW w \in Thread
      PROVE  /\ queue[w] = <<>> /\ batch[w] = <<>> /\ ready[w] = <<>> /\ sent[w] = <<>>
             /\ \A type \in Type : handled[w][type] = <<>>
  BY Zenon DEF Init, PoolInit
<1>4. ASSUME NEW type \in Type PROVE InOrder(<<>>, <<>>, <<>>, <<>>, <<>>, type)
  BY <1>1, OfTypeSeq, Zenon DEF InOrder
<1> QED
  BY <1>1, <1>2, <1>3, <1>4, OfTypeSeq, Zenon DEF OrderInv, Order

\* Every step keeps the messages in order.
LEMMA NextOrder == Inv /\ OrderInv /\ [Next]_vars => OrderInv'
<1> SUFFICES ASSUME Inv, OrderInv, [Next]_vars PROVE OrderInv'
  BY Zenon
<1>1. CASE UNCHANGED <<thread_cnt, queue, sent, batch, ready, handled>>
  BY <1>1, Rests, Zenon DEF OrderInv, Thread
<1>2. CASE hand_over
  <2>1. CASE ub' = "_queues" /\ UNCHANGED queues
    BY <1>1, <1>2, <2>1, Zenon DEF hand_over, queues, loops
  <2> DEFINE m == [type |-> "NEW_CONN", id |-> main.conn, fd |-> main.fd]
  <2>2. CASE send(get_thread, m)
    <3>1. main.conn \in Conn /\ main.fd \in Fd
      BY <1>2, Zenon DEF hand_over, Inv, OneHolder, ServerTypes
    <3>2. m \in Msg
      BY <3>1 DEF Msg
    <3> HIDE DEF m
    <3>3. UNCHANGED <<thread_cnt, loops>>
      BY <1>2, Zenon DEF hand_over
    <3> QED
      BY <2>2, <3>2, <3>3, send_Order, Zenon
  <2> QED
    BY <1>2, <2>1, <2>2, Zenon DEF hand_over
<1>3. CASE Pool(send_task)
  <2> DEFINE m == [type |-> "NEW_TASK", id |-> tasks']
  <2>1. send(next, m) /\ UNCHANGED <<thread_cnt, loops>>
    BY <1>3, Zenon DEF Pool, send_task
  <2>2. tasks' \in Nat
    BY <1>3 DEF Pool, send_task, Inv, PoolTypes
  <2>3. m \in Msg
    BY <2>2 DEF Msg
  <2> HIDE DEF m
  <2> QED
    BY <2>1, <2>3, send_Order, Zenon
<1>4. CASE accept \/ refuse
  BY <1>1, <1>4, Zenon DEF accept, refuse, pool, queues, loops
<1>5. ASSUME NEW w \in Thread, Pool(thread_main(w)) PROVE OrderInv'
  BY <1>1, <1>5, Zenon DEF Pool, thread_main, queues
<1>6. ASSUME NEW w \in Thread, process(w) PROVE OrderInv'
  <2>1. CASE events_end(w)
    BY <1>1, <2>1, Zenon DEF events_end, queues
  <2> QED
    BY <1>6, <2>1, deal_task_Order, add_task_Order, run_task_Order, Zenon DEF process, pool_process, Pool
<1>7. ASSUME NEW w \in Thread, new_conn(w) PROVE OrderInv'
  BY <1>7, new_conn_Order, Zenon
<1>8. ASSUME NEW w \in Thread, increase_conn(w) \/ decrease_conn(w) \/ close(w) PROVE OrderInv'
  BY <1>1, <1>8, Zenon DEF increase_conn, decrease_conn, close, pool, queues, loops
<1>9. ASSUME NEW w \in Thread, NEW fd \in Fd, clean_conn(w, fd) PROVE OrderInv'
  BY <1>1, <1>9, Zenon DEF clean_conn, pool, queues, loops
<1>10. CASE UNCHANGED vars
  BY <1>1, <1>10, Zenon DEF vars, pool, queues, loops
<1> QED
  BY <1>2, <1>3, <1>4, <1>5, <1>6, <1>7, <1>8, <1>9, <1>10, Zenon DEF Next, serve

\* Every message sent to a thread is handled exactly once, and those of a type
\* in the order they were sent, whatever waits in the queue, in the batch and
\* among the ready tasks (thread_pool.cpp:21-64, event_loop.cpp:183-199).
THEOREM OnceInOrder == Spec => []InOrderExactlyOnce
<1>1. OrderInv => InOrderExactlyOnce
  BY Zenon DEF OrderInv, Order, InOrder, InOrderExactlyOnce
<1> QED
  BY <1>1, InitInv, NextInv, InitOrder, NextOrder, PTL DEF Spec
=============================================================================
