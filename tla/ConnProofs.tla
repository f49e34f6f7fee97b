----------------------------- MODULE ConnProofs -----------------------------
(***************************************************************************)
(* What goes over a connection of the reactor and who is told over it.     *)
(*                                                                         *)
(* Of Subscribe: BookedWhileOpen and OnlyEraseLosesPushes hold for any     *)
(* descriptors, modules, number of worker threads and number of reloads.   *)
(*                                                                         *)
(* Of TcpConn: WholeMessagesInOrder, OnlyLongBodyCloses and                *)
(* OnlyFailedBodyBreaks hold for any lengths of the head and of the        *)
(* bodies, any limits and any number of messages.                          *)
(***************************************************************************)
EXTENDS TcpConn, Subscribe, WellFoundedInduction, TLAPS

-----------------------------------------------------------------------------
(* Subscribe                                                               *)

Work == [step : {"idle", "close", "route", "push", "erase"}, fd : Fd \cup {Nobody},
         mod : Mod \cup {Nobody}, need : SUBSET (Fd \X Mod)]

SubTypes ==
    /\ route \in [Mod -> Int] /\ promised \in [Mod -> Int] /\ told \in [Fd -> [Mod -> Int]]
    /\ poller \in [step : {"idle", "publish", "notify"}, mods : SUBSET Mod, next : Thread]
    /\ book_list \in [Mod -> SUBSET Fd] /\ push_list \in [Fd -> SUBSET Mod]
    /\ loop_of \in [Fd -> Thread \cup {Nobody}] /\ sub_list \in [Fd -> SUBSET Mod]
    /\ tasks \in [Thread -> Nat] /\ work \in [Thread -> Work]
    /\ fresh \in [Fd -> SUBSET Mod] /\ raced \in [Fd -> BOOLEAN]

\* A thread works for connections of its own loop.
OwnWork(t) ==
    /\ work[t].step \in {"close", "route", "erase"} =>
           work[t].fd \in Fd /\ loop_of[work[t].fd] = t
    /\ work[t].step = "route" => work[t].mod \in Mod
    /\ work[t].need # {} => work[t].step \in {"push", "erase"}
    /\ \A p \in work[t].need : loop_of[p[1]] = t

\* A mod to be pushed to a subscriber that is behind was published after the
\* list was last taken, unless it is among those taken.
Unsent(fd, m) ==
    m \in push_list[fd] /\ Outdated(fd, m) =>
        \/ m \in fresh[fd]
        \/ <<fd, m>> \in work[loop_of[fd]].need
        \/ poller.step = "publish" /\ m \in poller.mods
        \/ LET w == work[loop_of[fd]] IN w.step = "route" /\ w.fd = fd /\ w.mod = m
        \/ raced[fd]

SubInv ==
    /\ SubTypes
    /\ \A t \in Thread : OwnWork(t)
    /\ BookedWhileOpen
    /\ \A m \in Mod : promised[m] <= route[m]
    /\ \A fd \in Fd, m \in Mod : Unsent(fd, m)
    /\ OnlyEraseLosesPushes

\* The threads are numbered from 0 on, and Nobody is none of them.
LEMMA Threads == Nobody \notin Thread /\ 0 \in Thread /\ Thread \subseteq Int
BY SubscribeAssumption DEF Nobody, Thread

\* A thread between two handlers works for no connection.
LEMMA IdleWork == Idle \in Work /\ Idle.step = "idle" /\ Idle.need = {}
<1>1. Idle = [step |-> "idle", fd |-> Nobody, mod |-> Nobody, need |-> {}]
  BY Zenon DEF Idle, Doing
<1>2. {} \in SUBSET (Fd \X Mod)
  BY Zenon
<1>3. Idle \in Work
  BY <1>1, <1>2, Zenon DEF Work
<1> QED
  BY <1>1, <1>3

\* Before the first request nobody has subscribed and nothing is promised.
LEMMA SubInitInv == SubInit => SubInv
<1> SUFFICES ASSUME SubInit PROVE SubInv
  OBVIOUS
<1> USE Threads, IdleWork
<1>1. SubTypes
  BY DEF SubInit, SubTypes, Never
<1>2. \A t \in Thread : OwnWork(t)
  BY DEF SubInit, OwnWork
<1>3. \A fd \in Fd, m \in Mod : ~Outdated(fd, m)
  BY DEF SubInit, Outdated
<1> QED
  BY <1>1, <1>2, <1>3 DEF SubInit, SubInv, BookedWhileOpen, Unsent, OnlyEraseLosesPushes

\* A thread whose work and connections stay as they are works on for them.
LEMMA OwnSame ==
    ASSUME SubTypes, NEW u \in Thread, OwnWork(u), work'[u] = work[u],
           \A f \in Fd : loop_of[f] = u => loop_of'[f] = u
    PROVE  OwnWork(u)'
<1>1. work[u].need \subseteq Fd \X Mod
  BY DEF SubTypes, Work
<1>2. \A p \in work[u].need : p[1] \in Fd
  BY <1>1
<1> QED
  BY <1>2, Zenon DEF OwnWork

\* A thread between two handlers works for nobody.
LEMMA OwnIdle == ASSUME NEW u, work'[u] = Idle PROVE OwnWork(u)'
<1>1. work'[u].step = "idle" /\ work'[u].need = {}
  BY IdleWork, Zenon
<1> QED
  BY <1>1, Zenon DEF OwnWork

\* A subscriber that is behind has its connection in the loop of a thread.
LEMMA BehindIsOpen ==
    ASSUME SubTypes, BookedWhileOpen, NEW f \in Fd, NEW n \in Mod, n \in sub_list[f]
    PROVE  loop_of[f] \in Thread
<1>1. loop_of[f] \in Thread \cup {Nobody}
  BY Zenon DEF SubTypes
<1> QED
  BY <1>1, Zenon DEF BookedWhileOpen

\* What the thread of fd f still does for module n is left to it.
LeftTo(f, n) ==
    /\ loop_of'[f] = loop_of[f] /\ work'[loop_of[f]].need = work[loop_of[f]].need
    /\ LET w == work[loop_of[f]] IN
       w.step = "route" /\ w.fd = f /\ w.mod = n => work'[loop_of[f]] = w

\* A step that touches neither what is to be pushed to a subscriber that is
\* behind nor what its thread is doing for it leaves the push on its way.
LEMMA Quiet ==
    ASSUME SubInv, NEW f \in Fd, NEW n \in Mod,
           Outdated(f, n)' => Outdated(f, n) /\ LeftTo(f, n) /\ (raced[f] => raced'[f]),
           poller' = poller, push_list' = push_list, tasks' = tasks, fresh' = fresh
    PROVE  Unsent(f, n)' /\ (Outdated(f, n)' => PushPending(f, n)' \/ raced'[f])
<1>1. Unsent(f, n) /\ (Outdated(f, n) => PushPending(f, n) \/ raced[f])
  BY Zenon DEF SubInv, OnlyEraseLosesPushes
<1>2. CASE ~Outdated(f, n)'
  BY <1>2, Zenon DEF Unsent
<1>3. ASSUME Outdated(f, n)' PROVE Unsent(f, n)' /\ (PushPending(f, n)' \/ raced'[f])
  <2>1. Outdated(f, n) /\ LeftTo(f, n) /\ (raced[f] => raced'[f])
    BY <1>3, Zenon
  <2>2. ASSUME NEW v, NEW w, v.need = w.need,
               w.step = "route" /\ w.fd = f /\ w.mod = n => v = w
        PROVE  /\ <<f, n>> \in w.need => <<f, n>> \in v.need
               /\ w.step = "route" /\ w.fd = f /\ w.mod = n => v.step = "route" /\ v.fd = f /\ v.mod = n
    BY <2>2, Zenon
  <2>3. /\ loop_of'[f] = loop_of[f]
        /\ <<f, n>> \in work[loop_of[f]].need => <<f, n>> \in work'[loop_of'[f]].need
        /\ LET w == work[loop_of[f]]
               v == work'[loop_of'[f]]
           IN  w.step = "route" /\ w.fd = f /\ w.mod = n => v.step = "route" /\ v.fd = f /\ v.mod = n
    BY <2>1, <2>2, Zenon DEF LeftTo
  <2>4. Unsent(f, n)'
    BY <1>1, <2>1, <2>3, Zenon DEF Unsent
  <2>5. PushPending(f, n) => PushPending(f, n)'
    BY <2>3, Zenon DEF PushPending, TaskComing
  <2> QED
    BY <1>1, <2>1, <2>4, <2>5, Zenon
<1> QED
  BY <1>2, <1>3, Zenon

\* The conjuncts of the invariant, put together again.
LEMMA Again ==
    ASSUME SubTypes', \A u \in Thread : OwnWork(u)', BookedWhileOpen',
           \A m \in Mod : promised'[m] <= route'[m],
           \A f \in Fd, n \in Mod :
               Unsent(f, n)' /\ (Outdated(f, n)' => PushPending(f, n)' \/ raced'[f])
    PROVE  SubInv'
BY Zenon DEF SubInv, OnlyEraseLosesPushes

\* A new connection has no subscriptions, so it is behind for no mod.
LEMMA create_subscribe_Inv ==
    ASSUME SubInv, NEW t \in Thread, NEW fd \in Fd, create_subscribe(t, fd) PROVE SubInv'
<1>0. /\ SubTypes /\ BookedWhileOpen /\ (\A u \in Thread : OwnWork(u))
      /\ (\A m \in Mod : promised[m] <= route[m])
  BY Zenon DEF SubInv
<1>a. /\ loop_of[fd] = Nobody /\ loop_of' = [loop_of EXCEPT ![fd] = t]
      /\ told' = [told EXCEPT ![fd] = [m \in Mod |-> Never]]
      /\ raced' = [raced EXCEPT ![fd] = FALSE]
      /\ route' = route /\ poller' = poller /\ book_list' = book_list /\ push_list' = push_list
      /\ sub_list' = sub_list /\ tasks' = tasks /\ work' = work /\ promised' = promised /\ fresh' = fresh
  BY DEF create_subscribe, lists
<1>b. /\ loop_of \in [Fd -> Thread \cup {Nobody}] /\ told \in [Fd -> [Mod -> Int]] /\ raced \in [Fd -> BOOLEAN]
  BY <1>0, Zenon DEF SubTypes
<1>1. SubTypes'
  <2>1. /\ loop_of' \in [Fd -> Thread \cup {Nobody}] /\ told' \in [Fd -> [Mod -> Int]]
        /\ raced' \in [Fd -> BOOLEAN]
    BY <1>a, <1>b DEF Never
  <2> QED
    BY <1>0, <1>a, <2>1, Zenon DEF SubTypes
<1>c. ASSUME NEW f \in Fd, loop_of[f] # Nobody PROVE f # fd /\ loop_of'[f] = loop_of[f]
  BY <1>a, <1>b, <1>c
<1>2. ASSUME NEW u \in Thread PROVE OwnWork(u)'
  <2>1. \A f \in Fd : loop_of[f] = u => loop_of'[f] = u
    BY <1>c, Threads
  <2> QED
    BY <1>0, <1>a, <2>1, OwnSame, Zenon
<1>3. BookedWhileOpen'
  BY <1>0, <1>a, <1>c, Zenon DEF BookedWhileOpen
<1>5. ASSUME NEW f \in Fd, NEW n \in Mod
      PROVE  Unsent(f, n)' /\ (Outdated(f, n)' => PushPending(f, n)' \/ raced'[f])
  <2>1. ASSUME Outdated(f, n)' PROVE Outdated(f, n) /\ LeftTo(f, n) /\ (raced[f] => raced'[f])
    <3>1. n \in sub_list[f] /\ loop_of[f] # Nobody
      BY <1>0, <1>a, <2>1, Zenon DEF Outdated, BookedWhileOpen
    <3>2. f # fd /\ loop_of'[f] = loop_of[f]
      BY <1>c, <3>1, Zenon
    <3>3. told'[f] = told[f] /\ raced'[f] = raced[f]
      BY <1>a, <1>b, <3>2
    <3> QED
      BY <1>a, <2>1, <3>2, <3>3, Zenon DEF Outdated, LeftTo
  <2> QED
    BY <1>a, <2>1, Quiet, Zenon
<1> QED
  BY <1>0, <1>a, <1>1, <1>2, <1>3, <1>5, Again, Zenon

\* A closing connection is handed to clear_subscribe by its own thread.
LEMMA clean_conn_Inv ==
    ASSUME SubInv, NEW t \in Thread, NEW fd \in Fd, clean_conn(t, fd) PROVE SubInv'
<1>0. /\ SubTypes /\ BookedWhileOpen /\ (\A u \in Thread : OwnWork(u))
      /\ (\A m \in Mod : promised[m] <= route[m])
  BY Zenon DEF SubInv
<1>a. /\ work[t] = Idle /\ loop_of[fd] = t /\ work' = [work EXCEPT ![t] = Doing("close", fd, Nobody, {})]
      /\ route' = route /\ poller' = poller /\ book_list' = book_list /\ push_list' = push_list
      /\ loop_of' = loop_of /\ sub_list' = sub_list /\ tasks' = tasks /\ told' = told
      /\ promised' = promised /\ fresh' = fresh /\ raced' = raced
  BY DEF clean_conn, lists, conns
<1>b. work \in [Thread -> Work]
  BY <1>0, Zenon DEF SubTypes
<1>c. /\ Doing("close", fd, Nobody, {}) \in Work
      /\ Doing("close", fd, Nobody, {}).step = "close" /\ Doing("close", fd, Nobody, {}).fd = fd
      /\ Doing("close", fd, Nobody, {}).need = {}
  BY DEF Doing, Work
<1>d. /\ work'[t] = Doing("close", fd, Nobody, {})
      /\ \A u \in Thread : u # t => work'[u] = work[u]
  BY <1>a, <1>b, Zenon
<1>1. SubTypes'
  <2>1. work' \in [Thread -> Work]
    BY <1>a, <1>b, <1>c, Zenon
  <2> QED
    BY <1>0, <1>a, <2>1, Zenon DEF SubTypes
<1>2. ASSUME NEW u \in Thread PROVE OwnWork(u)'
  <2>1. CASE u = t
    <3>1. work'[u].step = "close" /\ work'[u].fd = fd /\ work'[u].need = {}
      BY <1>c, <1>d, <2>1, Zenon
    <3>2. loop_of'[fd] = u
      BY <1>a, <2>1, Zenon
    <3> QED
      BY <3>1, <3>2, Zenon DEF OwnWork
  <2>2. CASE u # t
    BY <1>0, <1>a, <1>d, <2>2, OwnSame, Zenon
  <2> QED
    BY <2>1, <2>2, Zenon
<1>3. BookedWhileOpen'
  BY <1>0, <1>a, Zenon DEF BookedWhileOpen
<1>5. ASSUME NEW f \in Fd, NEW n \in Mod
      PROVE  Unsent(f, n)' /\ (Outdated(f, n)' => PushPending(f, n)' \/ raced'[f])
  <2>1. ASSUME Outdated(f, n)' PROVE Outdated(f, n) /\ LeftTo(f, n) /\ (raced[f] => raced'[f])
    <3>1. Outdated(f, n) /\ loop_of[f] \in Thread
      BY <1>0, <1>a, <2>1, BehindIsOpen, Zenon DEF Outdated
    <3>2. work[t].need = {} /\ work[t].step = "idle"
      BY <1>a, IdleWork, Zenon
    <3>3. LeftTo(f, n)
      BY <1>a, <1>c, <1>d, <3>1, <3>2, Zenon DEF LeftTo
    <3> QED
      BY <1>a, <3>1, <3>3, Zenon
  <2> QED
    BY <1>a, <2>1, Quiet, Zenon
<1> QED
  BY <1>0, <1>a, <1>1, <1>2, <1>3, <1>5, Again, Zenon

\* Unsubscribing removes the fd from both lists at once, under book_lock.
LEMMA unsubscribe_Inv ==
    ASSUME SubInv, NEW t \in Thread, NEW mod \in Mod, unsubscribe(t, mod) PROVE SubInv'
<1>0. /\ SubTypes /\ BookedWhileOpen /\ (\A u \in Thread : OwnWork(u))
      /\ (\A m \in Mod : promised[m] <= route[m])
  BY Zenon DEF SubInv
<1> DEFINE fd == work[t].fd
<1>a. /\ work[t].step = "close" /\ mod \in sub_list[fd]
      /\ sub_list' = [sub_list EXCEPT ![fd] = sub_list[fd] \ {mod}]
      /\ book_list' = [book_list EXCEPT ![mod] = book_list[mod] \ {fd}]
      /\ route' = route /\ poller' = poller /\ push_list' = push_list /\ loop_of' = loop_of
      /\ tasks' = tasks /\ work' = work /\ told' = told /\ promised' = promised
      /\ fresh' = fresh /\ raced' = raced
  BY DEF unsubscribe
<1>b. sub_list \in [Fd -> SUBSET Mod] /\ book_list \in [Mod -> SUBSET Fd]
  BY <1>0, Zenon DEF SubTypes
<1>c. fd \in Fd
  BY <1>0, <1>a, Zenon DEF OwnWork
<1> HIDE DEF fd
<1>d. /\ \A f \in Fd : sub_list'[f] = IF f = fd THEN sub_list[f] \ {mod} ELSE sub_list[f]
      /\ \A m \in Mod : book_list'[m] = IF m = mod THEN book_list[m] \ {fd} ELSE book_list[m]
  BY <1>a, <1>b, <1>c, Zenon
<1>1. SubTypes'
  <2>1. sub_list' \in [Fd -> SUBSET Mod] /\ book_list' \in [Mod -> SUBSET Fd]
    BY <1>a, <1>b, <1>c
  <2> QED
    BY <1>0, <1>a, <2>1, Zenon DEF SubTypes
<1>2. ASSUME NEW u \in Thread PROVE OwnWork(u)'
  BY <1>0, <1>a, OwnSame, Zenon
<1>3. BookedWhileOpen'
  <2> SUFFICES ASSUME NEW f \in Fd, NEW m \in Mod
               PROVE  /\ f \in book_list'[m] <=> m \in sub_list'[f]
                      /\ m \in sub_list'[f] => loop_of'[f] # Nobody
    BY Zenon DEF BookedWhileOpen
  <2>1. (f \in book_list[m] <=> m \in sub_list[f]) /\ (m \in sub_list[f] => loop_of[f] # Nobody)
    BY <1>0, Zenon DEF BookedWhileOpen
  <2>2. /\ f \in book_list'[m] <=> f \in book_list[m] /\ ~(f = fd /\ m = mod)
        /\ m \in sub_list'[f] <=> m \in sub_list[f] /\ ~(f = fd /\ m = mod)
    BY <1>d, Zenon
  <2> QED
    BY <1>a, <2>1, <2>2, Zenon
<1>5. ASSUME NEW f \in Fd, NEW n \in Mod
      PROVE  Unsent(f, n)' /\ (Outdated(f, n)' => PushPending(f, n)' \/ raced'[f])
  <2>1. n \in sub_list'[f] => n \in sub_list[f]
    BY <1>d, Zenon
  <2>2. Outdated(f, n)' => Outdated(f, n)
    BY <1>a, <2>1, Zenon DEF Outdated
  <2>3. LeftTo(f, n)
    BY <1>a, Zenon DEF LeftTo
  <2> QED
    BY <1>a, <2>2, <2>3, Quiet, Zenon
<1> QED
  BY <1>0, <1>a, <1>1, <1>2, <1>3, <1>5, Again, Zenon

\* A connection closes with no subscription left, so it is behind for no mod.
LEMMA close_Inv ==
    ASSUME SubInv, NEW t \in Thread, close(t) PROVE SubInv'
<1>0. /\ SubTypes /\ BookedWhileOpen /\ (\A u \in Thread : OwnWork(u))
      /\ (\A m \in Mod : promised[m] <= route[m])
  BY Zenon DEF SubInv
<1> DEFINE fd == work[t].fd
<1>a. /\ work[t].step = "close" /\ sub_list[fd] = {}
      /\ loop_of' = [loop_of EXCEPT ![fd] = Nobody] /\ work' = [work EXCEPT ![t] = Idle]
      /\ route' = route /\ poller' = poller /\ book_list' = book_list /\ push_list' = push_list
      /\ sub_list' = sub_list /\ tasks' = tasks /\ told' = told /\ promised' = promised
      /\ fresh' = fresh /\ raced' = raced
  BY DEF close, lists
<1>b. loop_of \in [Fd -> Thread \cup {Nobody}] /\ work \in [Thread -> Work]
  BY <1>0, Zenon DEF SubTypes
<1>c. fd \in Fd /\ loop_of[fd] = t /\ work[t].need = {}
  <2>1. OwnWork(t)
    BY <1>0, Zenon
  <2> QED
    BY <1>a, <2>1 DEF OwnWork
<1> HIDE DEF fd
<1>d. /\ \A f \in Fd : f # fd => loop_of'[f] = loop_of[f]
      /\ work'[t] = Idle /\ \A u \in Thread : u # t => work'[u] = work[u]
  BY <1>a, <1>b, <1>c, Zenon
<1>1. SubTypes'
  <2>1. loop_of' \in [Fd -> Thread \cup {Nobody}] /\ work' \in [Thread -> Work]
    BY <1>a, <1>b, IdleWork, Zenon
  <2> QED
    BY <1>0, <1>a, <2>1, Zenon DEF SubTypes
<1>2. ASSUME NEW u \in Thread PROVE OwnWork(u)'
  <2>1. CASE u = t
    BY <1>d, <2>1, OwnIdle, Zenon
  <2>2. CASE u # t
    <3>1. \A f \in Fd : loop_of[f] = u => loop_of'[f] = u
      BY <1>c, <1>d, <2>2, Zenon
    <3> QED
      BY <1>0, <1>d, <2>2, <3>1, OwnSame, Zenon
  <2> QED
    BY <2>1, <2>2, Zenon
<1>e. ASSUME NEW f \in Fd, NEW n \in Mod, n \in sub_list[f] PROVE loop_of'[f] = loop_of[f]
  BY <1>a, <1>d, <1>e
<1>3. BookedWhileOpen'
  BY <1>0, <1>a, <1>e, Zenon DEF BookedWhileOpen
<1>5. ASSUME NEW f \in Fd, NEW n \in Mod
      PROVE  Unsent(f, n)' /\ (Outdated(f, n)' => PushPending(f, n)' \/ raced'[f])
  <2>1. ASSUME Outdated(f, n)' PROVE Outdated(f, n) /\ LeftTo(f, n) /\ (raced[f] => raced'[f])
    <3>1. Outdated(f, n) /\ loop_of[f] \in Thread /\ loop_of'[f] = loop_of[f]
      BY <1>0, <1>a, <1>e, <2>1, BehindIsOpen, Zenon DEF Outdated
    <3>2. Idle.need = {} /\ "route" # "close"
      BY IdleWork
    <3>3. LeftTo(f, n)
      BY <1>a, <1>c, <1>d, <3>1, <3>2, Zenon DEF LeftTo
    <3> QED
      BY <1>a, <3>1, <3>3, Zenon
  <2> QED
    BY <1>a, <2>1, Quiet, Zenon
<1> QED
  BY <1>0, <1>a, <1>1, <1>2, <1>3, <1>5, Again, Zenon

\* get_route books the fd and owes it an answer.
LEMMA get_route_Inv ==
    ASSUME SubInv, NEW t \in Thread, NEW fd \in Fd, NEW mod \in Mod, get_route(t, fd, mod)
    PROVE SubInv'
<1>0. /\ SubTypes /\ BookedWhileOpen /\ (\A u \in Thread : OwnWork(u))
      /\ (\A m \in Mod : promised[m] <= route[m])
  BY Zenon DEF SubInv
<1> DEFINE new == Doing("route", fd, mod, {})
<1>a. /\ work[t] = Idle /\ loop_of[fd] = t
      /\ sub_list' = [sub_list EXCEPT ![fd] = sub_list[fd] \cup {mod}]
      /\ book_list' = IF mod \in sub_list[fd] THEN book_list
                      ELSE [book_list EXCEPT ![mod] = book_list[mod] \cup {fd}]
      /\ work' = [work EXCEPT ![t] = new]
      /\ route' = route /\ poller' = poller /\ push_list' = push_list /\ loop_of' = loop_of
      /\ tasks' = tasks /\ told' = told /\ promised' = promised /\ fresh' = fresh /\ raced' = raced
  BY DEF get_route
<1>b. /\ sub_list \in [Fd -> SUBSET Mod] /\ book_list \in [Mod -> SUBSET Fd] /\ work \in [Thread -> Work]
  BY <1>0, Zenon DEF SubTypes
<1>c. new \in Work /\ new.step = "route" /\ new.fd = fd /\ new.mod = mod /\ new.need = {}
  BY DEF Doing, Work
<1> HIDE DEF new
<1>d. work'[t] = new /\ \A u \in Thread : u # t => work'[u] = work[u]
  BY <1>a, <1>b, Zenon
<1>e. ASSUME NEW f \in Fd, NEW m \in Mod
      PROVE  /\ m \in sub_list'[f] <=> m \in sub_list[f] \/ (f = fd /\ m = mod)
             /\ f \in book_list'[m] <=> m \in sub_list'[f]
  <2>1. m \in sub_list'[f] <=> m \in sub_list[f] \/ (f = fd /\ m = mod)
    BY <1>a, <1>b
  <2>2. f \in book_list[m] <=> m \in sub_list[f]
    BY <1>0, Zenon DEF BookedWhileOpen
  <2>3. CASE mod \in sub_list[fd]
    BY <1>a, <2>1, <2>2, <2>3, Zenon
  <2>4. CASE mod \notin sub_list[fd]
    <3>1. book_list' = [book_list EXCEPT ![mod] = book_list[mod] \cup {fd}]
      BY <1>a, <2>4, Zenon
    <3>2. f \in book_list'[m] <=> f \in book_list[m] \/ (f = fd /\ m = mod)
      BY <1>b, <3>1
    <3> QED
      BY <2>1, <2>2, <3>2, Zenon
  <2> QED
    BY <2>1, <2>3, <2>4, Zenon
<1>1. SubTypes'
  <2>1. sub_list' \in [Fd -> SUBSET Mod] /\ book_list' \in [Mod -> SUBSET Fd]
    BY <1>a, <1>b
  <2>2. work' \in [Thread -> Work]
    BY <1>a, <1>b, <1>c, Zenon
  <2> QED
    BY <1>0, <1>a, <2>1, <2>2, Zenon DEF SubTypes
<1>2. ASSUME NEW u \in Thread PROVE OwnWork(u)'
  <2>1. CASE u = t
    <3>1. /\ work'[u].step = "route" /\ work'[u].fd = fd /\ work'[u].mod = mod /\ work'[u].need = {}
          /\ loop_of'[fd] = u
      BY <1>a, <1>c, <1>d, <2>1, Zenon
    <3> QED
      BY <3>1, Zenon DEF OwnWork
  <2>2. CASE u # t
    BY <1>0, <1>a, <1>d, <2>2, OwnSame, Zenon
  <2> QED
    BY <2>1, <2>2, Zenon
<1>3. BookedWhileOpen'
  <2>1. loop_of[fd] # Nobody
    BY <1>a, Threads
  <2> QED
    BY <1>0, <1>a, <1>e, <2>1, Zenon DEF BookedWhileOpen
<1>5. ASSUME NEW f \in Fd, NEW n \in Mod
      PROVE  Unsent(f, n)' /\ (Outdated(f, n)' => PushPending(f, n)' \/ raced'[f])
  <2>1. CASE f = fd /\ n = mod
    <3>1. LET w == work'[loop_of'[f]] IN w.step = "route" /\ w.fd = f /\ w.mod = n
      BY <1>a, <1>c, <1>d, <2>1, Zenon
    <3> QED
      BY <3>1, Zenon DEF Unsent, PushPending
  <2>2. CASE ~(f = fd /\ n = mod)
    <3>1. ASSUME Outdated(f, n)' PROVE Outdated(f, n) /\ LeftTo(f, n) /\ (raced[f] => raced'[f])
      <4>1. n \in sub_list[f]
        BY <1>e, <2>2, <3>1, Zenon DEF Outdated
      <4>2. Outdated(f, n) /\ loop_of[f] \in Thread
        BY <1>0, <1>a, <3>1, <4>1, BehindIsOpen, Zenon DEF Outdated
      <4>3. work[t].need = {} /\ work[t].step = "idle"
        BY <1>a, IdleWork, Zenon
      <4>4. LeftTo(f, n)
        BY <1>a, <1>c, <1>d, <4>2, <4>3, Zenon DEF LeftTo
      <4> QED
        BY <1>a, <4>2, <4>4, Zenon
    <3> QED
      BY <1>a, <3>1, Quiet, Zenon
  <2> QED
    BY <2>1, <2>2, Zenon
<1> QED
  BY <1>0, <1>a, <1>1, <1>2, <1>3, <1>5, Again, Zenon

\* The answer reads the current route, so what it sent is behind nothing.
LEMMA get_route_answer_Inv ==
    ASSUME SubInv, NEW t \in Thread, get_route_answer(t) PROVE SubInv'
<1>0. /\ SubTypes /\ BookedWhileOpen /\ (\A u \in Thread : OwnWork(u))
      /\ (\A m \in Mod : promised[m] <= route[m])
  BY Zenon DEF SubInv
<1> DEFINE fd == work[t].fd
           mod == work[t].mod
<1>a. /\ work[t].step = "route" /\ work' = [work EXCEPT ![t] = Idle]
      /\ told' = [told EXCEPT ![fd] = [told[fd] EXCEPT ![mod] = route[mod]]]
      /\ route' = route /\ poller' = poller /\ book_list' = book_list /\ push_list' = push_list
      /\ loop_of' = loop_of /\ sub_list' = sub_list /\ tasks' = tasks /\ promised' = promised
      /\ fresh' = fresh /\ raced' = raced
  BY DEF get_route_answer, lists, conns
<1>b. told \in [Fd -> [Mod -> Int]] /\ work \in [Thread -> Work] /\ route \in [Mod -> Int]
  BY <1>0, Zenon DEF SubTypes
<1>c. fd \in Fd /\ mod \in Mod /\ work[t].need = {}
  <2>1. OwnWork(t)
    BY <1>0, Zenon
  <2> QED
    BY <1>a, <2>1 DEF OwnWork
<1>w. ASSUME NEW f, NEW n, f # fd \/ n # mod
      PROVE  ~(work[t].fd = f /\ work[t].mod = n)
  BY <1>w
<1> HIDE DEF fd, mod
<1>d. work'[t] = Idle /\ \A u \in Thread : u # t => work'[u] = work[u]
  BY <1>a, <1>b, Zenon
<1>e. told'[fd][mod] = route[mod]
  BY <1>a, <1>b, <1>c
<1>f. ASSUME NEW f \in Fd, NEW n \in Mod, f # fd \/ n # mod PROVE told'[f][n] = told[f][n]
  BY <1>a, <1>b, <1>c, <1>f
<1>1. SubTypes'
  <2>1. told' \in [Fd -> [Mod -> Int]]
    BY <1>a, <1>b, <1>c
  <2>2. work' \in [Thread -> Work]
    BY <1>a, <1>b, IdleWork, Zenon
  <2> QED
    BY <1>0, <1>a, <2>1, <2>2, Zenon DEF SubTypes
<1>2. ASSUME NEW u \in Thread PROVE OwnWork(u)'
  BY <1>0, <1>a, <1>d, OwnIdle, OwnSame, Zenon
<1>3. BookedWhileOpen'
  BY <1>0, <1>a, Zenon DEF BookedWhileOpen
<1>5. ASSUME NEW f \in Fd, NEW n \in Mod
      PROVE  Unsent(f, n)' /\ (Outdated(f, n)' => PushPending(f, n)' \/ raced'[f])
  <2>1. ASSUME Outdated(f, n)' PROVE Outdated(f, n) /\ LeftTo(f, n) /\ (raced[f] => raced'[f])
    <3>1. f # fd \/ n # mod
      <4>1. ASSUME f = fd, n = mod PROVE FALSE
        <5>1. told'[f][n] < promised[n] /\ told'[f][n] = route[n]
          BY <1>a, <1>e, <2>1, <4>1, Zenon DEF Outdated
        <5>2. promised[n] <= route[n] /\ promised[n] \in Int /\ route[n] \in Int
          BY <1>0, Zenon DEF SubTypes
        <5> QED
          BY <5>1, <5>2
      <4> QED
        BY <4>1, Zenon
    <3>2. Outdated(f, n) /\ loop_of[f] \in Thread
      BY <1>0, <1>a, <1>f, <2>1, <3>1, BehindIsOpen, Zenon DEF Outdated
    <3>3. Idle.need = {} /\ ~(work[t].fd = f /\ work[t].mod = n)
      BY <1>w, <3>1, IdleWork, Zenon
    <3>4. LeftTo(f, n)
      BY <1>a, <1>c, <1>d, <3>2, <3>3, Zenon DEF LeftTo
    <3> QED
      BY <1>a, <3>2, <3>4, Zenon
  <2> QED
    BY <1>a, <2>1, Quiet, Zenon
<1> QED
  BY <1>0, <1>a, <1>1, <1>2, <1>3, <1>5, Again, Zenon

\* The poller promises the mods it read and owes their publish.
LEMMA swap_Inv ==
    ASSUME SubInv, NEW changed \in SUBSET Mod, NEW change_mods \in SUBSET Mod, swap(changed, change_mods)
    PROVE SubInv'
<1>0. /\ SubTypes /\ BookedWhileOpen /\ (\A u \in Thread : OwnWork(u))
      /\ (\A m \in Mod : promised[m] <= route[m])
      /\ (\A f \in Fd, n \in Mod : Unsent(f, n)) /\ OnlyEraseLosesPushes
  BY Zenon DEF SubInv
<1>a. /\ poller.step = "idle"
      /\ route' = [m \in Mod |-> IF m \in changed THEN route[m] + 1 ELSE route[m]]
      /\ promised' = [m \in Mod |-> IF m \in change_mods THEN route'[m] ELSE promised[m]]
      /\ poller' = [step |-> "publish", mods |-> change_mods, next |-> 0]
      /\ book_list' = book_list /\ push_list' = push_list /\ loop_of' = loop_of /\ sub_list' = sub_list
      /\ tasks' = tasks /\ work' = work /\ told' = told /\ fresh' = fresh /\ raced' = raced
  BY DEF swap, lists, conns
<1>b. route \in [Mod -> Int] /\ promised \in [Mod -> Int]
  BY <1>0, Zenon DEF SubTypes
<1>c. poller'.step = "publish" /\ poller'.mods = change_mods
  BY <1>a
<1>1. SubTypes'
  <2>1. route' \in [Mod -> Int]
    BY <1>a, <1>b
  <2>2. promised' \in [Mod -> Int]
    BY <1>a, <1>b, <2>1
  <2>3. poller' \in [step : {"idle", "publish", "notify"}, mods : SUBSET Mod, next : Thread]
    BY <1>a, Threads
  <2> QED
    BY <1>0, <1>a, <2>1, <2>2, <2>3, Zenon DEF SubTypes
<1>2. ASSUME NEW u \in Thread PROVE OwnWork(u)'
  BY <1>0, <1>a, OwnSame, Zenon
<1>3. BookedWhileOpen'
  BY <1>0, <1>a, Zenon DEF BookedWhileOpen
<1>4. ASSUME NEW m \in Mod PROVE promised'[m] <= route'[m]
  <2>1. promised[m] <= route[m] /\ promised[m] \in Int /\ route[m] \in Int
    BY <1>0, <1>b, Zenon
  <2>2. /\ route'[m] = route[m] \/ route'[m] = route[m] + 1
        /\ promised'[m] = promised[m] \/ promised'[m] = route'[m]
    BY <1>a
  <2> QED
    BY <2>1, <2>2
<1>5. ASSUME NEW f \in Fd, NEW n \in Mod
      PROVE  Unsent(f, n)' /\ (Outdated(f, n)' => PushPending(f, n)' \/ raced'[f])
  <2>1. CASE n \in change_mods
    BY <1>c, <2>1, Zenon DEF Unsent, PushPending
  <2>2. CASE n \notin change_mods
    <3>1. promised'[n] = promised[n]
      BY <1>a, <2>2, Zenon
    <3>2. Outdated(f, n)' => Outdated(f, n)
      BY <1>a, <3>1, Zenon DEF Outdated
    <3>3. poller.step # "publish" /\ poller.step # "notify"
      BY <1>a
    <3>4. Unsent(f, n)'
      BY <1>0, <1>a, <3>2, <3>3, Zenon DEF Unsent
    <3>5. PushPending(f, n) => PushPending(f, n)'
      BY <1>a, <3>3, Zenon DEF PushPending, TaskComing
    <3> QED
      BY <1>0, <1>a, <3>2, <3>4, <3>5, Zenon DEF OnlyEraseLosesPushes
  <2> QED
    BY <2>1, <2>2, Zenon
<1> QED
  BY <1>1, <1>2, <1>3, <1>4, <1>5, Again, Zenon

\* publish puts every booked fd's mods in the push list and starts notifying.
LEMMA publish_Inv ==
    ASSUME SubInv, publish PROVE SubInv'
<1>0. /\ SubTypes /\ BookedWhileOpen /\ (\A u \in Thread : OwnWork(u))
      /\ (\A m \in Mod : promised[m] <= route[m])
      /\ (\A f \in Fd, n \in Mod : Unsent(f, n)) /\ OnlyEraseLosesPushes
  BY Zenon DEF SubInv
<1> DEFINE add(fd) == {m \in poller.mods : fd \in book_list[m]}
<1>a. /\ poller.step = "publish"
      /\ push_list' = [fd \in Fd |-> push_list[fd] \cup add(fd)]
      /\ fresh' = [fd \in Fd |-> fresh[fd] \cup add(fd)]
      /\ poller' = [step |-> "notify", mods |-> poller.mods, next |-> 0]
      /\ route' = route /\ book_list' = book_list /\ loop_of' = loop_of /\ sub_list' = sub_list
      /\ tasks' = tasks /\ work' = work /\ told' = told /\ promised' = promised /\ raced' = raced
  BY DEF publish, conns
<1>b. /\ push_list \in [Fd -> SUBSET Mod] /\ fresh \in [Fd -> SUBSET Mod]
      /\ poller \in [step : {"idle", "publish", "notify"}, mods : SUBSET Mod, next : Thread]
  BY <1>0, Zenon DEF SubTypes
<1>c. poller.mods \subseteq Mod
  BY <1>b
<1>d. ASSUME NEW f \in Fd, NEW n \in Mod
      PROVE  /\ n \in push_list'[f] <=> n \in push_list[f] \/ n \in add(f)
             /\ n \in fresh'[f] <=> n \in fresh[f] \/ n \in add(f)
             /\ n \in add(f) <=> n \in poller.mods /\ f \in book_list[n]
  BY <1>a, Zenon
<1>1. SubTypes'
  <2>1. push_list' \in [Fd -> SUBSET Mod] /\ fresh' \in [Fd -> SUBSET Mod]
    BY <1>a, <1>b, <1>c
  <2>2. poller' \in [step : {"idle", "publish", "notify"}, mods : SUBSET Mod, next : Thread]
    BY <1>a, <1>c, Threads
  <2> QED
    BY <1>0, <1>a, <2>1, <2>2, Zenon DEF SubTypes
<1>2. ASSUME NEW u \in Thread PROVE OwnWork(u)'
  BY <1>0, <1>a, OwnSame, Zenon
<1>3. BookedWhileOpen'
  BY <1>0, <1>a, Zenon DEF BookedWhileOpen
<1> HIDE DEF add
<1>5. ASSUME NEW f \in Fd, NEW n \in Mod
      PROVE  Unsent(f, n)' /\ (Outdated(f, n)' => PushPending(f, n)' \/ raced'[f])
  <2>1. CASE ~Outdated(f, n)'
    BY <2>1, Zenon DEF Unsent
  <2>2. ASSUME Outdated(f, n)' PROVE Unsent(f, n)' /\ (PushPending(f, n)' \/ raced'[f])
    <3>1. Outdated(f, n) /\ n \in sub_list[f] /\ f \in book_list[n]
      BY <1>0, <1>a, <2>2, Zenon DEF Outdated, BookedWhileOpen
    <3>2. loop_of[f] \in Thread
      BY <1>0, <3>1, BehindIsOpen, Zenon
    <3>3. TaskComing(loop_of[f])'
      <4>1. poller'.step = "notify" /\ poller'.next = 0
        BY <1>a
      <4>2. 0 <= loop_of'[f]
        BY <1>a, <3>2, SubscribeAssumption DEF Thread
      <4> QED
        BY <1>a, <4>1, <4>2, Zenon DEF TaskComing
    <3>4. CASE n \in poller.mods
      <4>1. n \in push_list'[f] /\ n \in fresh'[f]
        BY <1>d, <3>1, <3>4, Zenon
      <4> QED
        BY <1>a, <3>3, <4>1, Zenon DEF Unsent, PushPending
    <3>5. CASE n \notin poller.mods
      <4>1. (n \in push_list'[f] <=> n \in push_list[f]) /\ (n \in fresh[f] => n \in fresh'[f])
        BY <1>d, <3>5, Zenon
      <4>2. Unsent(f, n)'
        BY <1>0, <1>a, <3>1, <3>5, <4>1, Zenon DEF Unsent
      <4>3. PushPending(f, n) => PushPending(f, n)'
        BY <1>a, <3>3, <3>5, <4>1, Zenon DEF PushPending
      <4> QED
        BY <1>0, <1>a, <3>1, <4>2, <4>3, Zenon DEF OnlyEraseLosesPushes
    <3> QED
      BY <3>4, <3>5, Zenon
  <2> QED
    BY <2>1, <2>2, Zenon
<1> QED
  BY <1>0, <1>a, <1>1, <1>2, <1>3, <1>5, Again, Zenon

\* A thread the poller passes on its way round has a task in its queue.
LEMMA send_task_Inv ==
    ASSUME SubInv, send_task PROVE SubInv'
<1>0. /\ SubTypes /\ BookedWhileOpen /\ (\A u \in Thread : OwnWork(u))
      /\ (\A m \in Mod : promised[m] <= route[m])
      /\ (\A f \in Fd, n \in Mod : Unsent(f, n)) /\ OnlyEraseLosesPushes
  BY Zenon DEF SubInv
<1>a. /\ poller.step = "notify"
      /\ tasks' = [tasks EXCEPT ![poller.next] = tasks[poller.next] + 1]
      /\ poller' = IF poller.next = thread_cnt - 1
                   THEN [step |-> "idle", mods |-> {}, next |-> 0]
                   ELSE [step |-> "notify", mods |-> poller.mods, next |-> poller.next + 1]
      /\ route' = route /\ book_list' = book_list /\ push_list' = push_list /\ loop_of' = loop_of
      /\ sub_list' = sub_list /\ work' = work /\ told' = told /\ promised' = promised
      /\ fresh' = fresh /\ raced' = raced
  BY DEF send_task, lists, conns
<1>b. /\ tasks \in [Thread -> Nat]
      /\ poller \in [step : {"idle", "publish", "notify"}, mods : SUBSET Mod, next : Thread]
  BY <1>0, Zenon DEF SubTypes
<1>c. poller.next \in Thread /\ poller.mods \subseteq Mod
  BY <1>b
<1>d. /\ poller.next # thread_cnt - 1 =>
             /\ poller.next + 1 \in Thread
             /\ poller' = [step |-> "notify", mods |-> poller.mods, next |-> poller.next + 1]
      /\ poller.next = thread_cnt - 1 =>
             poller' = [step |-> "idle", mods |-> {}, next |-> 0]
  <2>1. poller.next # thread_cnt - 1 => poller.next + 1 \in Thread
    BY <1>c, SubscribeAssumption DEF Thread
  <2> QED
    BY <1>a, <2>1, Zenon
<1>e. ASSUME NEW u \in Thread
      PROVE  tasks[u] \in Nat /\ tasks'[u] = IF u = poller.next THEN tasks[u] + 1 ELSE tasks[u]
  BY <1>a, <1>b, <1>c, Zenon
<1>f. ASSUME NEW u \in Thread, TaskComing(u) PROVE TaskComing(u)'
  <2>1. tasks'[u] > 0 \/ (poller.step = "notify" /\ poller.next <= u /\ u # poller.next)
    <3>1. tasks[u] > 0 => tasks'[u] > 0
      BY <1>e
    <3>2. u = poller.next => tasks'[u] > 0
      BY <1>e
    <3> QED
      BY <1>f, <3>1, <3>2, Zenon DEF TaskComing
  <2>2. ASSUME poller.next <= u, u # poller.next
        PROVE  poller.next # thread_cnt - 1 /\ poller.next + 1 <= u
    BY <1>c, <2>2, SubscribeAssumption DEF Thread
  <2>3. poller.next # thread_cnt - 1 => poller'.step = "notify" /\ poller'.next = poller.next + 1
    BY <1>d
  <2>4. tasks'[u] > 0 \/ (poller'.step = "notify" /\ poller'.next <= u)
    BY <2>1, <2>2, <2>3, Zenon
  <2> QED
    BY <2>4, Zenon DEF TaskComing
<1>1. SubTypes'
  <2>1. tasks' \in [Thread -> Nat]
    BY <1>a, <1>b, <1>c
  <2>2. poller' \in [step : {"idle", "publish", "notify"}, mods : SUBSET Mod, next : Thread]
    BY <1>c, <1>d, Threads
  <2> QED
    BY <1>0, <1>a, <2>1, <2>2, Zenon DEF SubTypes
<1>2. ASSUME NEW u \in Thread PROVE OwnWork(u)'
  BY <1>0, <1>a, OwnSame, Zenon
<1>3. BookedWhileOpen'
  BY <1>0, <1>a, Zenon DEF BookedWhileOpen
<1>5. ASSUME NEW f \in Fd, NEW n \in Mod
      PROVE  Unsent(f, n)' /\ (Outdated(f, n)' => PushPending(f, n)' \/ raced'[f])
  <2>1. Outdated(f, n)' <=> Outdated(f, n)
    BY <1>a, Zenon DEF Outdated
  <2>2. poller.step # "publish"
    BY <1>a
  <2>3. Unsent(f, n)'
    BY <1>0, <1>a, <2>1, <2>2, Zenon DEF Unsent
  <2>4. ASSUME Outdated(f, n), PushPending(f, n) PROVE PushPending(f, n)'
    <3>1. loop_of[f] \in Thread
      BY <1>0, <2>4, BehindIsOpen, Zenon DEF Outdated
    <3>2. TaskComing(loop_of[f]) => TaskComing(loop_of[f])'
      BY <1>a, <1>f, <3>1, Zenon DEF TaskComing
    <3> QED
      BY <1>a, <2>2, <2>4, <3>2, Zenon DEF PushPending
  <2> QED
    BY <1>0, <1>a, <2>1, <2>3, <2>4, Zenon DEF OnlyEraseLosesPushes
<1> QED
  BY <1>0, <1>a, <1>1, <1>2, <1>3, <1>5, Again, Zenon

\* A task takes on all that the push list holds for its own loop's fds.
LEMMA make_publish_map_Inv ==
    ASSUME SubInv, NEW t \in Thread, make_publish_map(t) PROVE SubInv'
<1>0. /\ SubTypes /\ BookedWhileOpen /\ (\A u \in Thread : OwnWork(u))
      /\ (\A m \in Mod : promised[m] <= route[m])
      /\ (\A f \in Fd, n \in Mod : Unsent(f, n)) /\ OnlyEraseLosesPushes
  BY Zenon DEF SubInv
<1> DEFINE need == {p \in Online(t) \X Mod : p[2] \in push_list[p[1]]}
           new == IF need = {} THEN Idle ELSE Doing("push", Nobody, Nobody, need)
<1>a. /\ work[t] = Idle /\ tasks[t] > 0
      /\ tasks' = [tasks EXCEPT ![t] = tasks[t] - 1]
      /\ work' = [work EXCEPT ![t] = new]
      /\ fresh' = [fd \in Fd |-> IF fd \in Online(t) THEN {} ELSE fresh[fd]]
      /\ route' = route /\ poller' = poller /\ book_list' = book_list /\ push_list' = push_list
      /\ loop_of' = loop_of /\ sub_list' = sub_list /\ told' = told /\ promised' = promised
      /\ raced' = raced
  BY DEF make_publish_map, lists, conns
<1>b. tasks \in [Thread -> Nat] /\ work \in [Thread -> Work] /\ fresh \in [Fd -> SUBSET Mod]
  BY <1>0, Zenon DEF SubTypes
<1>c. /\ need \subseteq Fd \X Mod
      /\ \A p \in need : loop_of[p[1]] = t
      /\ \A f \in Fd, n \in Mod : <<f, n>> \in need <=> loop_of[f] = t /\ n \in push_list[f]
  BY DEF Online
<1> HIDE DEF need
<1>d. new \in Work /\ new.need = need /\ new.step \in {"idle", "push"}
  <2>1. CASE need = {}
    BY <2>1, IdleWork
  <2>2. CASE need # {}
    BY <1>c, <2>2 DEF Doing, Work
  <2> QED
    BY <2>1, <2>2
<1> HIDE DEF new
<1>e. /\ work'[t] = new
      /\ \A u \in Thread : u # t => work'[u] = work[u] /\ tasks'[u] = tasks[u]
  BY <1>a, <1>b, Zenon
<1>1. SubTypes'
  <2>1. work' \in [Thread -> Work]
    BY <1>a, <1>b, <1>d, Zenon
  <2>2. tasks' \in [Thread -> Nat]
    BY <1>a, <1>b
  <2>3. fresh' \in [Fd -> SUBSET Mod]
    BY <1>a, <1>b
  <2> QED
    BY <1>0, <1>a, <2>1, <2>2, <2>3, Zenon DEF SubTypes
<1>2. ASSUME NEW u \in Thread PROVE OwnWork(u)'
  <2>1. CASE u = t
    <3>1. /\ work'[u].need = need /\ loop_of' = loop_of
          /\ work'[u].step \notin {"close", "route", "erase"}
          /\ work'[u].need # {} => work'[u].step = "push"
      <4>1. need # {} => new.step = "push"
        BY DEF new, Doing
      <4> QED
        BY <1>a, <1>d, <1>e, <2>1, <4>1
    <3>2. \A p \in need : loop_of[p[1]] = u
      BY <1>c, <2>1, Zenon
    <3> QED
      BY <3>1, <3>2, Zenon DEF OwnWork
  <2>2. CASE u # t
    BY <1>0, <1>a, <1>e, <2>2, OwnSame, Zenon
  <2> QED
    BY <2>1, <2>2, Zenon
<1>3. BookedWhileOpen'
  BY <1>0, <1>a, Zenon DEF BookedWhileOpen
<1>5. ASSUME NEW f \in Fd, NEW n \in Mod
      PROVE  Unsent(f, n)' /\ (Outdated(f, n)' => PushPending(f, n)' \/ raced'[f])
  <2>1. CASE ~Outdated(f, n)'
    BY <2>1, Zenon DEF Unsent
  <2>2. ASSUME Outdated(f, n)' PROVE Unsent(f, n)' /\ (PushPending(f, n)' \/ raced'[f])
    <3>1. Outdated(f, n) /\ loop_of[f] \in Thread
      BY <1>0, <1>a, <2>2, BehindIsOpen, Zenon DEF Outdated
    <3>2. Unsent(f, n) /\ (PushPending(f, n) \/ raced[f])
      BY <1>0, <3>1, Zenon DEF OnlyEraseLosesPushes
    <3>3. CASE loop_of[f] = t
      <4>1. n \in push_list[f] => <<f, n>> \in work'[loop_of'[f]].need
        BY <1>a, <1>c, <1>d, <1>e, <3>3, Zenon
      <4>2. work[loop_of[f]].need = {} /\ work[loop_of[f]].step # "route"
        BY <1>a, <3>3, IdleWork
      <4>3. <<f, n>> \notin work[loop_of[f]].need
        BY <4>2
      <4>4. PushPending(f, n) => PushPending(f, n)'
        BY <1>a, <4>1, <4>2, <4>3, Zenon DEF PushPending
      <4>5. Unsent(f, n)'
        BY <1>a, <4>1, Zenon DEF Unsent
      <4> QED
        BY <1>a, <3>2, <4>4, <4>5, Zenon
    <3>4. CASE loop_of[f] # t
      <4>1. work'[loop_of'[f]] = work[loop_of[f]] /\ tasks'[loop_of'[f]] = tasks[loop_of[f]]
        BY <1>a, <1>e, <3>1, <3>4, Zenon
      <4>2. fresh'[f] = fresh[f]
        BY <1>a, <3>4 DEF Online
      <4>3. PushPending(f, n) => PushPending(f, n)'
        BY <1>a, <4>1, Zenon DEF PushPending, TaskComing
      <4>4. Unsent(f, n)'
        BY <1>a, <3>1, <3>2, <4>1, <4>2, Zenon DEF Unsent
      <4> QED
        BY <1>a, <3>2, <4>3, <4>4, Zenon
    <3> QED
      BY <3>3, <3>4, Zenon
  <2> QED
    BY <2>1, <2>2, Zenon
<1> QED
  BY <1>0, <1>a, <1>1, <1>2, <1>3, <1>5, Again, Zenon

\* A push sends the current route, so what it sent is behind nothing.
LEMMA push_mod_Inv ==
    ASSUME SubInv, NEW t \in Thread, NEW fd \in Fd, NEW mod \in Mod, push_mod(t, fd, mod)
    PROVE SubInv'
<1>0. /\ SubTypes /\ BookedWhileOpen /\ (\A u \in Thread : OwnWork(u))
      /\ (\A m \in Mod : promised[m] <= route[m])
      /\ (\A f \in Fd, n \in Mod : Unsent(f, n)) /\ OnlyEraseLosesPushes
  BY Zenon DEF SubInv
<1> DEFINE left == work[t].need \ {<<fd, mod>>}
           new == Doing("erase", fd, mod, left)
<1>a. /\ work[t].step = "push" /\ <<fd, mod>> \in work[t].need
      /\ told' = [told EXCEPT ![fd] = [told[fd] EXCEPT ![mod] = route[mod]]]
      /\ fresh' = [fresh EXCEPT ![fd] = fresh[fd] \ {mod}]
      /\ work' = [work EXCEPT ![t] = new]
      /\ route' = route /\ poller' = poller /\ book_list' = book_list /\ push_list' = push_list
      /\ loop_of' = loop_of /\ sub_list' = sub_list /\ tasks' = tasks /\ promised' = promised
      /\ raced' = raced
  BY DEF push_mod, lists, conns
<1>b. /\ told \in [Fd -> [Mod -> Int]] /\ fresh \in [Fd -> SUBSET Mod] /\ route \in [Mod -> Int]
      /\ work \in [Thread -> Work]
  BY <1>0, Zenon DEF SubTypes
<1>c. /\ work[t].need \subseteq Fd \X Mod /\ left \subseteq work[t].need
      /\ \A f, n : <<f, n>> \in left <=> <<f, n>> \in work[t].need /\ (f # fd \/ n # mod)
  BY <1>b DEF Work
<1>o. loop_of[fd] = t /\ \A p \in work[t].need : loop_of[p[1]] = t
  <2>1. \A p \in work[t].need : loop_of[p[1]] = t
    BY <1>0, Zenon DEF OwnWork
  <2> QED
    BY <1>a, <2>1
<1> HIDE DEF left
<1>d. new \in Work /\ new.step = "erase" /\ new.fd = fd /\ new.need = left
  BY <1>c DEF Doing, Work
<1> HIDE DEF new
<1>e. work'[t] = new /\ \A u \in Thread : u # t => work'[u] = work[u]
  BY <1>a, <1>b, Zenon
<1>f. told'[fd][mod] = route[mod]
  BY <1>a, <1>b
<1>g. ASSUME NEW f \in Fd, NEW n \in Mod, f # fd \/ n # mod
      PROVE  told'[f][n] = told[f][n] /\ (n \in fresh'[f] <=> n \in fresh[f])
  <2>1. told'[f][n] = told[f][n]
    BY <1>a, <1>b, <1>g
  <2>2. n \in fresh'[f] <=> n \in fresh[f]
    BY <1>a, <1>b, <1>g
  <2> QED
    BY <2>1, <2>2, Zenon
<1>1. SubTypes'
  <2>1. told' \in [Fd -> [Mod -> Int]]
    BY <1>a, <1>b
  <2>2. fresh' \in [Fd -> SUBSET Mod]
    BY <1>a, <1>b
  <2>3. work' \in [Thread -> Work]
    BY <1>a, <1>b, <1>d, Zenon
  <2> QED
    BY <1>0, <1>a, <2>1, <2>2, <2>3, Zenon DEF SubTypes
<1>2. ASSUME NEW u \in Thread PROVE OwnWork(u)'
  <2>1. CASE u = t
    <3>1. work'[u].step = "erase" /\ work'[u].fd = fd /\ work'[u].need = left /\ loop_of'[fd] = u
      BY <1>a, <1>d, <1>e, <1>o, <2>1, Zenon
    <3>2. \A p \in left : loop_of'[p[1]] = u
      BY <1>a, <1>c, <1>o, <2>1, Zenon
    <3>3. "erase" # "route"
      OBVIOUS
    <3> QED
      BY <3>1, <3>2, <3>3, Zenon DEF OwnWork
  <2>2. CASE u # t
    BY <1>0, <1>a, <1>e, <2>2, OwnSame, Zenon
  <2> QED
    BY <2>1, <2>2, Zenon
<1>3. BookedWhileOpen'
  BY <1>0, <1>a, Zenon DEF BookedWhileOpen
<1>5. ASSUME NEW f \in Fd, NEW n \in Mod
      PROVE  Unsent(f, n)' /\ (Outdated(f, n)' => PushPending(f, n)' \/ raced'[f])
  <2>1. CASE ~Outdated(f, n)'
    BY <2>1, Zenon DEF Unsent
  <2>2. ASSUME Outdated(f, n)' PROVE Unsent(f, n)' /\ (PushPending(f, n)' \/ raced'[f])
    <3>1. f # fd \/ n # mod
      <4>1. ASSUME f = fd, n = mod PROVE FALSE
        <5>1. told'[f][n] < promised[n] /\ told'[f][n] = route[n]
          BY <1>a, <1>f, <2>2, <4>1, Zenon DEF Outdated
        <5>2. promised[n] <= route[n] /\ promised[n] \in Int /\ route[n] \in Int
          BY <1>0, Zenon DEF SubTypes
        <5> QED
          BY <5>1, <5>2
      <4> QED
        BY <4>1, Zenon
    <3>2. Outdated(f, n) /\ loop_of[f] \in Thread
      BY <1>0, <1>a, <1>g, <2>2, <3>1, BehindIsOpen, Zenon DEF Outdated
    <3>3. Unsent(f, n) /\ (PushPending(f, n) \/ raced[f])
      BY <1>0, <3>2, Zenon DEF OnlyEraseLosesPushes
    <3>4. /\ <<f, n>> \in work[loop_of[f]].need => <<f, n>> \in work'[loop_of'[f]].need
          /\ work[loop_of[f]].step = "route" => work'[loop_of'[f]] = work[loop_of[f]]
      <4>1. CASE loop_of[f] = t
        <5>1. work[loop_of[f]].step # "route"
          BY <1>a, <4>1
        <5> QED
          BY <1>a, <1>c, <1>d, <1>e, <3>1, <4>1, <5>1, Zenon
      <4>2. CASE loop_of[f] # t
        BY <1>a, <1>e, <3>2, <4>2, Zenon
      <4> QED
        BY <4>1, <4>2, Zenon
    <3>5. PushPending(f, n) => PushPending(f, n)'
      BY <1>a, <3>4, Zenon DEF PushPending, TaskComing
    <3>6. Unsent(f, n)'
      BY <1>a, <1>g, <3>1, <3>2, <3>3, <3>4, Zenon DEF Unsent
    <3> QED
      BY <1>a, <3>3, <3>5, <3>6, Zenon
  <2> QED
    BY <2>1, <2>2, Zenon
<1> QED
  BY <1>0, <1>a, <1>1, <1>2, <1>3, <1>5, Again, Zenon

\* The erase drops what was sent, and marks the fd when it drops more.
LEMMA erase_Inv ==
    ASSUME SubInv, NEW t \in Thread, erase(t) PROVE SubInv'
<1>0. /\ SubTypes /\ BookedWhileOpen /\ (\A u \in Thread : OwnWork(u))
      /\ (\A m \in Mod : promised[m] <= route[m])
      /\ (\A f \in Fd, n \in Mod : Unsent(f, n)) /\ OnlyEraseLosesPushes
  BY Zenon DEF SubInv
<1> DEFINE fd == work[t].fd
           left == {m \in Mod : <<fd, m>> \in work[t].need}
           new == IF work[t].need = {} THEN Idle
                  ELSE Doing("push", work[t].fd, work[t].mod, work[t].need)
<1>a. /\ work[t].step = "erase"
      /\ push_list' = [push_list EXCEPT ![fd] = {}]
      /\ raced' = [raced EXCEPT ![fd] = raced[fd] \/ fresh[fd] \ left # {}]
      /\ work' = [work EXCEPT ![t] = new]
      /\ route' = route /\ poller' = poller /\ book_list' = book_list /\ loop_of' = loop_of
      /\ sub_list' = sub_list /\ tasks' = tasks /\ told' = told /\ promised' = promised
      /\ fresh' = fresh
  BY DEF erase, conns
<1>b. /\ push_list \in [Fd -> SUBSET Mod] /\ raced \in [Fd -> BOOLEAN] /\ work \in [Thread -> Work]
  BY <1>0, Zenon DEF SubTypes
<1>c. fd \in Fd /\ loop_of[fd] = t /\ \A p \in work[t].need : loop_of[p[1]] = t
  <2>1. OwnWork(t)
    BY <1>0, Zenon
  <2> QED
    BY <1>a, <2>1 DEF OwnWork
<1>d. /\ new \in Work /\ new.need = work[t].need /\ new.step \in {"idle", "push"}
      /\ work[t].need # {} => new.step = "push"
  <2>1. CASE work[t].need = {}
    BY <2>1, IdleWork
  <2>2. CASE work[t].need # {}
    <3>1. work[t].fd \in Fd \cup {Nobody} /\ work[t].mod \in Mod \cup {Nobody} /\ work[t].need \in SUBSET (Fd \X Mod)
      BY <1>b DEF Work
    <3> QED
      BY <2>2, <3>1 DEF Doing, Work
  <2> QED
    BY <2>1, <2>2, Zenon
<1> HIDE DEF fd, new
<1>e. work'[t] = new /\ \A u \in Thread : u # t => work'[u] = work[u]
  BY <1>a, <1>b, Zenon
<1>f. \A f \in Fd : f # fd => push_list'[f] = push_list[f] /\ raced'[f] = raced[f]
  BY <1>a, <1>b, Zenon
<1>g. push_list'[fd] = {} /\ raced'[fd] = (raced[fd] \/ fresh[fd] \ left # {})
  BY <1>a, <1>b, <1>c, Zenon
<1>1. SubTypes'
  <2>1. push_list' \in [Fd -> SUBSET Mod]
    BY <1>a, <1>b, Zenon
  <2>2. raced' \in [Fd -> BOOLEAN]
    <3>1. (raced[fd] \/ fresh[fd] \ left # {}) \in BOOLEAN
      BY Zenon
    <3> QED
      BY <1>a, <1>b, <3>1, Zenon
  <2>3. work' \in [Thread -> Work]
    BY <1>a, <1>b, <1>d, Zenon
  <2> QED
    BY <1>0, <1>a, <2>1, <2>2, <2>3, Zenon DEF SubTypes
<1>2. ASSUME NEW u \in Thread PROVE OwnWork(u)'
  <2>1. CASE u = t
    <3>1. /\ work'[u].need = work[t].need /\ loop_of' = loop_of
          /\ work'[u].step \notin {"close", "route", "erase"}
          /\ work'[u].need # {} => work'[u].step = "push"
      BY <1>a, <1>d, <1>e, <2>1
    <3>2. \A p \in work[t].need : loop_of[p[1]] = u
      BY <1>c, <2>1, Zenon
    <3> QED
      BY <3>1, <3>2, Zenon DEF OwnWork
  <2>2. CASE u # t
    BY <1>0, <1>a, <1>e, <2>2, OwnSame, Zenon
  <2> QED
    BY <2>1, <2>2, Zenon
<1>3. BookedWhileOpen'
  BY <1>0, <1>a, Zenon DEF BookedWhileOpen
<1>5. ASSUME NEW f \in Fd, NEW n \in Mod
      PROVE  Unsent(f, n)' /\ (Outdated(f, n)' => PushPending(f, n)' \/ raced'[f])
  <2>1. CASE ~Outdated(f, n)'
    BY <2>1, Zenon DEF Unsent
  <2>2. ASSUME Outdated(f, n)' PROVE Unsent(f, n)' /\ (PushPending(f, n)' \/ raced'[f])
    <3>1. Outdated(f, n) /\ loop_of[f] \in Thread
      BY <1>0, <1>a, <2>2, BehindIsOpen, Zenon DEF Outdated
    <3>2. Unsent(f, n) /\ (PushPending(f, n) \/ raced[f])
      BY <1>0, <3>1, Zenon DEF OnlyEraseLosesPushes
    <3>3. /\ loop_of'[f] = loop_of[f] /\ work'[loop_of[f]].need = work[loop_of[f]].need
          /\ work[loop_of[f]].step = "route" => work'[loop_of[f]] = work[loop_of[f]]
      <4>1. "erase" # "route"
        OBVIOUS
      <4> QED
        BY <1>a, <1>d, <1>e, <3>1, <4>1, Zenon
    <3>4. CASE f # fd
      <4>1. push_list'[f] = push_list[f] /\ raced'[f] = raced[f]
        BY <1>f, <3>4, Zenon
      <4>2. PushPending(f, n) => PushPending(f, n)'
        BY <1>a, <3>3, <4>1, Zenon DEF PushPending, TaskComing
      <4>3. Unsent(f, n)'
        BY <1>a, <3>1, <3>2, <3>3, <4>1, Zenon DEF Unsent
      <4> QED
        BY <3>2, <4>1, <4>2, <4>3, Zenon
    <3>5. CASE f = fd
      <4>1. n \notin push_list'[f] /\ (raced[f] => raced'[f])
        BY <1>g, <3>5, Zenon
      <4>2. Unsent(f, n)'
        BY <4>1, Zenon DEF Unsent
      <4>3. CASE raced[f]
        BY <4>1, <4>2, <4>3, Zenon
      <4>4. CASE n \in fresh[f] /\ <<f, n>> \notin work[t].need
        <5>1. fresh[f] \ left # {}
          BY <3>5, <4>4, Zenon
        <5> QED
          BY <1>g, <3>5, <4>2, <5>1, Zenon
      <4>5. ASSUME PushPending(f, n), ~(n \in fresh[f] /\ <<f, n>> \notin work[t].need), ~raced[f]
            PROVE  PushPending(f, n)'
        <5>1. loop_of[f] = t
          BY <1>c, <3>5, Zenon
        <5>2. CASE <<f, n>> \in work[t].need
          BY <3>3, <5>1, <5>2, Zenon DEF PushPending
        <5>3. CASE n \in push_list[f] /\ <<f, n>> \notin work[t].need
          <6>1. /\ \/ poller.step = "publish" /\ n \in poller.mods
                   \/ LET w == work[loop_of[f]] IN w.step = "route" /\ w.fd = f /\ w.mod = n
            BY <3>1, <3>2, <4>5, <5>1, <5>3, Zenon DEF Unsent
          <6> QED
            BY <1>a, <3>3, <6>1, Zenon DEF PushPending
        <5>4. CASE n \notin push_list[f] /\ <<f, n>> \notin work[t].need
          <6>1. /\ \/ poller.step = "publish" /\ n \in poller.mods
                   \/ LET w == work[loop_of[f]] IN w.step = "route" /\ w.fd = f /\ w.mod = n
            BY <4>5, <5>1, <5>4, Zenon DEF PushPending
          <6> QED
            BY <1>a, <3>3, <6>1, Zenon DEF PushPending
        <5> QED
          BY <5>2, <5>3, <5>4, Zenon
      <4> QED
        BY <3>2, <4>2, <4>3, <4>4, <4>5, Zenon
    <3> QED
      BY <3>4, <3>5, Zenon
  <2> QED
    BY <2>1, <2>2, Zenon
<1> QED
  BY <1>0, <1>a, <1>1, <1>2, <1>3, <1>5, Again, Zenon

\* Every step of a worker thread or of the poller preserves the invariant.
LEMMA SubNextInv == SubInv /\ [SubNext]_subVars => SubInv'
<1> SUFFICES ASSUME SubInv, [SubNext]_subVars PROVE SubInv'
  OBVIOUS
<1>1. ASSUME NEW t \in Thread, NEW fd \in Fd, create_subscribe(t, fd) PROVE SubInv'
  BY <1>1, create_subscribe_Inv
<1>2. ASSUME NEW t \in Thread, NEW fd \in Fd, clean_conn(t, fd) PROVE SubInv'
  BY <1>2, clean_conn_Inv
<1>3. ASSUME NEW t \in Thread, clear_subscribe(t) PROVE SubInv'
  BY <1>3, unsubscribe_Inv, close_Inv, Zenon DEF clear_subscribe
<1>4. ASSUME NEW t \in Thread, NEW fd \in Fd, NEW mod \in Mod, get_route(t, fd, mod)
      PROVE SubInv'
  BY <1>4, get_route_Inv
<1>5. ASSUME NEW t \in Thread, get_route_answer(t) PROVE SubInv'
  BY <1>5, get_route_answer_Inv
<1>6. ASSUME NEW t \in Thread, push_change_task(t) PROVE SubInv'
  BY <1>6, make_publish_map_Inv, push_mod_Inv, erase_Inv, Zenon DEF push_change_task
<1>7. ASSUME NEW changed \in SUBSET Mod, NEW change_mods \in SUBSET Mod,
             swap(changed, change_mods)
      PROVE SubInv'
  BY <1>7, swap_Inv
<1>8. CASE publish
  BY <1>8, publish_Inv
<1>9. CASE send_task
  BY <1>9, send_task_Inv
<1>10. CASE UNCHANGED subVars
  <2>1. SubTypes' /\ BookedWhileOpen' /\ OnlyEraseLosesPushes'
    BY <1>10 DEF SubInv, subVars, lists, conns, SubTypes, BookedWhileOpen, OnlyEraseLosesPushes,
                 Outdated, PushPending, TaskComing
  <2>2. ASSUME NEW t \in Thread PROVE OwnWork(t)'
    BY <1>10, Zenon DEF SubInv, subVars, conns, OwnWork
  <2>3. ASSUME NEW fd \in Fd, NEW m \in Mod PROVE Unsent(fd, m)'
    BY <1>10, Zenon DEF SubInv, subVars, lists, conns, Unsent, Outdated
  <2>4. ASSUME NEW m \in Mod PROVE (promised[m] <= route[m])'
    BY <1>10 DEF SubInv, subVars
  <2> QED
    BY <2>1, <2>2, <2>3, <2>4 DEF SubInv
<1> QED
  BY <1>1, <1>2, <1>3, <1>4, <1>5, <1>6, <1>7, <1>8, <1>9, <1>10, Zenon DEF SubNext

\* The book list and the subscriptions of the connections agree, and only open
\* connections are booked, whatever the number of worker threads: subscribe,
\* unsubscribe and clear_subscribe keep them so
\* (subscribe.cpp:17-44, dns_service.cpp:23-37, 73-88).
THEOREM Booked == SubSpec => []BookedWhileOpen
<1>1. SubInv => BookedWhileOpen
  BY DEF SubInv
<1> QED
  BY <1>1, SubInitInv, SubNextInv, PTL DEF SubSpec

\* For any descriptors, modules, worker threads and number of reloads, a
\* subscriber that has seen an older route than the last one published has a
\* push on its way, or push_change_task erased one that was published while it
\* was sending: no other interleaving of the subscription, the answer, publish
\* and the push tasks loses a change (subscribe.cpp:47-172, dns_service.cpp:30-40).
THEOREM LostByEraseOnly == SubSpec => []OnlyEraseLosesPushes
<1>1. SubInv => OnlyEraseLosesPushes
  BY DEF SubInv
<1> QED
  BY <1>1, SubInitInv, SubNextInv, PTL DEF SubSpec

-----------------------------------------------------------------------------
(* TcpConn                                                                 *)

USE SMTT(60), ZenonT(60)

-----------------------------------------------------------------------------
(* What is known of sequences                                              *)

\* The positions of a sequence.
LEMMA SeqLen ==
    ASSUME NEW S, NEW s \in Seq(S)
    PROVE  Len(s) \in Nat /\ DOMAIN s = 1 .. Len(s) /\ s \in [1 .. Len(s) -> S]
OBVIOUS

\* The elements of a sequence.
LEMMA SeqAt == ASSUME NEW S, NEW s \in Seq(S), NEW k \in 1 .. Len(s) PROVE s[k] \in S
OBVIOUS

\* The empty sequence, the only one of length 0.
LEMMA SeqNone ==
    ASSUME NEW S
    PROVE  <<>> \in Seq(S) /\ Len(<<>>) = 0 /\ \A s \in Seq(S) : s # <<>> => Len(s) \in Nat \ {0}
OBVIOUS

\* A sequence with one more element at its end.
LEMMA SeqAppend ==
    ASSUME NEW S, NEW s \in Seq(S), NEW e \in S
    PROVE  /\ Append(s, e) \in Seq(S) /\ Append(s, e) # <<>> /\ Len(Append(s, e)) = Len(s) + 1
           /\ \A k \in 1 .. Len(s) : Append(s, e)[k] = s[k]
           /\ Append(s, e)[Len(s) + 1] = e
OBVIOUS

\* Two sequences, one after the other.
LEMMA SeqConcat ==
    ASSUME NEW S, NEW s \in Seq(S), NEW t \in Seq(S)
    PROVE  /\ s \o t \in Seq(S) /\ Len(s \o t) = Len(s) + Len(t)
           /\ \A k \in 1 .. Len(s) + Len(t) : (s \o t)[k] = IF k <= Len(s) THEN s[k] ELSE t[k - Len(s)]
OBVIOUS

\* A sequence with an empty one before or after it.
LEMMA SeqConcatNone == ASSUME NEW S, NEW s \in Seq(S) PROVE s \o <<>> = s /\ <<>> \o s = s
OBVIOUS

\* Sequences with the same elements are the same.
LEMMA SeqSame ==
    ASSUME NEW S, NEW s \in Seq(S), NEW t \in Seq(S), Len(s) = Len(t),
           \A k \in 1 .. Len(s) : s[k] = t[k]
    PROVE  s = t
OBVIOUS

\* Three sequences, one after the other.
LEMMA SeqAssoc ==
    ASSUME NEW S, NEW s \in Seq(S), NEW t \in Seq(S), NEW u \in Seq(S)
    PROVE  (s \o t) \o u = s \o (t \o u)
OBVIOUS

\* A part of a sequence.
LEMMA SeqPart ==
    ASSUME NEW S, NEW s, NEW m \in Int, NEW n \in Int, \A k \in m .. n : s[k] \in S
    PROVE  /\ SubSeq(s, m, n) \in Seq(S) /\ Len(SubSeq(s, m, n)) = IF m <= n THEN n - m + 1 ELSE 0
           /\ \A k \in 1 .. n - m + 1 : SubSeq(s, m, n)[k] = s[m + k - 1]
OBVIOUS

\* The part that is all of a sequence.
LEMMA SeqWhole == ASSUME NEW S, NEW s \in Seq(S) PROVE SubSeq(s, 1, Len(s)) = s
OBVIOUS

\* Two parts of a sequence that are next to each other.
LEMMA SeqSplit ==
    ASSUME NEW S, NEW s \in Seq(S), NEW m \in 1 .. Len(s) + 1, NEW k \in m - 1 .. Len(s), NEW n \in k .. Len(s)
    PROVE  SubSeq(s, m, k) \o SubSeq(s, k + 1, n) = SubSeq(s, m, n)
OBVIOUS

AByte == [msg : Nat, msglen : Nat, at : Nat]

Types ==
    /\ sent \in Seq(Length) /\ handled \in Seq(Seq(AByte))
    /\ obuf \in Seq(AByte) /\ net \in Seq(AByte) /\ ibuf \in Seq(AByte)
    /\ popped \in BOOLEAN /\ out \in BOOLEAN /\ pc \in {"epoll", "loop"}
    /\ sender \in Ends /\ receiver \in Ends

\* While a sender can still write, its buffer continues what is in the sockets.
Writes == sender = "open" /\ ~popped
Rest == IF Writes THEN obuf ELSE <<>>
Underway == (ibuf \o net) \o Rest

\* l are the lengths of the messages that were sent.  b is a byte of one of
\* them, and c the byte that was sent after it.
IsSent(b, l) ==
    /\ b.msg \in 1 .. Len(l) /\ b.msglen = l[b.msg]
    /\ b.at \in 1 .. MESSAGE_HEAD_LEN + b.msglen
Follows(b, c) ==
    IF b.at < MESSAGE_HEAD_LEN + b.msglen
    THEN c.msg = b.msg /\ c.at = b.at + 1
    ELSE c.msg = b.msg + 1 /\ c.at = 1

\* The bytes of s are bytes that were sent, without a gap, from the first
\* byte of message h + 1.
InStep(s, l, h) ==
    /\ \A i \in 1 .. Len(s) : IsSent(s[i], l)
    /\ \A i \in 1 .. Len(s) - 1 : Follows(s[i], s[i + 1])
    /\ Len(s) > 0 => s[1].msg = h + 1 /\ s[1].at = 1

\* Nothing that was sent comes after s.
ToTheEnd(s, l, h) ==
    IF Len(s) = 0 THEN h = Len(l)
    ELSE s[Len(s)].msg = Len(l) /\ s[Len(s)].at = MESSAGE_HEAD_LEN + s[Len(s)].msglen

LongSent == \E m \in 1 .. Len(sent) : sent[m] > MESSAGE_LENGTH_LIMIT

Inv ==
    /\ Types
    /\ WholeMessagesInOrder
    /\ receiver = "open" => InStep(Underway, sent, Len(handled))
    /\ receiver = "open" /\ Writes =>
            ToTheEnd(Underway, sent, Len(handled)) /\ OnTheWay = Stream
    /\ receiver = "closed" /\ sender = "open" => LongSent

-----------------------------------------------------------------------------
(* Sequences                                                               *)

\* Of some naturals one is the smallest: what proofs by induction rest on.
LEMMA Least ==
    ASSUME NEW D, D \subseteq Nat, D # {}
    PROVE  \E x \in D : \A y \in D : x <= y
<1> DEFINE less == {p \in Nat \X Nat : p[1] < p[2]}
<1>1. IsWellFoundedOn(less, Nat)
  BY NatLessThanWellFounded DEF OpToRel
<1>2. \E x \in D : \A y \in D : ~(<<y, x>> \in less)
  <2> HIDE DEF less
  <2> QED
    BY <1>1, WFMin, Zenon
<1>3. PICK x \in D : \A y \in D : ~(<<y, x>> \in less)
  BY <1>2
<1>4. ASSUME NEW y \in D PROVE x <= y
  <2>1. x \in Nat /\ y \in Nat /\ <<y, x>> \notin less
    BY <1>3
  <2> QED
    BY <2>1
<1> QED
  BY <1>4

\* f tells what the first i sequences of seqs are together.
Adds(f, seqs, n) == f[0] = <<>> /\ \A i \in 1 .. n : f[i] = f[i - 1] \o seqs[i]
Sums(f, seqs, S) == f \in [0 .. Len(seqs) -> Seq(S)] /\ Adds(f, seqs, Len(seqs))

\* There is such a function.
LEMMA SumsExist ==
    ASSUME NEW S, NEW seqs \in Seq(Seq(S)) PROVE \E f : Sums(f, seqs, S)
<1> DEFINE Up(n) == \E f \in [0 .. n -> Seq(S)] :
                        f[0] = <<>> /\ \A i \in 1 .. n : f[i] = f[i - 1] \o seqs[i]
           D == {n \in 0 .. Len(seqs) : ~Up(n)}
<1>1. Len(seqs) \in Nat /\ \A i \in 1 .. Len(seqs) : seqs[i] \in Seq(S)
  BY SeqLen, SeqAt
<1>2. Up(0)
  <2> DEFINE f == [i \in 0 .. 0 |-> <<>>]
  <2>1. f \in [0 .. 0 -> Seq(S)] /\ f[0] = <<>>
    BY SeqNone
  <2>2. \A i \in 1 .. 0 : FALSE
    OBVIOUS
  <2> HIDE DEF f
  <2> QED
    BY <2>1, <2>2, Zenon
<1>3. D \subseteq Nat /\ \A n \in 0 .. Len(seqs) : n \notin D => Up(n)
  <2> HIDE DEF Up
  <2> QED
    BY <1>1
<1>4. \A n \in D : n \in 0 .. Len(seqs) /\ ~Up(n)
  BY Zenon
<1> HIDE DEF D
<1>5. D = {}
  <2> SUFFICES ASSUME D # {} PROVE FALSE
    BY Zenon
  <2>1. PICK n \in D : \A m \in D : n <= m
    BY <1>3, Least, Zenon
  <2>2. n # 0
    BY <1>2, <1>4, Zenon
  <2>3. n - 1 \in 0 .. Len(seqs) /\ n \in 1 .. Len(seqs) /\ n - 1 \notin D
    <3> HIDE DEF Up
    <3> QED
      BY <1>1, <1>4, <2>1, <2>2
  <2>4. Up(n - 1)
    BY <1>3, <2>3, Zenon
  <2>5. PICK f \in [0 .. n - 1 -> Seq(S)] :
            f[0] = <<>> /\ \A i \in 1 .. n - 1 : f[i] = f[i - 1] \o seqs[i]
    BY <2>4, Zenon
  <2> DEFINE g == [i \in 0 .. n |-> IF i = n THEN f[n - 1] \o seqs[n] ELSE f[i]]
  <2>6. f[n - 1] \o seqs[n] \in Seq(S)
    <3>1. f[n - 1] \in Seq(S) /\ seqs[n] \in Seq(S)
      BY <1>1, <2>3, <2>5
    <3> QED
      BY <3>1, SeqConcat
  <2>7. g \in [0 .. n -> Seq(S)]
    BY <2>3, <2>5, <2>6
  <2>8. g[0] = <<>>
    BY <2>2, <2>3, <2>5
  <2>9. ASSUME NEW i \in 1 .. n PROVE g[i] = g[i - 1] \o seqs[i]
    <3>1. g[i - 1] = f[i - 1]
      BY <2>3
    <3>2. g[i] = IF i = n THEN f[n - 1] \o seqs[n] ELSE f[i]
      BY <2>3
    <3>3. i # n => i \in 1 .. n - 1
      BY <2>3
    <3> HIDE DEF g
    <3> QED
      BY <3>1, <3>2, <3>3, <2>5, Zenon
  <2> HIDE DEF g
  <2>10. Up(n)
    BY <2>7, <2>8, <2>9, Zenon
  <2> QED
    BY <1>4, <2>1, <2>10, Zenon
<1>6. Len(seqs) \in 0 .. Len(seqs)
  BY <1>1
<1>7. Up(Len(seqs))
  BY <1>3, <1>5, <1>6, Zenon
<1> QED
  BY <1>7, Zenon DEF Sums, Adds

\* There is no other.
LEMMA SumsUnique ==
    ASSUME NEW seqs, NEW n \in Nat, NEW f, NEW g, Adds(f, seqs, n), Adds(g, seqs, n)
    PROVE  f[n] = g[n]
<1> USE DEF Adds
<1> DEFINE D == {i \in 0 .. n : f[i] # g[i]}
<1> SUFFICES ASSUME n \in D PROVE FALSE
  OBVIOUS
<1>1. PICK i \in D : \A j \in D : i <= j
  <2>1. D \subseteq Nat
    OBVIOUS
  <2> HIDE DEF D
  <2> QED
    BY <2>1, Least, Zenon
<1>2. i \in 1 .. n /\ i - 1 \in 0 .. n /\ i - 1 \notin D /\ f[i] # g[i]
  BY <1>1
<1> QED
  BY <1>2, Zenon

\* Flatten is what such a function says of all the sequences.
LEMMA FlattenOf ==
    ASSUME NEW S, NEW seqs \in Seq(Seq(S))
    PROVE  \E f : Sums(f, seqs, S) /\ Flatten(seqs) = f[Len(seqs)]
<1> DEFINE Rec(f) == f = [i \in 0 .. Len(seqs) |->
                            IF i = 0 THEN <<>> ELSE f[i - 1] \o seqs[i]]
           flat == CHOOSE f : Rec(f)
<1>1. Len(seqs) \in Nat /\ \A i \in 1 .. Len(seqs) : seqs[i] \in Seq(S)
  BY SeqLen, SeqAt
<1>2. PICK f : Sums(f, seqs, S)
  BY SumsExist
<1>3. Rec(f)
  <2>1. f \in [0 .. Len(seqs) -> Seq(S)] /\ f[0] = <<>>
        /\ \A i \in 1 .. Len(seqs) : f[i] = f[i - 1] \o seqs[i]
    BY <1>2, Zenon DEF Sums, Adds
  <2>2. \A i \in 0 .. Len(seqs) : i # 0 => i \in 1 .. Len(seqs)
    BY <1>1
  <2> QED
    BY <2>1, <2>2, Zenon
<1>4. Rec(flat)
  BY <1>3, Zenon
<1>5. Flatten(seqs) = flat[Len(seqs)]
  BY DEF Flatten
<1> HIDE DEF flat
<1>6. \A i \in 0 .. Len(seqs) : flat[i] = IF i = 0 THEN <<>> ELSE flat[i - 1] \o seqs[i]
  BY <1>4, Zenon
<1>7. 0 \in 0 .. Len(seqs) /\ \A i \in 1 .. Len(seqs) : i \in 0 .. Len(seqs) /\ i # 0
  BY <1>1
<1> HIDE DEF Rec
<1>8. Adds(flat, seqs, Len(seqs))
  BY <1>6, <1>7, Zenon DEF Adds
<1>9. flat[Len(seqs)] = f[Len(seqs)]
  BY <1>1, <1>2, <1>8, SumsUnique, Zenon DEF Sums
<1> QED
  BY <1>2, <1>5, <1>9, Zenon

\* Flatten joins one message more to the bytes of the messages before it.
LEMMA FlattenAppend ==
    ASSUME NEW S, NEW seqs \in Seq(Seq(S)), NEW e \in Seq(S)
    PROVE  /\ Flatten(seqs) \in Seq(S)
           /\ Flatten(Append(seqs, e)) = Flatten(seqs) \o e
<1> DEFINE n == Len(seqs)
           more == Append(seqs, e)
<1>1. /\ n \in Nat /\ more \in Seq(Seq(S)) /\ Len(more) = n + 1 /\ more[n + 1] = e
      /\ \A i \in 1 .. n : more[i] = seqs[i]
  BY SeqLen, SeqAppend
<1>2. PICK f : Sums(f, seqs, S) /\ Flatten(seqs) = f[n]
  BY FlattenOf, Zenon
<1> HIDE DEF more
<1>3. PICK g : Sums(g, more, S) /\ Flatten(more) = g[Len(more)]
  BY <1>1, FlattenOf, Zenon
<1>4. f[n] \in Seq(S) /\ Adds(f, seqs, n)
  <2>1. n \in 0 .. n
    BY <1>1
  <2> QED
    BY <1>2, <2>1, Zenon DEF Sums
<1>5. g[0] = <<>> /\ \A i \in 1 .. n + 1 : g[i] = g[i - 1] \o more[i]
  BY <1>1, <1>3, Zenon DEF Sums, Adds
<1> HIDE DEF n
<1>6. \A i \in 1 .. n : i \in 1 .. n + 1
  BY <1>1
<1>7. Adds(g, seqs, n)
  BY <1>1, <1>5, <1>6, Zenon DEF Adds
<1>8. f[n] = g[n]
  BY <1>1, <1>4, <1>7, SumsUnique, Zenon
<1>9. n + 1 \in 1 .. n + 1 /\ (n + 1) - 1 = n
  BY <1>1
<1>10. g[n + 1] = g[n] \o e
  BY <1>1, <1>5, <1>9, Zenon
<1> QED
  BY <1>1, <1>2, <1>3, <1>4, <1>8, <1>10, Zenon DEF more

\* No message has no bytes.
LEMMA FlattenNone == Flatten(<<>>) = <<>>
<1>1. <<>> \in Seq(Seq({})) /\ Len(<<>>) = 0
  BY SeqNone
<1> QED
  BY <1>1, FlattenOf, Zenon DEF Sums, Adds

Longer(g, f, e, n, S) ==
    /\ n \in Nat /\ e \in S /\ f \in [1 .. n -> S] /\ g \in [1 .. n + 1 -> S]
    /\ g[n + 1] = e /\ \A i \in 1 .. n : g[i] = f[i]

\* A function that has one element more than a sequence is the sequence with
\* the element appended.
LEMMA OneMore ==
    ASSUME NEW S, NEW n, NEW e, NEW f, NEW g, Longer(g, f, e, n, S)
    PROVE  f \in Seq(S) /\ g = Append(f, e)
<1> USE DEF Longer
<1>1. f \in Seq(S) /\ Len(f) = n
  OBVIOUS
<1> DEFINE h == Append(f, e)
<1>2. h \in Seq(S) /\ Len(h) = n + 1 /\ h[n + 1] = e /\ \A i \in 1 .. n : h[i] = f[i]
  BY <1>1, SeqAppend
<1>3. h = [i \in DOMAIN h |-> h[i]] /\ DOMAIN h = 1 .. n + 1
  BY <1>2, SeqLen, Zenon
<1> HIDE DEF h
<1>4. ASSUME NEW i \in 1 .. n + 1 PROVE g[i] = h[i]
  <2>1. i = n + 1 \/ i \in 1 .. n
    OBVIOUS
  <2> QED
    BY <1>2, <2>1, Zenon
<1> QED
  BY <1>1, <1>3, <1>4, Zenon DEF h

-----------------------------------------------------------------------------
(* The bytes of the messages                                               *)

\* What send_message appends: the bytes of the message, one after the other.
LEMMA MessageOf ==
    ASSUME NEW m \in Nat, NEW len \in Nat
    PROVE  /\ HeadOf(m, len) \in Seq(AByte) /\ BodyOf(m, len) \in Seq(AByte)
           /\ Len(HeadOf(m, len)) = MESSAGE_HEAD_LEN
           /\ HeadOf(m, len) \o BodyOf(m, len) \in Seq(AByte)
           /\ Len(HeadOf(m, len) \o BodyOf(m, len)) = MESSAGE_HEAD_LEN + len
           /\ \A i \in 1 .. MESSAGE_HEAD_LEN + len :
                    (HeadOf(m, len) \o BodyOf(m, len))[i] = Byte(m, len, i)
<1> DEFINE a == HeadOf(m, len)
           b == BodyOf(m, len)
<1> USE ConnAssumption
<1>1. \A i \in Nat : Byte(m, len, i) \in AByte
  BY DEF Byte, AByte
<1>2. a \in Seq(AByte) /\ Len(a) = MESSAGE_HEAD_LEN
      /\ \A i \in 1 .. MESSAGE_HEAD_LEN : a[i] = Byte(m, len, i)
  BY <1>1 DEF HeadOf
<1>3. b \in Seq(AByte) /\ Len(b) = len
      /\ \A i \in 1 .. len : b[i] = Byte(m, len, MESSAGE_HEAD_LEN + i)
  BY <1>1 DEF BodyOf
<1> HIDE DEF a, b
<1>4. /\ a \o b \in Seq(AByte) /\ Len(a \o b) = MESSAGE_HEAD_LEN + len
      /\ \A i \in 1 .. MESSAGE_HEAD_LEN + len : (a \o b)[i] =
                     IF i <= MESSAGE_HEAD_LEN THEN a[i] ELSE b[i - MESSAGE_HEAD_LEN]
  BY <1>2, <1>3, SeqConcat, Zenon
<1>5. ASSUME NEW i \in 1 .. MESSAGE_HEAD_LEN + len PROVE (a \o b)[i] = Byte(m, len, i)
  <2>1. CASE i <= MESSAGE_HEAD_LEN
    BY <1>2, <1>4, <2>1
  <2>2. CASE i > MESSAGE_HEAD_LEN
    <3>1. i - MESSAGE_HEAD_LEN \in 1 .. len /\ MESSAGE_HEAD_LEN + (i - MESSAGE_HEAD_LEN) = i
      BY <2>2
    <3> QED
      BY <1>3, <1>4, <2>2, <3>1
  <2>3. i <= MESSAGE_HEAD_LEN \/ i > MESSAGE_HEAD_LEN
    OBVIOUS
  <2> QED
    BY <2>1, <2>2, <2>3, Zenon
<1> QED
  BY <1>2, <1>3, <1>4, <1>5 DEF a, b

\* What is in front of bytes that are in step is in step.
LEMMA FrontInStep ==
    ASSUME NEW s \in Seq(AByte), NEW t \in Seq(AByte), NEW l, NEW h, InStep(s \o t, l, h)
    PROVE  InStep(s, l, h)
<1>1. /\ Len(s) \in Nat /\ Len(t) \in Nat /\ Len(s \o t) = Len(s) + Len(t)
      /\ \A i \in 1 .. Len(s) : (s \o t)[i] = s[i]
  BY SeqLen, SeqConcat
<1> DEFINE st == s \o t
<1>2. /\ \A i \in 1 .. Len(st) : IsSent(st[i], l)
      /\ \A i \in 1 .. Len(st) - 1 : Follows(st[i], st[i + 1])
      /\ Len(st) > 0 => st[1].msg = h + 1 /\ st[1].at = 1
  BY DEF InStep
<1>3. Len(st) = Len(s) + Len(t) /\ \A i \in 1 .. Len(s) : st[i] = s[i]
  BY <1>1
<1> HIDE DEF st
<1>4. \A i \in 1 .. Len(s) : IsSent(s[i], l)
  BY <1>1, <1>2, <1>3
<1>5. ASSUME NEW i \in 1 .. Len(s) - 1 PROVE Follows(s[i], s[i + 1])
  <2>1. i \in 1 .. Len(s) /\ i + 1 \in 1 .. Len(s) /\ i \in 1 .. Len(st) - 1
    BY <1>1, <1>3
  <2> QED
    BY <1>2, <1>3, <2>1, Zenon
<1>6. Len(s) > 0 => s[1].msg = h + 1 /\ s[1].at = 1
  BY <1>1, <1>2, <1>3
<1> QED
  BY <1>4, <1>5, <1>6 DEF InStep

\* A message that is sent continues what was sent before it.
LEMMA MoreInStep ==
    ASSUME NEW s \in Seq(AByte), NEW l \in Seq(Length), NEW h \in Nat, NEW len \in Length,
           InStep(s, l, h), ToTheEnd(s, l, h), NEW a,
           a = HeadOf(Len(l) + 1, len) \o BodyOf(Len(l) + 1, len)
    PROVE  InStep(s \o a, Append(l, len), h) /\ ToTheEnd(s \o a, Append(l, len), h)
<1> DEFINE H == MESSAGE_HEAD_LEN
           n == Len(l)
           k == Append(l, len)
           r == s \o a
<1>1. /\ n \in Nat /\ Len(k) = n + 1 /\ k[n + 1] = len /\ \A i \in 1 .. n : k[i] = l[i]
      /\ H \in Nat \ {0} /\ len \in Nat /\ Len(s) \in Nat
  BY SeqLen, SeqAppend, ConnAssumption
<1>2. /\ a \in Seq(AByte) /\ Len(a) = H + len
      /\ \A i \in 1 .. H + len : a[i] = [msg |-> n + 1, msglen |-> len, at |-> i]
  <2> DEFINE m == n + 1
  <2>1. m \in Nat /\ a = HeadOf(m, len) \o BodyOf(m, len)
    BY <1>1
  <2> HIDE DEF n, m
  <2>2. /\ HeadOf(m, len) \o BodyOf(m, len) \in Seq(AByte)
        /\ Len(HeadOf(m, len) \o BodyOf(m, len)) = MESSAGE_HEAD_LEN + len
        /\ \A i \in 1 .. MESSAGE_HEAD_LEN + len :
                (HeadOf(m, len) \o BodyOf(m, len))[i] = Byte(m, len, i)
    BY <1>1, <2>1, MessageOf, Zenon
  <2> QED
    BY <2>1, <2>2, Zenon DEF Byte, m
<1>3. /\ Len(r) = Len(s) + (H + len)
      /\ \A i \in 1 .. Len(s) : r[i] = s[i]
      /\ \A i \in 1 .. H + len : r[Len(s) + i] = [msg |-> n + 1, msglen |-> len, at |-> i]
  <2>1. /\ Len(r) = Len(s) + Len(a)
        /\ \A i \in 1 .. Len(s) + Len(a) : r[i] = IF i <= Len(s) THEN s[i] ELSE a[i - Len(s)]
    BY <1>2, SeqConcat
  <2> HIDE DEF r, k, n
  <2>2. ASSUME NEW i \in 1 .. H + len
        PROVE  r[Len(s) + i] = a[i]
    <3>1. /\ Len(s) + i \in 1 .. Len(s) + Len(a) /\ ~(Len(s) + i <= Len(s))
          /\ (Len(s) + i) - Len(s) = i
      BY <1>1, <1>2
    <3> QED
      BY <2>1, <3>1, Zenon
  <2>3. ASSUME NEW i \in 1 .. Len(s) PROVE r[i] = s[i]
    BY <1>1, <1>2, <2>1
  <2> QED
    BY <1>2, <2>1, <2>2, <2>3, Zenon
<1> HIDE DEF r, k, n, H
<1>4. \A i \in 1 .. Len(s) : s[i] \in AByte
  BY SeqAt
<1>5. ASSUME NEW i \in 1 .. Len(r) PROVE IsSent(r[i], k)
  <2>1. CASE i \in 1 .. Len(s)
    <3>1. IsSent(s[i], l) /\ r[i] = s[i]
      BY <1>3, <2>1 DEF InStep
    <3> QED
      BY <1>1, <3>1 DEF IsSent, n
  <2>2. CASE i \notin 1 .. Len(s)
    <3>1. i - Len(s) \in 1 .. H + len /\ Len(s) + (i - Len(s)) = i
      BY <1>1, <1>3, <2>2
    <3>2. r[i] = [msg |-> n + 1, msglen |-> len, at |-> i - Len(s)]
      BY <1>3, <3>1, Zenon
    <3> QED
      BY <1>1, <3>1, <3>2 DEF IsSent, H
  <2> QED
    BY <2>1, <2>2
<1>6. ASSUME NEW i \in 1 .. Len(r) - 1 PROVE Follows(r[i], r[i + 1])
  <2>1. CASE i < Len(s)
    <3>1. i \in 1 .. Len(s) - 1 /\ i \in 1 .. Len(s) /\ i + 1 \in 1 .. Len(s)
      BY <1>1, <1>3, <2>1
    <3> QED
      BY <1>3, <3>1, Zenon DEF InStep
  <2>2. CASE i = Len(s)
    <3>1. /\ s[i].msg = n /\ s[i].at = H + s[i].msglen /\ r[i] = s[i] /\ s[i].msglen \in Nat
          /\ s[i].at \in Nat
      BY <1>1, <1>3, <1>4, <2>2 DEF ToTheEnd, n, H, AByte
    <3>2. r[i + 1] = [msg |-> n + 1, msglen |-> len, at |-> 1]
      <4>1. 1 \in 1 .. H + len
        BY <1>1
      <4> QED
        BY <1>3, <2>2, <4>1, Zenon
    <3> QED
      BY <1>1, <3>1, <3>2 DEF Follows, H
  <2>3. CASE i > Len(s)
    <3>1. /\ i - Len(s) \in 1 .. H + len /\ Len(s) + (i - Len(s)) = i
          /\ (i - Len(s)) + 1 \in 1 .. H + len /\ Len(s) + ((i - Len(s)) + 1) = i + 1
          /\ i - Len(s) < H + len
      BY <1>1, <1>3, <2>3
    <3>2. r[i] = [msg |-> n + 1, msglen |-> len, at |-> i - Len(s)]
      BY <1>3, <3>1, Zenon
    <3>3. r[i + 1] = [msg |-> n + 1, msglen |-> len, at |-> (i - Len(s)) + 1]
      BY <1>3, <3>1, Zenon
    <3> QED
      BY <3>1, <3>2, <3>3 DEF Follows, H
  <2> QED
    BY <1>1, <2>1, <2>2, <2>3
<1>7. r[1].msg = h + 1 /\ r[1].at = 1
  <2>1. CASE Len(s) = 0
    <3>1. h = n
      BY <2>1 DEF ToTheEnd, n
    <3>2. r[1] = [msg |-> n + 1, msglen |-> len, at |-> 1]
      BY <1>1, <1>3, <2>1
    <3> QED
      BY <3>1, <3>2
  <2>2. CASE Len(s) # 0
    BY <1>1, <1>3, <2>2 DEF InStep
  <2> QED
    BY <2>1, <2>2
<1>8. InStep(r, k, h)
  BY <1>5, <1>6, <1>7 DEF InStep
<1>9. ToTheEnd(r, k, h)
  <2>1. H + len \in 1 .. H + len
    BY <1>1
  <2>2. r[Len(r)] = [msg |-> n + 1, msglen |-> len, at |-> H + len]
    BY <1>3, <2>1, Zenon
  <2> QED
    BY <1>1, <1>3, <2>2 DEF ToTheEnd, H
<1> QED
  BY <1>8, <1>9 DEF r, k

\* What do_read takes for a message is the next message that was sent.
LEMMA FirstMessage ==
    ASSUME NEW s \in Seq(AByte), NEW l \in Seq(Length), NEW h \in Nat, InStep(s, l, h),
           Len(s) >= MESSAGE_HEAD_LEN, Len(s) >= MESSAGE_HEAD_LEN + s[1].msglen
    PROVE  /\ h + 1 \in 1 .. Len(l) /\ s[1].msglen = l[h + 1]
           /\ \A j \in 1 .. MESSAGE_HEAD_LEN + l[h + 1] : s[j] = Byte(h + 1, l[h + 1], j)
<1> DEFINE H == MESSAGE_HEAD_LEN
           len == l[h + 1]
           D == {j \in 1 .. H + len : ~(s[j].msg = h + 1 /\ s[j].at = j)}
<1>1. H \in Nat \ {0} /\ Len(s) \in Nat /\ Len(l) \in Nat /\ 1 \in 1 .. Len(s)
  BY SeqLen, ConnAssumption
<1>2. s[1].msg = h + 1 /\ s[1].at = 1 /\ IsSent(s[1], l)
  BY <1>1 DEF InStep
<1>3. h + 1 \in 1 .. Len(l) /\ s[1].msglen = len /\ len \in Nat
  <2>1. h + 1 \in 1 .. Len(l) /\ s[1].msglen = len
    BY <1>2 DEF IsSent
  <2> QED
    BY <2>1, SeqAt, ConnAssumption, Zenon
<1> HIDE DEF len, H
<1>4. \A j \in 1 .. H + len : j \in 1 .. Len(s)
  BY <1>1, <1>3 DEF H
<1>5. D = {}
  <2> SUFFICES ASSUME D # {} PROVE FALSE
    OBVIOUS
  <2>1. PICK j \in D : \A i \in D : j <= i
    <3>1. D \subseteq Nat
      BY <1>1, <1>3
    <3> HIDE DEF D
    <3> QED
      BY <3>1, Least, Zenon
  <2>2. j \in 1 .. H + len /\ ~(s[j].msg = h + 1 /\ s[j].at = j)
    BY <2>1
  <2>3. j # 1
    BY <1>2, <2>2
  <2>4. j - 1 \in 1 .. H + len /\ j - 1 \in 1 .. Len(s) - 1 /\ j - 1 < H + len /\ (j - 1) + 1 = j
        /\ j - 1 \in 1 .. Len(s)
    BY <1>1, <1>3, <1>4, <2>2, <2>3
  <2>5. j - 1 \notin D
    <3> HIDE DEF D
    <3> QED
      BY <2>1, <2>2
  <2>6. s[j - 1].msg = h + 1 /\ s[j - 1].at = j - 1
    BY <2>4, <2>5, Zenon
  <2>7. Follows(s[j - 1], s[j]) /\ IsSent(s[j - 1], l)
    BY <2>4, Zenon DEF InStep
  <2>8. s[j - 1].msglen = len
    BY <2>6, <2>7, Zenon DEF IsSent, len
  <2>9. s[j].msg = h + 1 /\ s[j].at = (j - 1) + 1
    BY <2>4, <2>6, <2>7, <2>8, Zenon DEF Follows, H
  <2> QED
    BY <2>2, <2>4, <2>9, Zenon
<1>6. ASSUME NEW j \in 1 .. H + len PROVE s[j] = [msg |-> h + 1, msglen |-> len, at |-> j]
  <2>1. s[j].msg = h + 1 /\ s[j].at = j /\ IsSent(s[j], l) /\ s[j] \in AByte
    <3>1. j \in 1 .. Len(s)
      BY <1>4, Zenon
    <3>2. s[j].msg = h + 1 /\ s[j].at = j
      BY <1>5, Zenon
    <3> QED
      BY <3>1, <3>2, SeqAt, Zenon DEF InStep
  <2>2. s[j].msglen = len
    BY <2>1, Zenon DEF IsSent, len
  <2> QED
    BY <2>1, <2>2 DEF AByte
<1> QED
  BY <1>3, <1>6, Zenon DEF len, H, Byte

\* What is left when do_read has popped it starts with the message after it.
LEMMA RestInStep ==
    ASSUME NEW s \in Seq(AByte), NEW l \in Seq(Length), NEW h \in Nat, InStep(s, l, h),
           NEW k \in 1 .. Len(s), s[k].msg = h + 1,
           ~(s[k].at < MESSAGE_HEAD_LEN + s[k].msglen),
           NEW t, Len(t) = Len(s) - k, \A i \in 1 .. Len(s) - k : t[i] = s[k + i]
    PROVE  InStep(t, l, h + 1) /\ (ToTheEnd(s, l, h) => ToTheEnd(t, l, h + 1))
<1> DEFINE n == Len(s)
<1>1. n \in Nat /\ k \in 1 .. n /\ Len(t) = n - k /\ \A i \in 1 .. n - k : t[i] = s[k + i]
  BY SeqLen
<1>2. /\ \A i \in 1 .. n : IsSent(s[i], l)
      /\ \A i \in 1 .. n - 1 : Follows(s[i], s[i + 1])
  BY DEF InStep
<1>3. ToTheEnd(s, l, h) => s[n].msg = Len(l) /\ s[n].at = MESSAGE_HEAD_LEN + s[n].msglen
  BY <1>1 DEF ToTheEnd
<1> HIDE DEF n
<1>4. ASSUME NEW i \in 1 .. n - k PROVE IsSent(t[i], l)
  <2>1. k + i \in 1 .. n
    BY <1>1
  <2> QED
    BY <1>1, <1>2, <2>1, Zenon
<1>5. ASSUME NEW i \in 1 .. (n - k) - 1 PROVE Follows(t[i], t[i + 1])
  <2>1. /\ i \in 1 .. n - k /\ i + 1 \in 1 .. n - k
        /\ k + i \in 1 .. n - 1 /\ k + (i + 1) = (k + i) + 1
    BY <1>1
  <2> QED
    BY <1>1, <1>2, <2>1, Zenon
<1>6. ASSUME n - k > 0 PROVE t[1].msg = (h + 1) + 1 /\ t[1].at = 1
  <2>1. 1 \in 1 .. n - k /\ k \in 1 .. n - 1
    BY <1>1, <1>6
  <2>2. Follows(s[k], s[k + 1]) /\ t[1] = s[k + 1]
    BY <1>1, <1>2, <2>1, Zenon
  <2> QED
    BY <2>2, Zenon DEF Follows
<1>7. InStep(t, l, h + 1)
  BY <1>1, <1>4, <1>5, <1>6, Zenon DEF InStep
<1>8. ASSUME ToTheEnd(s, l, h) PROVE ToTheEnd(t, l, h + 1)
  <2>1. CASE n = k
    <3>1. Len(t) = 0
      BY <1>1, <2>1
    <3> QED
      BY <1>3, <1>8, <2>1, <3>1, Zenon DEF ToTheEnd
  <2>2. CASE n # k
    <3>1. n - k \in 1 .. n - k /\ k + (n - k) = n /\ n - k # 0
      BY <1>1, <2>2
    <3>2. t[Len(t)] = s[n]
      BY <1>1, <3>1, Zenon
    <3> QED
      BY <1>1, <1>3, <1>8, <3>1, <3>2, Zenon DEF ToTheEnd
  <2> QED
    BY <2>1, <2>2, Zenon
<1> QED
  BY <1>7, <1>8, Zenon

\* A read or a write cuts a buffer in two.
LEMMA Cut ==
    ASSUME NEW S, NEW c \in Seq(S), NEW n \in 1 .. Len(c)
    PROVE  /\ SubSeq(c, 1, n) \in Seq(S) /\ Drop(c, n) \in Seq(S)
           /\ Len(SubSeq(c, 1, n)) = n /\ \A i \in 1 .. n : SubSeq(c, 1, n)[i] = c[i]
           /\ SubSeq(c, 1, n) \o Drop(c, n) = c
<1>1. Len(c) \in Nat /\ \A i \in 1 .. Len(c) : c[i] \in S
  BY SeqLen, SeqAt
<1>2. SubSeq(c, 1, n) \in Seq(S) /\ Len(SubSeq(c, 1, n)) = n
      /\ \A i \in 1 .. n : SubSeq(c, 1, n)[i] = c[i]
  <2>1. \A i \in 1 .. n : c[i] \in S
    BY <1>1
  <2>2. /\ SubSeq(c, 1, n) \in Seq(S)
        /\ Len(SubSeq(c, 1, n)) = IF 1 <= n THEN n - 1 + 1 ELSE 0
        /\ \A i \in 1 .. n - 1 + 1 : SubSeq(c, 1, n)[i] = c[1 + i - 1]
    <3>1. 1 \in Int /\ n \in Int
      OBVIOUS
    <3> QED
      BY <2>1, <3>1, SeqPart
  <2>3. n - 1 + 1 = n /\ 1 <= n /\ \A i \in 1 .. n : 1 + i - 1 = i
    OBVIOUS
  <2> QED
    BY <2>2, <2>3, Zenon
<1>3. SubSeq(c, n + 1, Len(c)) \in Seq(S)
  <2>1. \A i \in n + 1 .. Len(c) : c[i] \in S
    BY <1>1
  <2>2. n + 1 \in Int /\ Len(c) \in Int
    BY <1>1
  <2> QED
    BY <2>1, <2>2, SeqPart, Zenon
<1>4. SubSeq(c, 1, n) \o SubSeq(c, n + 1, Len(c)) = c
  <2>1. 1 \in 1 .. Len(c) + 1 /\ n \in 1 - 1 .. Len(c) /\ Len(c) \in n .. Len(c)
    BY <1>1
  <2> QED
    BY <2>1, SeqSplit, SeqWhole, Zenon
<1> QED
  BY <1>2, <1>3, <1>4, Zenon DEF Drop

\* Buffers can be joined in any order.
LEMMA Joined == \A a, b, c \in Seq(AByte) : (a \o b) \o c = a \o (b \o c)
BY SeqAssoc

\* The bytes on the way are those handled and those that are still underway.
LEMMA WayOf ==
    ASSUME Types
    PROVE  /\ Rest \in Seq(AByte) /\ ibuf \o net \in Seq(AByte) /\ Underway \in Seq(AByte)
           /\ Flatten(handled) \in Seq(AByte)
           /\ Writes => OnTheWay = Flatten(handled) \o Underway
<1>1. Rest \in Seq(AByte)
  BY SeqNone DEF Types, Rest
<1>2. ibuf \o net \in Seq(AByte)
  BY SeqConcat, Zenon DEF Types
<1>3. Underway \in Seq(AByte)
  BY <1>1, <1>2, SeqConcat, Zenon DEF Underway
<1>4. Flatten(handled) \in Seq(AByte)
  <2>1. <<>> \in Seq(AByte) /\ handled \in Seq(Seq(AByte))
    BY SeqNone, Zenon DEF Types
  <2> QED
    BY <2>1, FlattenAppend, Zenon
<1>5. ASSUME Writes PROVE OnTheWay = Flatten(handled) \o Underway
  <2> DEFINE f == Flatten(handled)
  <2>1. f \in Seq(AByte) /\ ibuf \in Seq(AByte) /\ net \in Seq(AByte) /\ obuf \in Seq(AByte)
    BY <1>4, Zenon DEF Types
  <2>2. OnTheWay = ((f \o ibuf) \o net) \o obuf /\ Underway = (ibuf \o net) \o obuf
    BY <1>5, Zenon DEF OnTheWay, Underway, Rest
  <2> HIDE DEF f
  <2>3. (f \o ibuf) \o net = f \o (ibuf \o net)
    <3>1. f \in Seq(AByte) /\ ibuf \in Seq(AByte) /\ net \in Seq(AByte)
      BY <2>1, Zenon
    <3> QED
      BY <3>1, Joined, Zenon
  <2>4. (f \o (ibuf \o net)) \o obuf = f \o ((ibuf \o net) \o obuf)
    <3>1. f \in Seq(AByte) /\ obuf \in Seq(AByte)
      BY <2>1, Zenon
    <3> QED
      BY <1>2, <3>1, Joined, Zenon
  <2> QED
    BY <2>2, <2>3, <2>4, Zenon DEF f
<1> QED
  BY <1>1, <1>2, <1>3, <1>4, <1>5, Zenon

\* A step that neither sends nor handles a message: the bytes underway stay
\* the same, or the sender's part of them is given up.
LEMMA Kept ==
    ASSUME Inv, Types', UNCHANGED <<sent, handled>>,
           receiver' = "open" => receiver = "open" /\ (Writes' => Writes),
           receiver' = "open" => Underway' = IF Writes' THEN Underway ELSE ibuf \o net,
           receiver' = "closed" /\ sender' = "open" => LongSent
    PROVE  Inv'
<1>1. WholeMessagesInOrder' /\ (LongSent' <=> LongSent) /\ Stream' = Stream
  BY Zenon DEF Inv, WholeMessagesInOrder, Message, LongSent, Stream
<1>2. Types
  BY DEF Inv
<1>3. ASSUME receiver' = "open" PROVE InStep(Underway, sent, Len(handled))'
  <2>1. InStep(Underway, sent, Len(handled))
    BY <1>3, Zenon DEF Inv
  <2>2. InStep(ibuf \o net, sent, Len(handled))
    <3> DEFINE a == ibuf \o net
    <3>1. a \in Seq(AByte) /\ Rest \in Seq(AByte) /\ InStep(a \o Rest, sent, Len(handled))
      BY <1>2, <2>1, WayOf, Zenon DEF Underway
    <3> HIDE DEF a
    <3>2. InStep(a, sent, Len(handled))
      BY <3>1, FrontInStep, Zenon
    <3> QED
      BY <3>2, Zenon DEF a
  <2>3. Underway' = Underway \/ Underway' = ibuf \o net
    <3>1. Underway' = IF Writes' THEN Underway ELSE ibuf \o net
      BY <1>3, Zenon
    <3>2. CASE Writes'
      BY <3>1, <3>2, Zenon
    <3>3. CASE ~Writes'
      BY <3>1, <3>3, Zenon
    <3> QED
      BY <3>2, <3>3, Zenon
  <2> QED
    BY <2>1, <2>2, <2>3, Zenon
<1>4. ASSUME receiver' = "open", Writes'
      PROVE  (ToTheEnd(Underway, sent, Len(handled)) /\ OnTheWay = Stream)'
  <2>1. Underway' = Underway /\ Writes /\ receiver = "open"
    BY <1>4, Zenon
  <2>2. ToTheEnd(Underway, sent, Len(handled)) /\ OnTheWay = Stream
    BY <2>1, Zenon DEF Inv
  <2>3. OnTheWay = Flatten(handled) \o Underway
    BY <1>2, <2>1, WayOf, Zenon
  <2>4. (OnTheWay = Flatten(handled) \o Underway)'
    BY <1>4, WayOf, PTL
  <2> QED
    BY <1>1, <2>1, <2>2, <2>3, <2>4, Zenon
<1> QED
  BY <1>1, <1>3, <1>4, Zenon DEF Inv

\* A sender that no longer writes leaves what is in the sockets and in ibuf.
LEMMA GivenUp ==
    ASSUME Types, Types', ~Writes', UNCHANGED <<ibuf, net>> PROVE Underway' = ibuf \o net
<1>1. Underway' = (ibuf \o net) \o <<>>
  BY Zenon DEF Underway, Rest
<1>2. ibuf \o net \in Seq(AByte)
  BY WayOf, Zenon
<1> QED
  BY <1>1, <1>2, SeqConcatNone, Zenon

-----------------------------------------------------------------------------
(* One lemma per step that sends or handles a message, one for the others  *)

\* The steps of the sender, but send_message.
LEMMA Sender_Inv ==
    ASSUME Inv,
           \/ send_assert \/ do_write_assert \/ sender_clean_conn
           \/ \E len \in Length : send_message_fails(len)
           \/ \E n \in 1 .. SocketLimit : do_write(n)
    PROVE  Inv'
<1>t. Types /\ (receiver = "closed" /\ sender = "open" => LongSent)
  BY Zenon DEF Inv
<1>1. CASE send_assert \/ do_write_assert
  <2>1. /\ UNCHANGED <<sent, handled, obuf, popped, net, ibuf, pc, out, receiver>>
        /\ sender' = "head"
    BY <1>1, Zenon DEF send_assert, do_write_assert
  <2>2. Types' /\ ~Writes'
    BY <1>t, <2>1 DEF Types, Writes, Ends
  <2> QED
    BY <1>t, <2>1, <2>2, GivenUp, Kept
<1>2. CASE sender_clean_conn
  <2>1. /\ UNCHANGED <<sent, handled, net, ibuf, pc, receiver>>
        /\ sender' = "closed" /\ obuf' = <<>> /\ popped' = FALSE /\ out' = FALSE
        /\ receiver # "open"
    BY <1>2, Zenon DEF sender_clean_conn
  <2>2. Types'
    BY <1>t, <2>1, SeqNone, Zenon DEF Types, Ends
  <2> QED
    BY <2>1, <2>2, Kept
<1>3. ASSUME NEW len \in Length, send_message_fails(len) PROVE Inv'
  <2> DEFINE m == Len(sent) + 1
             a == obuf \o HeadOf(m, len)
  <2>1. /\ UNCHANGED <<sent, handled, net, ibuf, pc, out, sender, receiver>> /\ Writes
        /\ obuf' = SubSeq(a, MESSAGE_HEAD_LEN + 1, Len(a)) /\ popped' = (obuf' # <<>>)
    BY <1>3, Zenon DEF send_message_fails, CanSend, Writes, Drop
  <2>2. m \in Nat /\ len \in Nat /\ MESSAGE_HEAD_LEN \in Nat \ {0} /\ Len(obuf) \in Nat
    BY <1>t, SeqLen, ConnAssumption DEF Types
  <2>3. HeadOf(m, len) \in Seq(AByte) /\ Len(HeadOf(m, len)) = MESSAGE_HEAD_LEN
    BY <2>2, MessageOf, Zenon
  <2>4. a \in Seq(AByte) /\ Len(a) = Len(obuf) + MESSAGE_HEAD_LEN
    BY <1>t, <2>3, SeqConcat, Zenon DEF Types
  <2> HIDE DEF a, m
  <2>5. obuf' \in Seq(AByte) /\ Len(obuf') = Len(obuf)
    <3>1. \A i \in MESSAGE_HEAD_LEN + 1 .. Len(a) : a[i] \in AByte
      BY <2>2, <2>4, SeqAt
    <3>2. MESSAGE_HEAD_LEN + 1 \in Int /\ Len(a) \in Int
      BY <2>2, <2>4
    <3>3. /\ obuf' \in Seq(AByte)
          /\ Len(obuf') = IF MESSAGE_HEAD_LEN + 1 <= Len(a)
                          THEN Len(a) - (MESSAGE_HEAD_LEN + 1) + 1 ELSE 0
      BY <2>1, <3>1, <3>2, SeqPart
    <3> QED
      BY <2>2, <2>4, <3>3
  <2>6. Types'
    BY <1>t, <2>1, <2>5 DEF Types
  <2>7. CASE obuf' = <<>>
    <3>1. obuf = <<>>
      <4>1. Len(obuf) = 0
        BY <2>5, <2>7, SeqNone, Zenon
      <4>2. obuf \in Seq(AByte)
        BY <1>t, Zenon DEF Types
      <4> QED
        BY <4>1, <4>2, SeqNone
    <3>2. ~popped'
      BY <2>1, <2>7, Zenon
    <3>3. Underway' = Underway /\ Writes'
      BY <2>1, <2>7, <3>1, <3>2, Zenon DEF Underway, Rest, Writes
    <3> QED
      BY <1>t, <2>1, <2>6, <3>3, Kept
  <2>8. CASE obuf' # <<>>
    <3>1. ~Writes'
      BY <2>1, <2>8, Zenon DEF Writes
    <3> QED
      BY <1>t, <2>1, <2>6, <3>1, GivenUp, Kept
  <2> QED
    BY <2>7, <2>8
<1>4. ASSUME NEW n \in 1 .. SocketLimit, do_write(n) PROVE Inv'
  <2> DEFINE a == SubSeq(obuf, 1, n)
             b == Drop(obuf, n)
  <2>1. /\ UNCHANGED <<sent, handled, popped, ibuf, pc, sender, receiver>> /\ Writes
        /\ n \in 1 .. Len(obuf) /\ net' = net \o a /\ obuf' = b /\ out' \in BOOLEAN
    BY <1>4, Zenon DEF do_write, Writes
  <2>2. obuf \in Seq(AByte) /\ net \in Seq(AByte) /\ ibuf \in Seq(AByte)
    BY <1>t, Zenon DEF Types
  <2>3. a \in Seq(AByte) /\ b \in Seq(AByte) /\ a \o b = obuf
    BY <2>1, <2>2, Cut, Zenon
  <2> HIDE DEF a, b
  <2>4. net \o a \in Seq(AByte) /\ ibuf \o net \in Seq(AByte)
    BY <2>2, <2>3, SeqConcat, Zenon
  <2>5. Types'
    BY <1>t, <2>1, <2>3, <2>4 DEF Types
  <2>6. (ibuf \o (net \o a)) \o b = (ibuf \o net) \o obuf
    <3>1. ibuf \o (net \o a) = (ibuf \o net) \o a
      <4>1. ibuf \in Seq(AByte) /\ net \in Seq(AByte) /\ a \in Seq(AByte)
        BY <2>2, <2>3, Zenon
      <4> QED
        BY <4>1, Joined, Zenon
    <3>2. ((ibuf \o net) \o a) \o b = (ibuf \o net) \o (a \o b)
      <4>1. ibuf \o net \in Seq(AByte) /\ a \in Seq(AByte) /\ b \in Seq(AByte)
        BY <2>3, <2>4, Zenon
      <4> QED
        BY <4>1, Joined, Zenon
    <3> QED
      BY <2>3, <3>1, <3>2, Zenon
  <2>7. Writes' /\ Underway' = Underway
    BY <2>1, <2>6, Zenon DEF Underway, Rest, Writes
  <2> QED
    BY <1>t, <2>1, <2>5, <2>7, Kept
<1> QED
  BY <1>1, <1>2, <1>3, <1>4, Zenon

\* The bytes of ibuf are the first of those underway.
LEMMA InputFirst ==
    ASSUME Types
    PROVE  /\ Len(ibuf) \in Nat /\ Len(Underway) \in Nat /\ Len(Underway) >= Len(ibuf)
           /\ \A i \in 1 .. Len(ibuf) : Underway[i] = ibuf[i]
<1> DEFINE r == net \o Rest
<1>1. ibuf \in Seq(AByte) /\ net \in Seq(AByte) /\ Rest \in Seq(AByte)
  BY WayOf, Zenon DEF Types
<1>2. r \in Seq(AByte)
  BY <1>1, SeqConcat, Zenon
<1>3. Underway = ibuf \o r
  BY <1>1, Joined, Zenon DEF Underway
<1> HIDE DEF r
<1>4. /\ Len(ibuf \o r) = Len(ibuf) + Len(r)
      /\ \A i \in 1 .. Len(ibuf) + Len(r) :
            (ibuf \o r)[i] = IF i <= Len(ibuf) THEN ibuf[i] ELSE r[i - Len(ibuf)]
  BY <1>1, <1>2, SeqConcat, Zenon
<1>5. Len(ibuf) \in Nat /\ Len(r) \in Nat
  BY <1>1, <1>2, SeqLen, Zenon
<1> HIDE DEF Types
<1> QED
  BY <1>3, <1>4, <1>5

\* The steps of the receiver that handle no message.
LEMMA Receiver_Inv ==
    ASSUME Inv, do_read_end \/ receiver_clean_conn \/ \E n \in 1 .. SocketLimit : read_data(n)
    PROVE  Inv'
<1>t. Types /\ (receiver = "closed" /\ sender = "open" => LongSent)
  BY Zenon DEF Inv
<1>1. CASE do_read_end
  <2>1. /\ UNCHANGED <<sent, handled, obuf, popped, net, ibuf, out, sender, receiver>>
        /\ pc' = "epoll" /\ receiver = "open"
    BY <1>1, Zenon DEF do_read_end
  <2>2. Types'
    BY <1>t, <2>1 DEF Types
  <2>3. Underway' = Underway /\ (Writes' <=> Writes)
    BY <2>1, Zenon DEF Underway, Rest, Writes
  <2>4. ~Writes' => Underway' = ibuf \o net
    BY <1>t, <2>1, <2>2, GivenUp, Zenon
  <2> QED
    BY <1>t, <2>1, <2>2, <2>3, <2>4, Kept
<1>2. CASE receiver_clean_conn
  <2>1. /\ UNCHANGED <<sent, handled, obuf, popped, net, out, sender>> /\ receiver = "open"
        /\ receiver' = "closed" /\ ibuf' = <<>> /\ pc' = "epoll"
        /\ sender # "open" \/ (HasHead /\ Head1 > MESSAGE_LENGTH_LIMIT)
    BY <1>2, Zenon DEF receiver_clean_conn
  <2>2. Types'
    BY <1>t, <2>1, SeqNone DEF Types, Ends
  <2>3. ASSUME HasHead, Head1 > MESSAGE_LENGTH_LIMIT PROVE LongSent
    <3>1. 1 \in 1 .. Len(ibuf) /\ 1 \in 1 .. Len(Underway)
      BY <1>t, <2>3, InputFirst, ConnAssumption DEF HasHead
    <3>2. IsSent(ibuf[1], sent)
      BY <1>t, <2>1, <3>1, InputFirst, Zenon DEF Inv, InStep
    <3> QED
      BY <2>3, <3>2, Zenon DEF IsSent, LongSent, Head1
  <2> QED
    BY <2>1, <2>2, <2>3, Kept
<1>3. ASSUME NEW n \in 1 .. SocketLimit, read_data(n) PROVE Inv'
  <2> DEFINE a == SubSeq(net, 1, n)
             b == Drop(net, n)
  <2>1. /\ UNCHANGED <<sent, handled, obuf, popped, out, sender, receiver>> /\ receiver = "open"
        /\ n \in 1 .. Len(net) /\ ibuf' = ibuf \o a /\ net' = b /\ pc' = "loop"
    BY <1>3, Zenon DEF read_data
  <2>2. net \in Seq(AByte) /\ ibuf \in Seq(AByte)
    BY <1>t, Zenon DEF Types
  <2>3. a \in Seq(AByte) /\ b \in Seq(AByte) /\ a \o b = net
    BY <2>1, <2>2, Cut, Zenon
  <2> HIDE DEF a, b
  <2>4. ibuf \o a \in Seq(AByte)
    BY <2>2, <2>3, SeqConcat, Zenon
  <2>5. Types'
    BY <1>t, <2>1, <2>3, <2>4 DEF Types
  <2>6. ibuf' \o net' = ibuf \o net
    <3>1. (ibuf \o a) \o b = ibuf \o (a \o b)
      BY <2>2, <2>3, Joined, Zenon
    <3> QED
      BY <2>1, <2>3, <3>1, Zenon
  <2>7. Underway' = Underway /\ (Writes' <=> Writes)
    BY <2>1, <2>6, Zenon DEF Underway, Rest, Writes
  <2>8. ~Writes' => Underway = ibuf \o net
    <3>1. ~Writes => Underway = (ibuf \o net) \o <<>>
      BY Zenon DEF Underway, Rest
    <3> QED
      BY <1>t, <2>7, <3>1, WayOf, SeqConcatNone, Zenon
  <2> QED
    BY <1>t, <2>1, <2>5, <2>7, <2>8, Kept
<1> QED
  BY <1>1, <1>2, <1>3, Zenon

\* The message that do_read hands to the router is the next one.
LEMMA NextMessage ==
    ASSUME Inv, receiver = "open", HasHead, Whole
    PROVE  LET h == Len(handled)
               k == MESSAGE_HEAD_LEN + Head1
           IN  /\ h \in Nat /\ h + 1 \in 1 .. Len(sent) /\ Head1 = sent[h + 1]
               /\ k \in 1 .. Len(ibuf)
               /\ Underway[k].msg = h + 1 /\ Underway[k].at = k /\ Underway[k].msglen = Head1
               /\ SubSeq(ibuf, 1, k) = Message(h + 1)
<1> DEFINE h == Len(handled)
           k == MESSAGE_HEAD_LEN + Head1
           s == Underway
<1>1. /\ Types /\ InStep(s, sent, h)
      /\ s \in Seq(AByte) /\ sent \in Seq(Length) /\ ibuf \in Seq(AByte)
  BY WayOf, Zenon DEF Inv, Types
<1>2. h \in Nat /\ Len(ibuf) \in Nat /\ Len(s) \in Nat /\ MESSAGE_HEAD_LEN \in Nat \ {0}
  <2>1. h \in Nat
    BY <1>1, SeqLen DEF Types
  <2> QED
    BY <1>1, <2>1, InputFirst, ConnAssumption
<1>3. 1 \in 1 .. Len(ibuf) /\ s[1] = ibuf[1] /\ Len(s) >= Len(ibuf)
      /\ \A i \in 1 .. Len(ibuf) : s[i] = ibuf[i]
  <2>1. 1 \in 1 .. Len(ibuf)
    BY <1>2 DEF HasHead
  <2> QED
    BY <1>1, <2>1, InputFirst, Zenon
<1>4. Head1 \in Nat /\ s[1].msglen = Head1
  <2>1. ibuf[1] \in AByte
    BY <1>1, <1>3, SeqAt, Zenon
  <2> QED
    BY <1>3, <2>1 DEF AByte, Head1
<1> HIDE DEF s, h
<1>5. Len(s) >= MESSAGE_HEAD_LEN /\ Len(s) >= MESSAGE_HEAD_LEN + s[1].msglen /\ k \in 1 .. Len(ibuf)
  BY <1>2, <1>3, <1>4 DEF HasHead, Whole
<1>6. /\ h + 1 \in 1 .. Len(sent) /\ s[1].msglen = sent[h + 1]
      /\ \A j \in 1 .. MESSAGE_HEAD_LEN + sent[h + 1] : s[j] = Byte(h + 1, sent[h + 1], j)
  BY <1>1, <1>2, <1>5, FirstMessage, Zenon
<1>7. Head1 = sent[h + 1] /\ \A j \in 1 .. k : s[j] = Byte(h + 1, Head1, j)
  BY <1>4, <1>6, Zenon
<1>8. s[k].msg = h + 1 /\ s[k].at = k /\ s[k].msglen = Head1
  <2>1. k \in 1 .. k
    BY <1>2, <1>5
  <2>2. s[k] = [msg |-> h + 1, msglen |-> Head1, at |-> k]
    BY <1>7, <2>1, Zenon DEF Byte
  <2> HIDE DEF k, s, h
  <2> QED
    BY <2>2
<1>9. SubSeq(ibuf, 1, k) = Message(h + 1)
  <2> DEFINE a == SubSeq(ibuf, 1, k)
             b == HeadOf(h + 1, Head1) \o BodyOf(h + 1, Head1)
  <2>1. a \in Seq(AByte) /\ Len(a) = k /\ \A i \in 1 .. k : a[i] = ibuf[i]
    BY <1>1, <1>5, Cut, Zenon
  <2>2. h + 1 \in Nat
    BY <1>2
  <2>3. b \in Seq(AByte) /\ Len(b) = k /\ \A i \in 1 .. k : b[i] = Byte(h + 1, Head1, i)
    BY <1>4, <2>2, MessageOf, Zenon
  <2>4. \A i \in 1 .. k : i \in 1 .. Len(ibuf)
    BY <1>2, <1>5
  <2> HIDE DEF a, b, k
  <2>5. \A i \in 1 .. k : a[i] = b[i]
    BY <1>3, <1>7, <2>1, <2>3, <2>4, Zenon
  <2>6. a = b
    BY <2>1, <2>3, <2>5, SeqSame, Zenon
  <2> QED
    BY <1>7, <2>6, Zenon DEF a, b, k, Message
<1> QED
  BY <1>2, <1>5, <1>6, <1>7, <1>8, <1>9, Zenon DEF h, s

\* The message is whole and in its place among those that were handled.
LEMMA HandledOneMore ==
    ASSUME WholeMessagesInOrder, Types, UNCHANGED sent, NEW a \in Seq(AByte),
           handled' = Append(handled, a), Len(handled) + 1 \in 1 .. Len(sent),
           a = Message(Len(handled) + 1)
    PROVE  WholeMessagesInOrder' /\ handled' \in Seq(Seq(AByte)) /\ Len(handled') = Len(handled) + 1
<1> DEFINE h == Len(handled)
<1>1. /\ h \in Nat /\ Len(sent) \in Nat /\ handled' \in Seq(Seq(AByte)) /\ Len(handled') = h + 1
      /\ handled'[h + 1] = a /\ \A m \in 1 .. h : handled'[m] = handled[m]
  BY SeqLen, SeqAppend DEF Types
<1>2. \A m : Message(m)' = Message(m)
  BY Zenon DEF Message
<1>3. \A m \in 1 .. h : handled[m] = Message(m)
  BY Zenon DEF WholeMessagesInOrder
<1>4. ASSUME NEW m \in 1 .. h + 1 PROVE handled'[m] = Message(m)'
  <2>1. CASE m = h + 1
    BY <1>1, <1>2, <2>1, Zenon
  <2>2. CASE m # h + 1
    <3>1. m \in 1 .. h
      BY <1>1, <2>2
    <3> QED
      BY <1>1, <1>2, <1>3, <3>1, Zenon
  <2> QED
    BY <2>1, <2>2, Zenon
<1>5. h + 1 <= Len(sent)
  BY <1>1
<1> QED
  BY <1>1, <1>4, <1>5, Zenon DEF WholeMessagesInOrder

\* do_read pops one whole message; what is left starts with the next one.
LEMMA do_read_Inv ==
    ASSUME Inv, do_read PROVE Inv'
<1> DEFINE h == Len(handled)
           k == MESSAGE_HEAD_LEN + Head1
           a == SubSeq(ibuf, 1, k)
           b == Drop(ibuf, k)
           s == Underway
           t == Underway'
<1>1. /\ UNCHANGED <<sent, obuf, popped, net, pc, out, sender, receiver>> /\ receiver = "open"
      /\ HasHead /\ Whole /\ handled' = Append(handled, a) /\ ibuf' = b
  BY Zenon DEF do_read
<1>2. /\ h \in Nat /\ h + 1 \in 1 .. Len(sent) /\ Head1 = sent[h + 1] /\ k \in 1 .. Len(ibuf)
      /\ s[k].msg = h + 1 /\ s[k].at = k /\ s[k].msglen = Head1 /\ a = Message(h + 1)
  BY <1>1, NextMessage, Zenon
<1>3. Types /\ ibuf \in Seq(AByte) /\ net \in Seq(AByte) /\ Rest \in Seq(AByte) /\ s \in Seq(AByte)
      /\ sent \in Seq(Length) /\ handled \in Seq(Seq(AByte))
  BY WayOf, Zenon DEF Inv, Types
<1>4. a \in Seq(AByte) /\ b \in Seq(AByte) /\ a \o b = ibuf /\ Len(a) = k
  BY <1>2, <1>3, Cut, Zenon
<1>5. WholeMessagesInOrder' /\ handled' \in Seq(Seq(AByte)) /\ Len(handled') = h + 1
  BY <1>1, <1>2, <1>3, <1>4, HandledOneMore, Zenon DEF Inv
<1> HIDE DEF a, b, k, h
<1>6. Types'
  BY <1>1, <1>3, <1>4, <1>5 DEF Types
<1>7. (Writes' <=> Writes) /\ Rest' = Rest /\ t = (b \o net) \o Rest
  BY <1>1, Zenon DEF Writes, Rest, Underway
<1>8. s = a \o t /\ t \in Seq(AByte)
  <2>a. a \in Seq(AByte) /\ b \in Seq(AByte) /\ net \in Seq(AByte) /\ Rest \in Seq(AByte)
    BY <1>3, <1>4, Zenon
  <2>1. b \o net \in Seq(AByte)
    BY <2>a, SeqConcat, Zenon
  <2>2. t \in Seq(AByte)
    BY <1>7, <2>a, <2>1, SeqConcat, Zenon
  <2>3. (a \o b) \o net = a \o (b \o net)
    <3>1. a \in Seq(AByte) /\ b \in Seq(AByte) /\ net \in Seq(AByte)
      BY <2>a, Zenon
    <3> QED
      BY <3>1, Joined, Zenon
  <2>4. (a \o (b \o net)) \o Rest = a \o ((b \o net) \o Rest)
    <3>1. a \in Seq(AByte) /\ Rest \in Seq(AByte)
      BY <2>a, Zenon
    <3> QED
      BY <3>1, <2>1, Joined, Zenon
  <2>5. s = ((a \o b) \o net) \o Rest
    BY <1>4, Zenon DEF Underway
  <2> QED
    BY <1>7, <2>2, <2>3, <2>4, <2>5, Zenon
<1> HIDE DEF s, t
<1>9. Len(s) = k + Len(t) /\ k \in Nat \ {0} /\ Len(t) \in Nat
      /\ \A i \in 1 .. Len(t) : t[i] = s[k + i]
  <2>1. /\ Len(s) = Len(a) + Len(t)
        /\ \A i \in 1 .. Len(a) + Len(t) : s[i] = IF i <= Len(a) THEN a[i] ELSE t[i - Len(a)]
    BY <1>4, <1>8, SeqConcat, Zenon
  <2>2. Len(t) \in Nat /\ Len(ibuf) \in Nat
    BY <1>3, <1>8, SeqLen, Zenon
  <2>3. k \in Nat \ {0}
    BY <1>2, <2>2
  <2>4. ASSUME NEW i \in 1 .. Len(t) PROVE t[i] = s[k + i]
    <3>1. k + i \in 1 .. k + Len(t) /\ ~(k + i <= k) /\ (k + i) - k = i
      BY <2>2, <2>3
    <3> QED
      BY <1>4, <2>1, <3>1, Zenon
  <2> QED
    BY <1>4, <2>1, <2>2, <2>3, <2>4, Zenon
<1>10. InStep(s, sent, h)
  BY <1>1, Zenon DEF Inv, s, h
<1>11. InStep(t, sent, h + 1) /\ (ToTheEnd(s, sent, h) => ToTheEnd(t, sent, h + 1))
  <2>1. /\ k \in 1 .. Len(s) /\ Len(t) = Len(s) - k /\ \A i \in 1 .. Len(s) - k : t[i] = s[k + i]
    BY <1>9
  <2>2. k = MESSAGE_HEAD_LEN + s[k].msglen /\ s[k].at = k /\ s[k].msg = h + 1
    BY <1>2, Zenon DEF k
  <2>3. ~(k < k)
    BY <1>9
  <2>4. ~(s[k].at < MESSAGE_HEAD_LEN + s[k].msglen)
    BY <2>2, <2>3, Zenon
  <2> QED
    BY <1>2, <1>3, <1>10, <2>1, <2>2, <2>4, RestInStep, Zenon
<1>12. ASSUME Writes PROVE (ToTheEnd(Underway, sent, Len(handled)) /\ OnTheWay = Stream)'
  <2>1. ToTheEnd(s, sent, h) /\ OnTheWay = Stream
    BY <1>1, <1>12, Zenon DEF Inv, s, h
  <2>2. Stream' = Stream
    BY <1>1, Zenon DEF Stream, Message
  <2>3. OnTheWay = Flatten(handled) \o s
    BY <1>3, <1>12, WayOf, Zenon DEF s
  <2>4. OnTheWay' = Flatten(handled') \o t
    <3>1. Writes'
      BY <1>7, <1>12, Zenon
    <3>2. (OnTheWay = Flatten(handled) \o Underway)'
      BY <1>6, <3>1, WayOf, PTL
    <3> QED
      BY <3>2, Zenon DEF t
  <2>5. Flatten(handled') = Flatten(handled) \o a /\ Flatten(handled) \in Seq(AByte)
    BY <1>1, <1>3, <1>4, FlattenAppend, Zenon
  <2>6. (Flatten(handled) \o a) \o t = Flatten(handled) \o (a \o t)
    BY <1>4, <1>8, <2>5, Joined, Zenon
  <2> QED
    BY <1>1, <1>5, <1>8, <1>11, <2>1, <2>2, <2>3, <2>4, <2>5, <2>6, Zenon DEF t
<1> QED
  BY <1>1, <1>5, <1>6, <1>7, <1>11, <1>12, Zenon DEF Inv, t

\* A message without a body that ends what was read is handled, then an
\* assert stops the receiver.
LEMMA do_read_assert_Inv ==
    ASSUME Inv, do_read_assert PROVE Inv'
<1>1. /\ UNCHANGED <<sent, obuf, popped, net, pc, out, sender>> /\ receiver = "open"
      /\ Len(ibuf) = MESSAGE_HEAD_LEN /\ Whole
      /\ handled' = Append(handled, ibuf) /\ ibuf' = <<>> /\ receiver' = "pop"
  BY Zenon DEF do_read_assert
<1>2. Types /\ ibuf \in Seq(AByte) /\ HasHead
  <2>1. MESSAGE_HEAD_LEN >= MESSAGE_HEAD_LEN
    BY ConnAssumption
  <2> QED
    BY <1>1, <2>1, Zenon DEF Inv, Types, HasHead
<1> DEFINE k == MESSAGE_HEAD_LEN + Head1
<1>3. /\ Len(handled) + 1 \in 1 .. Len(sent) /\ Head1 = sent[Len(handled) + 1]
      /\ k \in 1 .. Len(ibuf) /\ SubSeq(ibuf, 1, k) = Message(Len(handled) + 1)
  BY <1>1, <1>2, NextMessage, Zenon
<1>4. k = Len(ibuf)
  <2>1. Head1 \in Nat
    <3>1. sent[Len(handled) + 1] \in Length
      BY <1>2, <1>3, SeqAt, Zenon DEF Types
    <3> QED
      BY <1>3, <3>1, ConnAssumption, Zenon
  <2> QED
    BY <1>1, <1>3, <2>1, ConnAssumption
<1>5. ibuf = Message(Len(handled) + 1)
  BY <1>2, <1>3, <1>4, SeqWhole, Zenon
<1>6. WholeMessagesInOrder' /\ handled' \in Seq(Seq(AByte))
  BY <1>1, <1>2, <1>3, <1>5, HandledOneMore, Zenon DEF Inv
<1>7. Types'
  BY <1>1, <1>2, <1>6, SeqNone DEF Types, Ends
<1> QED
  BY <1>1, <1>6, <1>7 DEF Inv

\* send_message puts the whole message behind what is underway.
LEMMA send_message_Inv ==
    ASSUME Inv, NEW len \in Length, send_message(len) PROVE Inv'
<1> DEFINE m == Len(sent) + 1
           hd == HeadOf(m, len)
           bd == BodyOf(m, len)
           a == hd \o bd
           bytes == [i \in 1 .. Len(sent) |-> Message(i)]
<1>1. /\ UNCHANGED <<handled, popped, net, ibuf, pc, sender, receiver>> /\ Writes /\ Writes'
      /\ obuf' = (obuf \o hd) \o bd /\ sent' = Append(sent, len) /\ out' = (out \/ obuf = <<>>)
  BY Zenon DEF send_message, CanSend, Writes
<1>2. /\ Types /\ sent \in Seq(Length) /\ obuf \in Seq(AByte) /\ ibuf \o net \in Seq(AByte)
      /\ Flatten(handled) \in Seq(AByte) /\ Underway \in Seq(AByte) /\ handled \in Seq(Seq(AByte))
  BY WayOf, Zenon DEF Inv, Types
<1>3. Len(sent) \in Nat /\ m \in Nat /\ len \in Nat /\ Len(handled) \in Nat
  BY <1>2, SeqLen, ConnAssumption
<1>4. hd \in Seq(AByte) /\ bd \in Seq(AByte) /\ a \in Seq(AByte)
  BY <1>3, MessageOf, Zenon
<1>5. /\ sent' \in Seq(Length) /\ Len(sent') = m /\ sent'[m] = len
      /\ \A i \in 1 .. Len(sent) : sent'[i] = sent[i]
  BY <1>1, <1>2, SeqAppend
<1>6. \A i \in 1 .. Len(sent) : i \in 1 .. m /\ Message(i)' = Message(i)
  <2>1. \A i \in 1 .. Len(sent) : i \in 1 .. m
    BY <1>3
  <2> QED
    BY <1>5, <2>1, Zenon DEF Message
<1>7. \A i : i = m => Message(i)' = a
  BY <1>5, Zenon DEF Message
<1> HIDE DEF m, hd, bd
<1>8. obuf' = obuf \o a /\ obuf' \in Seq(AByte)
  <2>1. (obuf \o hd) \o bd = obuf \o (hd \o bd)
    <3>1. obuf \in Seq(AByte) /\ hd \in Seq(AByte) /\ bd \in Seq(AByte)
      BY <1>2, <1>4, Zenon
    <3> QED
      BY <3>1, Joined, Zenon
  <2> HIDE DEF a
  <2>2. obuf \o a \in Seq(AByte)
    BY <1>2, <1>4, SeqConcat, Zenon
  <2> QED
    BY <1>1, <2>1, <2>2, Zenon DEF a
<1> HIDE DEF a
<1>9. Types'
  BY <1>1, <1>2, <1>5, <1>8 DEF Types
<1>10. Underway' = Underway \o a
  <2>1. Underway = (ibuf \o net) \o obuf /\ Underway' = (ibuf \o net) \o (obuf \o a)
    BY <1>1, <1>8, Zenon DEF Underway, Rest
  <2>2. ((ibuf \o net) \o obuf) \o a = (ibuf \o net) \o (obuf \o a)
    <3>1. ibuf \o net \in Seq(AByte) /\ obuf \in Seq(AByte) /\ a \in Seq(AByte)
      BY <1>2, <1>4, Zenon
    <3> QED
      BY <3>1, Joined, Zenon
  <2> QED
    BY <2>1, <2>2, Zenon
<1>11. WholeMessagesInOrder'
  <2>1. Len(handled) <= Len(sent) /\ \A i \in 1 .. Len(handled) : handled[i] = Message(i)
    BY Zenon DEF Inv, WholeMessagesInOrder
  <2>2. Len(handled) <= m /\ \A i \in 1 .. Len(handled) : i \in 1 .. Len(sent)
    BY <1>3, <2>1 DEF m
  <2> QED
    BY <1>1, <1>5, <1>6, <2>1, <2>2, Zenon DEF WholeMessagesInOrder
<1>12. ASSUME receiver = "open"
       PROVE  /\ InStep(Underway', sent', Len(handled))
              /\ ToTheEnd(Underway', sent', Len(handled)) /\ OnTheWay' = Stream'
  <2>1. InStep(Underway, sent, Len(handled)) /\ ToTheEnd(Underway, sent, Len(handled)) /\ OnTheWay = Stream
    BY <1>1, <1>12, Zenon DEF Inv
  <2>2. InStep(Underway \o a, Append(sent, len), Len(handled)) /\ ToTheEnd(Underway \o a, Append(sent, len), Len(handled))
    BY <1>2, <1>3, <2>1, MoreInStep, Zenon DEF a, hd, bd, m
  <2>3. bytes \in [1 .. Len(sent) -> Seq(AByte)]
    <3>1. ASSUME NEW i \in 1 .. Len(sent) PROVE Message(i) \in Seq(AByte)
      <4>1. sent[i] \in Length
        BY <1>2, SeqAt, Zenon
      <4>2. i \in Nat
        BY <1>3
      <4>3. sent[i] \in Nat
        BY <4>1, ConnAssumption, Zenon
      <4> QED
        BY <4>2, <4>3, MessageOf, Zenon DEF Message
    <3> QED
      BY <3>1, Zenon
  <2>4. /\ bytes \in Seq(Seq(AByte))
        /\ [i \in 1 .. Len(sent') |-> Message(i)'] = Append(bytes, a)
    <3> DEFINE more == [i \in 1 .. Len(sent') |-> Message(i)']
    <3>a. m \in 1 .. m
      BY <1>3 DEF m
    <3>b. more[m] = a
      BY <1>5, <1>7, <3>a, Zenon
    <3>1. more[Len(sent) + 1] = a /\ \A i \in 1 .. Len(sent) : more[i] = bytes[i]
      BY <1>5, <1>6, <3>b, Zenon DEF m
    <3>2. more \in [1 .. Len(sent) + 1 -> Seq(AByte)]
      <4>1. ASSUME NEW i \in 1 .. m PROVE Message(i)' \in Seq(AByte)
        <5>1. i = m \/ i \in 1 .. Len(sent)
          BY <1>3 DEF m
        <5>2. i \in 1 .. Len(sent) => bytes[i] = Message(i) /\ bytes[i] \in Seq(AByte)
          BY <2>3, Zenon
        <5> QED
          BY <1>4, <1>6, <1>7, <5>1, <5>2, Zenon
      <4>2. more = [i \in 1 .. m |-> Message(i)']
        BY <1>5, Zenon
      <4> HIDE DEF more
      <4> QED
        BY <4>1, <4>2, Zenon DEF m
    <3> HIDE DEF bytes, more
    <3>3. bytes \in Seq(Seq(AByte)) /\ more = Append(bytes, a)
      <4>1. Longer(more, bytes, a, Len(sent), Seq(AByte))
        BY <1>3, <1>4, <2>3, <3>1, <3>2, Zenon DEF Longer
      <4> QED
        BY <4>1, OneMore, Zenon
    <3> QED
      BY <3>3, Zenon DEF more
  <2>5. Stream = Flatten(bytes) /\ Stream' = Flatten([i \in 1 .. Len(sent') |-> Message(i)'])
    BY Zenon DEF Stream
  <2> HIDE DEF bytes
  <2>6. Stream' = Stream \o a
    BY <1>4, <2>4, <2>5, FlattenAppend, Zenon
  <2>7. OnTheWay = Flatten(handled) \o Underway
    BY <1>1, <1>2, WayOf, Zenon
  <2>8. OnTheWay' = Flatten(handled) \o (Underway \o a)
    <3>1. (OnTheWay = Flatten(handled) \o Underway)'
      BY <1>1, <1>9, WayOf, PTL
    <3> QED
      BY <1>1, <1>10, <3>1, Zenon
  <2>9. (Flatten(handled) \o Underway) \o a = Flatten(handled) \o (Underway \o a)
    <3>1. Flatten(handled) \in Seq(AByte) /\ Underway \in Seq(AByte) /\ a \in Seq(AByte)
      BY <1>2, <1>4, Zenon
    <3> QED
      BY <3>1, Joined, Zenon
  <2> QED
    BY <1>1, <1>10, <2>1, <2>2, <2>6, <2>7, <2>8, <2>9, Zenon
<1>13. LongSent => LongSent'
  BY <1>5, <1>6, Zenon DEF LongSent
<1> QED
  BY <1>1, <1>9, <1>11, <1>12, <1>13, Zenon DEF Inv

-----------------------------------------------------------------------------
(* The results                                                             *)

\* A new connection has sent nothing and holds nothing.
LEMMA InitInv == Init => Inv
<1> SUFFICES ASSUME Init PROVE Inv
  OBVIOUS
<1>1. /\ sent = <<>> /\ handled = <<>> /\ obuf = <<>> /\ net = <<>> /\ ibuf = <<>>
      /\ popped = FALSE /\ pc = "epoll" /\ out = FALSE /\ sender = "open" /\ receiver = "open"
  BY Zenon DEF Init
<1>2. Types
  BY <1>1, SeqNone, Zenon DEF Types, Ends
<1>3. <<>> \o <<>> = <<>> /\ Len(<<>>) = 0
  BY SeqNone, SeqConcatNone
<1>4. Underway = <<>> /\ Writes /\ Len(sent) = 0 /\ Len(handled) = 0
  BY <1>1, <1>3, Zenon DEF Underway, Rest, Writes
<1>5. InStep(Underway, sent, Len(handled)) /\ ToTheEnd(Underway, sent, Len(handled))
  BY <1>3, <1>4 DEF InStep, ToTheEnd
<1>6. WholeMessagesInOrder
  BY <1>4 DEF WholeMessagesInOrder
<1>7. OnTheWay = Stream
  <2>1. OnTheWay = Flatten(<<>>) \o <<>>
    BY <1>1, <1>2, <1>4, WayOf, Zenon
  <2>2. [m \in 1 .. Len(sent) |-> Message(m)] = <<>>
    BY <1>4
  <2> QED
    BY <1>3, <2>1, <2>2, FlattenNone, Zenon DEF Stream
<1> QED
  BY <1>1, <1>2, <1>5, <1>6, <1>7 DEF Inv

\* Every step of either end keeps the bytes in step.
LEMMA NextInv == Inv /\ [Next]_vars => Inv'
<1> SUFFICES ASSUME Inv, [Next]_vars PROVE Inv'
  OBVIOUS
<1>1. CASE \E len \in Length : send_message(len)
  BY <1>1, send_message_Inv, Zenon
<1>2. CASE \/ send_assert \/ do_write_assert \/ sender_clean_conn
           \/ \E len \in Length : send_message_fails(len)
           \/ \E n \in 1 .. SocketLimit : do_write(n)
  BY <1>2, Sender_Inv, Zenon
<1>3. CASE do_read
  BY <1>3, do_read_Inv, Zenon
<1>4. CASE do_read_assert
  BY <1>4, do_read_assert_Inv, Zenon
<1>5. CASE do_read_end \/ receiver_clean_conn \/ \E n \in 1 .. SocketLimit : read_data(n)
  BY <1>5, Receiver_Inv, Zenon
<1>6. CASE UNCHANGED vars
  <2>1. UNCHANGED <<sent, handled, obuf, popped, net, ibuf, pc, out, sender, receiver>>
    BY <1>6, Zenon DEF vars
  <2> QED
    BY <2>1, Zenon DEF Inv, Types, WholeMessagesInOrder, Message, InStep, ToTheEnd, Underway, Rest,
        Writes, OnTheWay, Stream, LongSent
<1> QED
  BY <1>1, <1>2, <1>3, <1>4, <1>5, <1>6, Zenon DEF Next, Write, Receive

\* The bytes that are underway stay in step with the messages.
LEMMA Invariance == Spec => []Inv
BY InitInv, NextInv, PTL DEF Spec

\* Every message that do_read gives to the router is one that was sent, whole
\* and in its turn, wherever TCP cuts the bytes (tcp_conn.cpp:79-110).
THEOREM MessagesStayWhole == Spec => []WholeMessagesInOrder
<1>1. Inv => WholeMessagesInOrder
  BY Zenon DEF Inv
<1> QED
  BY <1>1, Invariance, PTL

\* do_read closes the connection of a sender that is there only for a body
\* beyond MESSAGE_LENGTH_LIMIT: it never takes other bytes for a head
\* (tcp_conn.cpp:79-95).
THEOREM NoFalseHead == Spec => []OnlyLongBodyCloses
<1>1. Inv => OnlyLongBodyCloses
  BY Zenon DEF Inv, OnlyLongBodyCloses, LongSent
<1> QED
  BY <1>1, Invariance, PTL

\* Between two open ends no byte of an accepted message is lost, repeated or
\* moved, unless a body found no room and send_message popped the head
\* (tcp_conn.cpp:161-177).
THEOREM NoByteLost == Spec => []OnlyFailedBodyBreaks
<1>1. Inv => OnlyFailedBodyBreaks
  BY Zenon DEF Inv, OnlyFailedBodyBreaks, StreamIntact, Writes
<1> QED
  BY <1>1, Invariance, PTL
=============================================================================
