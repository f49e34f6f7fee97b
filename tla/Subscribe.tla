----------------------------- MODULE Subscribe -----------------------------
(***************************************************************************)
(* How lars_dns tells agents that a module changed: SubscribeList          *)
(* (subscribe.cpp) with the connection hooks and the request handler that  *)
(* feed it (dns_service.cpp).                                              *)
(*                                                                         *)
(* Actors: the worker threads of the tcp_server, each of which runs the    *)
(* handlers and the push tasks of its own connections one after another;   *)
(* and the thread of check_route_changes, which swaps the route table and  *)
(* calls publish.  A critical section under _book_list_lock or             *)
(* _push_list_lock is one step; the erase of push_change_task, which takes *)
(* no lock, is a step of its own that falls before or after any of them.   *)
(*                                                                         *)
(* The hosts of a mod are named by the number of reloads that changed      *)
(* them.  Connections are named by their fd, which is used again after a   *)
(* close.                                                                  *)
(***************************************************************************)
EXTENDS Integers, FiniteSets

CONSTANTS Fd, Mod,
          thread_cnt,   \* worker threads of the pool
          MaxSwaps      \* bound: reloads of the route table

ASSUME SubscribeAssumption == thread_cnt \in Nat \ {0} /\ MaxSwaps \in Nat

VARIABLES
    route,          \* contents of the route table, per mod
    poller,         \* progress of publish
    swaps,
    book_list,      \* _book_list: fds that subscribed to a mod
    push_list,      \* _push_list: mods to be pushed to a fd
    loop_of,        \* thread whose event loop listens to the fd's connection
    sub_list,       \* conn->param of the fd's connection
    tasks,          \* push_change_task tasks queued for a thread
    work,           \* what a thread is doing
    told,           \* history: contents last sent on the connection
    promised,       \* history: contents when the mod was last in a publish
    fresh,          \* history: mods published for a fd and not sent since
    raced           \* history: an erase dropped one of them

lists == <<book_list, push_list>>
conns == <<loop_of, sub_list>>
subVars == <<route, poller, swaps, lists, conns, tasks, work, told, promised, fresh, raced>>

Thread == 0 .. thread_cnt - 1
Nobody == -1
Never == -1
Doing(step, fd, mod, need) == [step |-> step, fd |-> fd, mod |-> mod, need |-> need]
Idle == Doing("idle", Nobody, Nobody, {})
Online(t) == {fd \in Fd : loop_of[fd] = t}

-----------------------------------------------------------------------------
(* Connections: the hooks create_subscribe and clear_subscribe             *)

create_subscribe(t, fd) ==
    /\ work[t] = Idle /\ loop_of[fd] = Nobody
    /\ loop_of' = [loop_of EXCEPT ![fd] = t]
    /\ told' = [told EXCEPT ![fd] = [m \in Mod |-> Never]]
    /\ raced' = [raced EXCEPT ![fd] = FALSE]
    /\ UNCHANGED <<route, poller, swaps, lists, sub_list, tasks, work, promised, fresh>>

clean_conn(t, fd) ==
    /\ work[t] = Idle /\ loop_of[fd] = t
    /\ work' = [work EXCEPT ![t] = Doing("close", fd, Nobody, {})]
    /\ UNCHANGED <<route, poller, swaps, lists, conns, tasks, told, promised, fresh, raced>>

\* Mutant: the connection goes away with its subscriptions still booked.
unsubscribe_Forget(t, mod) ==
    LET fd == work[t].fd
    IN  /\ work[t].step = "close" /\ mod \in sub_list[fd]
        /\ sub_list' = [sub_list EXCEPT ![fd] = @ \ {mod}]
        /\ UNCHANGED <<route, poller, swaps, lists, loop_of, tasks, work,
                       told, promised, fresh, raced>>

\* One turn of clear_subscribe's loop.
unsubscribe(t, mod) ==
    LET fd == work[t].fd
    IN  /\ work[t].step = "close" /\ mod \in sub_list[fd]
        /\ sub_list' = [sub_list EXCEPT ![fd] = @ \ {mod}]
        /\ book_list' = [book_list EXCEPT ![mod] = @ \ {fd}]
        /\ UNCHANGED <<route, poller, swaps, push_list, loop_of, tasks, work,
                       told, promised, fresh, raced>>

\* The rest of clean_conn: the fd leaves the loop and is closed.
close(t) ==
    LET fd == work[t].fd
    IN  /\ work[t].step = "close" /\ sub_list[fd] = {}
        /\ loop_of' = [loop_of EXCEPT ![fd] = Nobody]
        /\ work' = [work EXCEPT ![t] = Idle]
        /\ UNCHANGED <<route, poller, swaps, lists, sub_list, tasks, told, promised, fresh, raced>>

-----------------------------------------------------------------------------
(* The request handler get_route: subscribe, then read and answer          *)

get_route(t, fd, mod) ==
    /\ work[t] = Idle /\ loop_of[fd] = t
    /\ sub_list' = [sub_list EXCEPT ![fd] = @ \cup {mod}]
    /\ book_list' = IF mod \in sub_list[fd] THEN book_list
                    ELSE [book_list EXCEPT ![mod] = @ \cup {fd}]
    /\ work' = [work EXCEPT ![t] = Doing("route", fd, mod, {})]
    /\ UNCHANGED <<route, poller, swaps, push_list, loop_of, tasks, told, promised, fresh, raced>>

get_route_answer(t) ==
    LET w == work[t]
    IN  /\ w.step = "route"
        /\ told' = [told EXCEPT ![w.fd][w.mod] = route[w.mod]]
        /\ work' = [work EXCEPT ![t] = Idle]
        /\ UNCHANGED <<route, poller, swaps, lists, conns, tasks, promised, fresh, raced>>

-----------------------------------------------------------------------------
(* check_route_changes: swap, then SubscribeList::publish                  *)

\* The mods whose rows load_changes finds need not be those that changed.
swap(changed, change_mods) ==
    /\ poller.step = "idle" /\ swaps < MaxSwaps
    /\ swaps' = swaps + 1
    /\ route' = [m \in Mod |-> IF m \in changed THEN route[m] + 1 ELSE route[m]]
    /\ promised' = [m \in Mod |-> IF m \in change_mods THEN route'[m] ELSE promised[m]]
    /\ poller' = [step |-> "publish", mods |-> change_mods, next |-> 0]
    /\ UNCHANGED <<lists, conns, tasks, work, told, fresh, raced>>

\* Mutant: the task is sent to one thread, as a new connection is.
publish_OneThread ==
    LET add(fd) == {m \in poller.mods : fd \in book_list[m]}
    IN  /\ poller.step = "publish"
        /\ push_list' = [fd \in Fd |-> push_list[fd] \cup add(fd)]
        /\ fresh' = [fd \in Fd |-> fresh[fd] \cup add(fd)]
        /\ poller' = [poller EXCEPT !.step = "notify", !.next = thread_cnt - 1]
        /\ UNCHANGED <<route, swaps, book_list, conns, tasks, work, told, promised, raced>>

\* Mutant: the lists are written and the threads are not told.
publish_NoTask ==
    LET add(fd) == {m \in poller.mods : fd \in book_list[m]}
    IN  /\ poller.step = "publish"
        /\ push_list' = [fd \in Fd |-> push_list[fd] \cup add(fd)]
        /\ fresh' = [fd \in Fd |-> fresh[fd] \cup add(fd)]
        /\ poller' = [step |-> "idle", mods |-> {}, next |-> 0]
        /\ UNCHANGED <<route, swaps, book_list, conns, tasks, work, told, promised, raced>>

publish ==
    LET add(fd) == {m \in poller.mods : fd \in book_list[m]}
    IN  /\ poller.step = "publish"
        /\ push_list' = [fd \in Fd |-> push_list[fd] \cup add(fd)]
        /\ fresh' = [fd \in Fd |-> fresh[fd] \cup add(fd)]
        /\ poller' = [step |-> "notify", mods |-> poller.mods, next |-> 0]
        /\ UNCHANGED <<route, swaps, book_list, conns, tasks, work, told, promised, raced>>

\* One turn of thread_pool::send_task's loop.
send_task ==
    /\ poller.step = "notify"
    /\ tasks' = [tasks EXCEPT ![poller.next] = @ + 1]
    /\ poller' = IF poller.next = thread_cnt - 1
                 THEN [step |-> "idle", mods |-> {}, next |-> 0]
                 ELSE [step |-> "notify", mods |-> poller.mods, next |-> poller.next + 1]
    /\ UNCHANGED <<route, swaps, lists, conns, work, told, promised, fresh, raced>>

-----------------------------------------------------------------------------
(* push_change_task                                                        *)

make_publish_map(t) ==
    LET need == {p \in Online(t) \X Mod : p[2] \in push_list[p[1]]}
    IN  /\ work[t] = Idle /\ tasks[t] > 0
        /\ tasks' = [tasks EXCEPT ![t] = @ - 1]
        /\ work' = [work EXCEPT ![t] = IF need = {} THEN Idle
                       ELSE Doing("push", Nobody, Nobody, need)]
        /\ fresh' = [fd \in Fd |-> IF fd \in Online(t) THEN {} ELSE fresh[fd]]
        /\ UNCHANGED <<route, poller, swaps, lists, conns, told, promised, raced>>

\* get_hosts and send_message for one mod of one fd; the map is walked fd by
\* fd, so the one begun is finished first.
push_mod(t, fd, mod) ==
    LET w == work[t]
    IN  /\ w.step = "push" /\ <<fd, mod>> \in w.need
        /\ w.fd \in {p[1] : p \in w.need} => fd = w.fd
        /\ told' = [told EXCEPT ![fd][mod] = route[mod]]
        /\ fresh' = [fresh EXCEPT ![fd] = @ \ {mod}]
        /\ work' = [work EXCEPT ![t] = Doing("erase", fd, mod, w.need \ {<<fd, mod>>})]
        /\ UNCHANGED <<route, poller, swaps, lists, conns, tasks, promised, raced>>

\* get_push_list()->erase(fd), after every mod and without the lock.
erase(t) ==
    LET w == work[t]
        left == {m \in Mod : <<w.fd, m>> \in w.need}
    IN  /\ w.step = "erase"
        /\ push_list' = [push_list EXCEPT ![w.fd] = {}]
        /\ raced' = [raced EXCEPT ![w.fd] = @ \/ fresh[w.fd] \ left # {}]
        /\ work' = [work EXCEPT ![t] = IF w.need = {} THEN Idle
                                        ELSE Doing("push", w.fd, w.mod, w.need)]
        /\ UNCHANGED <<route, poller, swaps, book_list, conns, tasks, told, promised, fresh>>

-----------------------------------------------------------------------------

SubInit ==
    /\ route = [m \in Mod |-> 0] /\ promised = [m \in Mod |-> 0] /\ swaps = 0
    /\ poller = [step |-> "idle", mods |-> {}, next |-> 0]
    /\ book_list = [m \in Mod |-> {}] /\ push_list = [fd \in Fd |-> {}]
    /\ loop_of = [fd \in Fd |-> Nobody] /\ sub_list = [fd \in Fd |-> {}]
    /\ tasks = [t \in Thread |-> 0] /\ work = [t \in Thread |-> Idle]
    /\ told = [fd \in Fd |-> [m \in Mod |-> Never]]
    /\ fresh = [fd \in Fd |-> {}] /\ raced = [fd \in Fd |-> FALSE]

push_change_task(t) ==
    \/ make_publish_map(t) \/ erase(t)
    \/ \E fd \in Fd, mod \in Mod : push_mod(t, fd, mod)

clear_subscribe(t) == (\E mod \in Mod : unsubscribe(t, mod)) \/ close(t)

SubNext ==
    \/ \E t \in Thread :
        \/ \E fd \in Fd : create_subscribe(t, fd) \/ clean_conn(t, fd)
        \/ \E fd \in Fd, mod \in Mod : get_route(t, fd, mod)
        \/ get_route_answer(t) \/ clear_subscribe(t) \/ push_change_task(t)
    \/ \E changed, change_mods \in SUBSET Mod : swap(changed, change_mods)
    \/ publish \/ send_task

SubSpec == SubInit /\ [][SubNext]_subVars

\* A handler that was begun runs to its end, event_process runs the queued
\* tasks after every batch of events, and the poller is scheduled.
SubFairSpec ==
    /\ SubSpec
    /\ \A t \in Thread :
        /\ WF_subVars(get_route_answer(t)) /\ WF_subVars(clear_subscribe(t))
        /\ WF_subVars(erase(t) \/ \E fd \in Fd, mod \in Mod : push_mod(t, fd, mod))
        /\ SF_subVars(make_publish_map(t))
    /\ WF_subVars(publish \/ send_task)

-----------------------------------------------------------------------------
(* Properties                                                              *)

\* _book_list holds exactly the subscriptions of the connections that are
\* open: a fd that is closed, and may be accepted again for another agent, is
\* in no entry (subscribe.cpp:17-44, dns_service.cpp:23-37, 73-88).
BookedWhileOpen ==
    \A fd \in Fd, m \in Mod :
        /\ fd \in book_list[m] <=> m \in sub_list[fd]
        /\ m \in sub_list[fd] => loop_of[fd] # Nobody

TaskComing(t) == tasks[t] > 0 \/ (poller.step = "notify" /\ poller.next <= t)

\* Something still to be done will send the mod's current hosts to the fd.
PushPending(fd, m) ==
    \/ poller.step = "publish" /\ m \in poller.mods
    \/ m \in push_list[fd] /\ TaskComing(loop_of[fd])
    \/ <<fd, m>> \in work[loop_of[fd]].need
    \/ LET w == work[loop_of[fd]] IN w.step = "route" /\ w.fd = fd /\ w.mod = m

Outdated(fd, m) ==
    m \in sub_list[fd] /\ told[fd][m] # Never /\ told[fd][m] < promised[m]

\* No published change is lost between a subscription, the answer to it and
\* the push tasks, except by the unlocked erase: a subscriber whose last
\* result is older than the last publish of the mod has a push on its way
\* (subscribe.cpp:47-172, dns_service.cpp:30-40).
OnlyEraseLosesPushes ==
    \A fd \in Fd, m \in Mod : Outdated(fd, m) => PushPending(fd, m) \/ raced[fd]

\* Every published change reaches each subscriber that stays connected,
\* unless the unlocked erase dropped it.
PushesArrive ==
    \A fd \in Fd, m \in Mod : Outdated(fd, m) ~> (~Outdated(fd, m) \/ raced[fd])

\* subscribe.h:39 and subscribe.cpp:141: the fds of a modified module receive
\* its new result.  The same without the exception.
NoPushLost ==
    \A fd \in Fd, m \in Mod : Outdated(fd, m) => PushPending(fd, m)
=============================================================================
