----------------------------- MODULE TcpServer -----------------------------
(***************************************************************************)
(* The connections of a tcp_server (tcp_server.cpp, tcp_conn.cpp): the     *)
(* thread that accepts them, the threads of the ThreadPool that create,    *)
(* serve and clean them, and the table tcp_server::conns they share,       *)
(* indexed by fd.                                                          *)
(*                                                                         *)
(* The kernel gives the lowest free descriptor to accept, so a descriptor  *)
(* is used again as soon as it is closed.  Descriptors are counted from    *)
(* the first one after those the table's size allows for (stdio, the       *)
(* listening socket, the epoll and event descriptors): OtherFds more       *)
(* belong to the rest of the process, such as its database connections.    *)
(***************************************************************************)
EXTENDS ThreadPool, FiniteSets, FiniteSetsExt

CONSTANTS
    max_conns,      \* maxConn of the configuration
    OtherFds,       \* descriptors of the process the table has no room for
    FdLimit,        \* descriptors a process may have
    MaxConns        \* bound: connections accepted

ASSUME ServerAssumption ==
    max_conns \in Nat /\ OtherFds \in Nat /\ FdLimit \in Nat /\ MaxConns \in Nat

VARIABLES
    used,           \* descriptors the kernel has given out
    accepted,       \* connections accepted so far: the next one's name
    main,           \* the accepting thread
    work,           \* the connection a thread is making or cleaning
    listen_fds,     \* event_loop::listen_fds of a thread
    conns,          \* tcp_server::conns: the connection at a descriptor
    curr_conns,
    ub              \* the array that was used past its end, or "none"

server == <<used, accepted, main, work, listen_fds, conns, curr_conns, ub>>
vars == <<pool, server>>

Fd == OtherFds .. FdLimit - 1
Conn == 1 .. MaxConns
NoFd == -1
NULL == 0
Garbage == -1
Idle == [step |-> "idle", fd |-> NoFd, conn |-> NULL]
InTable(fd) == fd < max_conns
Free == Fd \ used
Runs == ub = "none"

-----------------------------------------------------------------------------
(* do_accept                                                               *)

\* Without a free descriptor accept fails with EMFILE and is called again.
accept ==
    /\ Runs /\ main = Idle /\ accepted < MaxConns /\ Free # {}
    /\ used' = used \cup {Min(Free)}
    /\ accepted' = accepted + 1
    /\ main' = [step |-> "check", fd |-> Min(Free), conn |-> accepted + 1]
    /\ UNCHANGED <<pool, work, listen_fds, conns, curr_conns, ub>>

\* get_conn_num says there are too many: close, and accept the next one.
refuse ==
    /\ Runs /\ main.step = "check" /\ curr_conns >= max_conns
    /\ used' = used \ {main.fd}
    /\ main' = Idle
    /\ UNCHANGED <<pool, accepted, work, listen_fds, conns, curr_conns, ub>>

\* get_thread, and a NEW_CONN message for the queue it returns.
hand_over ==
    /\ Runs /\ main.step = "check" /\ curr_conns < max_conns
    /\ index' = get_thread + 1
    /\ \/ /\ get_thread \in Thread
          /\ send(get_thread, [type |-> "NEW_CONN", id |-> main.conn, fd |-> main.fd])
          /\ UNCHANGED ub
       \/ get_thread \notin Thread /\ ub' = "_queues" /\ UNCHANGED queues
    /\ main' = Idle
    /\ UNCHANGED <<thread_cnt, loops, sender, used, accepted, work, listen_fds, conns, curr_conns>>

-----------------------------------------------------------------------------
(* tcp_conn's constructor: the event, then the table                       *)

new_conn(w) ==
    LET m == Head(batch[w])
    IN  /\ Runs /\ work[w] = Idle
        /\ next_msg(w, "NEW_CONN")
        /\ handled' = [handled EXCEPT ![w]["NEW_CONN"] = Append(@, m)]
        /\ listen_fds' = [listen_fds EXCEPT ![w] = @ \cup {m.fd}]
        /\ work' = [work EXCEPT ![w] = [step |-> "open", fd |-> m.fd, conn |-> m.id]]
        /\ UNCHANGED <<thread_cnt, index, queues, listening, step, ready, sender>>
        /\ UNCHANGED <<used, accepted, main, conns, curr_conns, ub>>

\* Mutant: the connection is entered but not counted.
increase_conn_NoCount(w) ==
    /\ Runs /\ work[w].step = "open" /\ InTable(work[w].fd)
    /\ conns' = [conns EXCEPT ![work[w].fd] = work[w].conn]
    /\ work' = [work EXCEPT ![w] = Idle]
    /\ UNCHANGED <<pool, used, accepted, main, listen_fds, curr_conns, ub>>

increase_conn(w) ==
    LET fd == work[w].fd
    IN  /\ Runs /\ work[w].step = "open"
        /\ \/ InTable(fd) /\ conns' = [conns EXCEPT ![fd] = work[w].conn]
                          /\ curr_conns' = curr_conns + 1 /\ UNCHANGED ub
           \/ ~InTable(fd) /\ ub' = "conns" /\ UNCHANGED <<conns, curr_conns>>
        /\ work' = [work EXCEPT ![w] = Idle]
        /\ UNCHANGED <<pool, used, accepted, main, listen_fds>>

-----------------------------------------------------------------------------
(* clean_conn: the table, then the event, then the descriptor              *)

\* Events of connections come before or after deal_task in a batch.
CanServe(w) == batch[w] = <<>> /\ step[w] \in {"wait", "deal"}

\* Mutant: the descriptor is closed before the table is cleared.
clean_conn_CloseFirst(w, fd) ==
    /\ Runs /\ work[w] = Idle /\ CanServe(w) /\ fd \in listen_fds[w]
    /\ work' = [work EXCEPT ![w] = [step |-> "clean", fd |-> fd, conn |-> conns[fd]]]
    /\ used' = used \ {fd}
    /\ UNCHANGED <<pool, accepted, main, listen_fds, conns, curr_conns, ub>>

clean_conn(w, fd) ==
    /\ Runs /\ work[w] = Idle /\ CanServe(w) /\ fd \in listen_fds[w]
    /\ work' = [work EXCEPT ![w] = [step |-> "clean", fd |-> fd, conn |-> conns[fd]]]
    /\ UNCHANGED <<pool, used, accepted, main, listen_fds, conns, curr_conns, ub>>

decrease_conn(w) ==
    /\ Runs /\ work[w].step = "clean"
    /\ conns' = [conns EXCEPT ![work[w].fd] = NULL]
    /\ curr_conns' = curr_conns - 1
    /\ work' = [work EXCEPT ![w] =
                   [step |-> "close", fd |-> work[w].fd, conn |-> work[w].conn]]
    /\ UNCHANGED <<pool, used, accepted, main, listen_fds, ub>>

close(w) ==
    LET fd == work[w].fd
    IN  /\ Runs /\ work[w].step = "close"
        /\ listen_fds' = [listen_fds EXCEPT ![w] = @ \ {fd}]
        /\ used' = used \ {fd}
        /\ work' = [work EXCEPT ![w] = Idle]
        /\ UNCHANGED <<pool, accepted, main, conns, curr_conns, ub>>

-----------------------------------------------------------------------------

\* What the threads of the pool do while this thread makes no connection.
Pool(action) == Runs /\ action /\ UNCHANGED server
process(w) == work[w] = Idle /\ Pool(pool_process(w))

Init ==
    /\ PoolInit
    /\ used = {} /\ accepted = 0 /\ main = Idle
    /\ work = [w \in Thread |-> Idle] /\ listen_fds = [w \in Thread |-> {}]
    /\ conns = [fd \in Fd |-> Garbage] /\ curr_conns = 0 /\ ub = "none"

serve(w) == \/ process(w) \/ new_conn(w) \/ increase_conn(w) \/ decrease_conn(w) \/ close(w)

Next ==
    \/ accept \/ refuse \/ hand_over
    \/ Pool(send_task)
    \/ \E w \in Thread :
        \/ Pool(thread_main(w)) \/ serve(w) \/ \E fd \in Fd : clean_conn(w, fd)

Spec == Init /\ [][Next]_vars

\* Every thread starts and keeps running its loop, and clients go away only
\* finitely often, since finitely many come.
FairSpec ==
    /\ Spec
    /\ WF_vars(refuse \/ hand_over)
    /\ WF_vars(next > 0 /\ Pool(send_task))
    /\ \A w \in 0 .. Max(threadNum) - 1 :
        WF_vars(w \in Thread /\ Pool(thread_main(w))) /\ WF_vars(w \in Thread /\ serve(w))

-----------------------------------------------------------------------------
(* Properties                                                              *)

\* Two threads never listen to the same descriptor, and a descriptor a thread
\* listens to is still the one it was given: a number is handed out again
\* only after its last owner is done with it, also while messages about the
\* last connection with that number wait (tcp_conn.cpp:188-206).
OneOwner ==
    /\ \A w, v \in Thread : w # v => listen_fds[w] \cap listen_fds[v] = {}
    /\ \A w \in Thread :
        /\ listen_fds[w] \subseteq used
        /\ \A m \in Range(batch[w] \o queue[w]), v \in Thread :
            m.type = "NEW_CONN" => m.fd \in used \ listen_fds[v]

\* _curr_conns, which do_accept compares with the limit, is the number of
\* connections in the table; and what a task such as push_change_task relies
\* on when it reads conns[fd] without the lock for the descriptors its loop
\* listens to: each has its own connection in the table, in memory that was
\* not cleared at the start (tcp_server.cpp:38-67, subscribe.cpp:84, 129).
TableInStep ==
    /\ curr_conns = Cardinality({fd \in Fd : conns[fd] \in Conn})
    /\ Runs => \A w \in Thread : step[w] = "tasks" =>
        \A fd \in listen_fds[w] : conns[fd] \in {m.id : m \in Range(handled[w]["NEW_CONN"])}

\* Every connection accepted is refused or made, and every task sent is run by
\* every thread, also one that registers its callback after they were sent,
\* unless a descriptor is beyond the table, or a pool of one thread is asked
\* for its second queue (thread_pool.cpp:6-64, 128-146, thread_queue.h:33-94).
Made(c) == \E t \in Thread : c \in {m.id : m \in Range(handled[t]["NEW_CONN"])}
RanAll(k) == \A t \in Thread : k \in {m.id : m \in Range(handled[t]["NEW_TASK"])}
Refused(c) == main.conn # c /\ \A t \in Thread :
                c \notin {m.id : m \in Range(OfType(sent[t], "NEW_CONN"))}
Undefined == ub = "conns" \/ (ub = "_queues" /\ thread_cnt = 1)
MessagesHandled ==
    /\ \A c \in Conn : main.conn = c ~> (Made(c) \/ Refused(c) \/ Undefined)
    /\ \A k \in 1 .. MaxTasks : tasks = k ~> (RanAll(k) \/ Undefined)
=============================================================================
