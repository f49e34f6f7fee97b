----------------------------- MODULE ThreadPool -----------------------------
(***************************************************************************)
(* The thread pool of the reactor (thread_pool.cpp): worker threads that   *)
(* each own a thread_queue (thread_queue.h) and an event_loop              *)
(* (event_loop.cpp), and a thread that sends a task to all of them.  The   *)
(* connections the workers are handed are in TcpServer.tla.                *)
(*                                                                         *)
(* send and recv run under _queue_mutex and are one step each.  The event  *)
(* loop is level triggered: it wakes while the eventfd counts more than 0. *)
(* A connection is created as soon as deal_task meets its message; a task  *)
(* waits in _ready_tasks until the events of the batch have been handled.  *)
(***************************************************************************)
EXTENDS Integers, Sequences, Functions

CONSTANTS
    threadNum,      \* values of the configuration
    MaxTasks        \* bound: tasks sent

ASSUME PoolAssumption == threadNum \subseteq Nat \ {0} /\ MaxTasks \in Nat

VARIABLES
    thread_cnt, index,
    queue, evfd,    \* thread_queue
    listening,      \* the queue's callback is registered with the loop
    step,           \* event_process
    batch,          \* new_task_queue of deal_task
    ready,          \* event_loop::_ready_tasks
    next, tasks,    \* send_task: the queue its loop has come to, and its task
    sent, handled   \* history: messages sent to a queue, and those its thread
                    \* has handled, of each type

queues == <<queue, evfd, sent>>
loops == <<listening, step, batch, ready, handled>>
sender == <<next, tasks>>
pool == <<thread_cnt, index, queues, loops, sender>>

Thread == 0 .. thread_cnt - 1
Type == {"NEW_CONN", "NEW_TASK"}

-----------------------------------------------------------------------------
(* thread_queue                                                            *)

\* Mutant: the eventfd is not written.
send_Silent(t, m) ==
    /\ queue' = [queue EXCEPT ![t] = Append(@, m)]
    /\ sent' = [sent EXCEPT ![t] = Append(@, m)]
    /\ UNCHANGED evfd

send(t, m) ==
    /\ queue' = [queue EXCEPT ![t] = Append(@, m)]
    /\ evfd' = [evfd EXCEPT ![t] = @ + 1]
    /\ sent' = [sent EXCEPT ![t] = Append(@, m)]

\* Mutant: one message is taken, although the read empties the counter.
recv_One(t) ==
    /\ evfd' = [evfd EXCEPT ![t] = 0]
    /\ batch' = [batch EXCEPT ![t] = SubSeq(queue[t], 1, 1)]
    /\ queue' = [queue EXCEPT ![t] = Tail(@)]
    /\ UNCHANGED sent

\* The read of the eventfd resets it, and the whole queue is swapped out.
recv(t) ==
    /\ evfd' = [evfd EXCEPT ![t] = 0]
    /\ batch' = [batch EXCEPT ![t] = queue[t]]
    /\ queue' = [queue EXCEPT ![t] = <<>>]
    /\ UNCHANGED sent

-----------------------------------------------------------------------------
(* thread_pool                                                             *)

\* The index of the queue returned: the wrap is tested against the last index
\* before the index is used.
get_thread == IF index = thread_cnt - 1 THEN 0 ELSE index

\* One turn of send_task's loop over the queues.
send_task ==
    /\ next > 0 \/ tasks < MaxTasks
    /\ tasks' = IF next = 0 THEN tasks + 1 ELSE tasks
    /\ send(next, [type |-> "NEW_TASK", id |-> tasks'])
    /\ next' = (next + 1) % thread_cnt
    /\ UNCHANGED <<thread_cnt, index, loops>>

-----------------------------------------------------------------------------
(* thread_main, deal_task and the event loop                               *)

\* set_loop and set_callback, which may come after the first messages.
thread_main(t) ==
    /\ ~listening[t]
    /\ listening' = [listening EXCEPT ![t] = TRUE]
    /\ UNCHANGED <<thread_cnt, index, queues, step, batch, ready, handled, sender>>

\* epoll_wait reports the eventfd and deal_task empties the queue.
deal_task(t) ==
    /\ listening[t] /\ step[t] = "wait" /\ evfd[t] > 0
    /\ recv(t)
    /\ step' = [step EXCEPT ![t] = "deal"]
    /\ UNCHANGED <<thread_cnt, index, listening, ready, handled, sender>>

\* The turn of deal_task's loop for a message of a type.
next_msg(t, type) ==
    /\ step[t] = "deal" /\ batch[t] # <<>> /\ Head(batch[t]).type = type
    /\ batch' = [batch EXCEPT ![t] = Tail(@)]

\* Mutant: the task is run on the spot and also kept for later.
add_task_Twice(t) ==
    /\ next_msg(t, "NEW_TASK")
    /\ ready' = [ready EXCEPT ![t] = Append(@, Head(batch[t]))]
    /\ handled' = [handled EXCEPT ![t]["NEW_TASK"] = Append(@, Head(batch[t]))]
    /\ UNCHANGED <<thread_cnt, index, queues, listening, step, sender>>

add_task(t) ==
    /\ next_msg(t, "NEW_TASK")
    /\ ready' = [ready EXCEPT ![t] = Append(@, Head(batch[t]))]
    /\ UNCHANGED <<thread_cnt, index, queues, listening, step, handled, sender>>

\* The events of the batch have been handled; tasks follow, if there are any.
events_end(t) ==
    /\ step[t] = "deal" /\ batch[t] = <<>>
    /\ step' = [step EXCEPT ![t] = IF ready[t] = <<>> THEN "wait" ELSE "tasks"]
    /\ UNCHANGED <<thread_cnt, index, queues, listening, batch, ready, handled, sender>>

\* One turn of execute_ready_tasks' loop; a task adds no task of its own.
run_task(t) ==
    /\ step[t] = "tasks"
    /\ handled' = [handled EXCEPT ![t]["NEW_TASK"] = Append(@, Head(ready[t]))]
    /\ ready' = [ready EXCEPT ![t] = Tail(@)]
    /\ step' = [step EXCEPT ![t] = IF Len(ready[t]) = 1 THEN "wait" ELSE "tasks"]
    /\ UNCHANGED <<thread_cnt, index, queues, listening, batch, sender>>

-----------------------------------------------------------------------------

PoolInit ==
    /\ thread_cnt \in threadNum /\ index = 0 /\ next = 0 /\ tasks = 0
    /\ queue = [t \in Thread |-> <<>>] /\ evfd = [t \in Thread |-> 0]
    /\ listening = [t \in Thread |-> FALSE] /\ step = [t \in Thread |-> "wait"]
    /\ batch = [t \in Thread |-> <<>>] /\ ready = [t \in Thread |-> <<>>]
    /\ sent = [t \in Thread |-> <<>>]
    /\ handled = [t \in Thread |-> [type \in Type |-> <<>>]]

pool_process(t) == deal_task(t) \/ add_task(t) \/ events_end(t) \/ run_task(t)

-----------------------------------------------------------------------------
(* Properties                                                              *)

\* The wakeup of a waiting message is never lost, whatever interleaving of
\* send, recv and the late registration of the callback: a queue that is not
\* empty has its eventfd readable (thread_queue.h:33-70).
NoLostWakeup == \A t \in Thread : queue[t] # <<>> => evfd[t] > 0

\* Every message is handled exactly once and in the order it was sent: the
\* connections made, and the tasks run, with those still in the batch and in
\* the queue are the ones sent (thread_pool.cpp:21-64, event_loop.cpp:183-199).
One(m, type) == IF m.type = type THEN <<m>> ELSE <<>>
OfType(s, type) ==
    LET before[i \in 0 .. Len(s)] ==
            IF i = 0 THEN <<>> ELSE before[i - 1] \o One(s[i], type)
    IN  before[Len(s)]
InOrderExactlyOnce ==
    \A t \in Thread, type \in Type :
        handled[t][type] \o OfType(ready[t] \o batch[t] \o queue[t], type) = OfType(sent[t], type)
=============================================================================
