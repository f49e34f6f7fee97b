------------------------------ MODULE Reporter ------------------------------
(***************************************************************************)
(* lars_reporter: the TCP threads that receive the reports of the agents   *)
(* and hand each to one of the storing threads (reporter_service.cpp), and *)
(* the storing threads that write them to the table ServerCallStatus       *)
(* (store_thread.cpp, store_report.cpp).  A report travels as LarsProto    *)
(* encodes it.                                                             *)
(*                                                                         *)
(* The static variable index of get_report_status is read and written by   *)
(* every TCP thread without a lock.  The handler reads it to choose the    *)
(* queue and, after send, reads and writes it twice, to count and to wrap; *)
(* the threads interleave between these.  A report sent to a queue that is *)
(* not there has no defined outcome: ub is set and nothing is described    *)
(* after it.  The queues are thread_queue objects, whose wake-up is the    *)
(* subject of ThreadPool.                                                  *)
(***************************************************************************)
EXTENDS LarsProto

CONSTANTS
    Agent,          \* agents; each has its connection in a TCP thread of its own
    thread_cnt,     \* storing threads
    MaxReports,     \* bound: reports of one agent
    Lb              \* the load_balance whose state is an agent's n-th report

HostInfoType == [ip : INT32, port : INT32, rsucc : UINT31, rerr : UINT31]
LbType ==
    [modid : INT32, cmdid : INT32, ts : UINT31,
     idle_list : Seq(HostInfoType), overload_list : Seq(HostInfoType)]

ASSUME ReporterAssumption ==
    /\ thread_cnt \in Nat \ {0} /\ MaxReports \in Nat
    /\ Lb \in [Agent \X (1 .. MaxReports) -> LbType]

VARIABLES
    index,
    received,       \* reports that have arrived from an agent
    pc, i,          \* TCP threads: place in get_report_status, value read from index
    reportQueues,
    batch,          \* storing threads: the requests recv took, not yet stored
    stored,         \* statements made for the first of them
    table,          \* ServerCallStatus: key to the other columns of a row
    source,         \* history: key to the report the row is from
    last,           \* history: agent and key to the last report written, and by whom
    tries,          \* history: statements made for each result of a report
    ub              \* a step with no defined outcome was taken

written == <<table, source, last, tries>>
vars == <<index, received, pc, i, reportQueues, batch, stored, written, ub>>

Thread == 0 .. thread_cnt - 1
Report == Agent \X (1 .. MaxReports)

-----------------------------------------------------------------------------
(* load_balance::commit and new_report_request: what an agent sends        *)

CallResult(h, overload) ==
    [ip |-> h.ip, port |-> h.port, succ |-> h.rsucc, err |-> h.rerr, overload |-> overload]

\* The idle hosts, then the overloaded ones; none if the map of the
\* load_balance holds only hosts that were taken off its lists.
Results(lb) ==
    LET idle == Len(lb.idle_list)
    IN  [k \in 1 .. idle + Len(lb.overload_list) |->
            CopyFrom(HostCallResult, HostCallResult_new,
                     IF k <= idle THEN CallResult(lb.idle_list[k], FALSE)
                     ELSE CallResult(lb.overload_list[k - idle], TRUE))]

\* Every agent names the same caller.
commit(lb) ==
    [modid |-> lb.modid, cmdid |-> lb.cmdid, caller |-> 127, ts |-> lb.ts,
     results |-> Results(lb)]

Message == [r \in Report |-> ToArray(ReportStatusRequest, commit(Lb[r]))]

-----------------------------------------------------------------------------
(* get_report_status                                                       *)

get_report_status(a) ==
    /\ pc[a] = "epoll" /\ received[a] < MaxReports
    /\ received' = [received EXCEPT ![a] = @ + 1]
    /\ i' = [i EXCEPT ![a] = index]
    /\ pc' = [pc EXCEPT ![a] = "send"]
    /\ UNCHANGED <<index, reportQueues, batch, stored, written, ub>>

\* The request as it was parsed; from and no are history.
Parsed(a, n) ==
    [from |-> a, no |-> n,
     req |-> ParseFromArray(ReportStatusRequest, Message[<<a, n>>], ReportStatusRequest_new).msg]

send(a) ==
    /\ pc[a] = "send" /\ i[a] \in Thread
    /\ reportQueues' = [reportQueues EXCEPT ![i[a]] = Append(@, Parsed(a, received[a]))]
    /\ pc' = [pc EXCEPT ![a] = "sent"] /\ i' = [i EXCEPT ![a] = 0]
    /\ UNCHANGED <<index, received, batch, stored, written, ub>>

\* reportQueues has no such element.
send_nowhere(a) ==
    /\ pc[a] = "send" /\ i[a] \notin Thread
    /\ ub' = TRUE
    /\ UNCHANGED <<index, received, pc, i, reportQueues, batch, stored, written>>

\* ++index, and index = index % thread_cnt: each reads index and writes it.
read_index(a) ==
    /\ pc[a] \in {"sent", "counted"}
    /\ i' = [i EXCEPT ![a] = index]
    /\ pc' = [pc EXCEPT ![a] = IF @ = "sent" THEN "count" ELSE "wrap"]
    /\ UNCHANGED <<index, received, reportQueues, batch, stored, written, ub>>

count_index(a) ==
    /\ pc[a] = "count"
    /\ index' = i[a] + 1
    /\ pc' = [pc EXCEPT ![a] = "counted"] /\ i' = [i EXCEPT ![a] = 0]
    /\ UNCHANGED <<received, reportQueues, batch, stored, written, ub>>

\* Mutant: the value wraps one too late.
Wrapped_Late(n) == n % (thread_cnt + 1)

Wrapped(n) == n % thread_cnt

wrap_index(a) ==
    /\ pc[a] = "wrap"
    /\ index' = Wrapped(i[a])
    /\ pc' = [pc EXCEPT ![a] = "epoll"] /\ i' = [i EXCEPT ![a] = 0]
    /\ UNCHANGED <<received, reportQueues, batch, stored, written, ub>>

-----------------------------------------------------------------------------
(* The storing threads                                                     *)

\* Mutant: the last request comes out first.
thread_report_Reversed(t) ==
    /\ batch[t] = <<>> /\ reportQueues[t] # <<>>
    /\ batch' = [batch EXCEPT ![t] =
           [k \in DOMAIN reportQueues[t] |-> reportQueues[t][Len(reportQueues[t]) + 1 - k]]]
    /\ reportQueues' = [reportQueues EXCEPT ![t] = <<>>]
    /\ UNCHANGED <<index, received, pc, i, stored, written, ub>>

\* recv takes the whole queue.
thread_report(t) ==
    /\ batch[t] = <<>> /\ reportQueues[t] # <<>>
    /\ batch' = [batch EXCEPT ![t] = reportQueues[t]]
    /\ reportQueues' = [reportQueues EXCEPT ![t] = <<>>]
    /\ UNCHANGED <<index, received, pc, i, stored, written, ub>>

\* An int printed with %u, in two halves.
Unsigned(n) == <<(n \div 65536) % 65536, n % 65536>>

Key(req, result) ==
    <<req.modid, req.cmdid, Unsigned(result.ip), Unsigned(result.port), Unsigned(req.caller)>>

Columns(req, result) ==
    [succ_cnt |-> result.succ, err_cnt |-> result.err, ts |-> req.ts,
     overload |-> IF result.overload THEN 1 ELSE 0]

Put(f, x, v) == [y \in DOMAIN f \cup {x} |-> IF y = x THEN v ELSE f[y]]

\* One statement: the row is inserted or overwritten.
Written(t, r, result) ==
    LET key == Key(r.req, result)
    IN  /\ table' = Put(table, key, Columns(r.req, result))
        /\ source' = Put(source, key, <<r.from, r.no>>)
        /\ last' = Put(last, <<r.from, key>>, [no |-> r.no, by |-> t])

\* The results of a request in turn; a statement that fails prints its error.
store(t, done) ==
    LET r == Head(batch[t])
        k == stored[t] + 1
        end == Len(r.req.results)
    IN  /\ batch[t] # <<>> /\ end # 0
        /\ IF done THEN Written(t, r, r.req.results[k]) ELSE UNCHANGED <<table, source, last>>
        /\ tries' = [tries EXCEPT ![<<r.from, r.no>>][k] = @ + 1]
        /\ stored' = [stored EXCEPT ![t] = IF k = end THEN 0 ELSE k]
        /\ batch' = [batch EXCEPT ![t] = IF k = end THEN Tail(@) ELSE @]
        /\ UNCHANGED <<index, received, pc, i, reportQueues, ub>>

store_nothing(t) ==
    /\ batch[t] # <<>> /\ Len(Head(batch[t]).req.results) = 0
    /\ batch' = [batch EXCEPT ![t] = Tail(@)]
    /\ UNCHANGED <<index, received, pc, i, reportQueues, stored, written, ub>>

-----------------------------------------------------------------------------

Init ==
    /\ index = 0
    /\ received = [a \in Agent |-> 0]
    /\ pc = [a \in Agent |-> "epoll"] /\ i = [a \in Agent |-> 0]
    /\ reportQueues = [t \in Thread |-> <<>>]
    /\ batch = [t \in Thread |-> <<>>] /\ stored = [t \in Thread |-> 0]
    /\ table = [key \in {} |-> 0] /\ source = [key \in {} |-> 0] /\ last = [r \in {} |-> 0]
    /\ tries = [r \in Report |-> [k \in 1 .. Len(Results(Lb[r])) |-> 0]]
    /\ ub = FALSE

Receive(a) == \/ get_report_status(a) \/ send(a) \/ send_nowhere(a)
              \/ read_index(a) \/ count_index(a) \/ wrap_index(a)
Save(t) == thread_report(t) \/ store_nothing(t) \/ \E done \in BOOLEAN : store(t, done)

Next == ~ub /\ ((\E a \in Agent : Receive(a)) \/ (\E t \in Thread : Save(t)))

Spec == Init /\ [][Next]_vars

-----------------------------------------------------------------------------
(* Properties                                                              *)

\* Every row holds, for the host its key names, exactly the counts and the time
\* of the report it was written from and the list the host was in, whatever the
\* numbers (an address above 127.255.255.255, a count of 0, a flag not set) and
\* whoever else writes it; rows do not mix reports (load_balance.cpp:334-372,
\* store_report.cpp:27-44).
RowSays(key, columns, lb, h, overload) ==
    /\ key = <<lb.modid, lb.cmdid, Unsigned(h.ip), Unsigned(h.port), Unsigned(127)>>
    /\ columns = [succ_cnt |-> h.rsucc, err_cnt |-> h.rerr, ts |-> lb.ts, overload |-> overload]
Said(key, columns, lb) ==
    \/ \E k \in DOMAIN lb.idle_list : RowSays(key, columns, lb, lb.idle_list[k], 0)
    \/ \E k \in DOMAIN lb.overload_list : RowSays(key, columns, lb, lb.overload_list[k], 1)
RowHoldsReport ==
    /\ DOMAIN table = DOMAIN source
    /\ \A key \in DOMAIN table : Said(key, table[key], Lb[source[key]])

\* What an agent last said about a host goes back to an older report only when
\* another thread than the one that wrote it writes (store_report.cpp:38-44):
\* what one thread stores, it stores in the order of arrival.
BackOnlyAcrossThreads ==
    [][\A r \in DOMAIN last : last'[r].no < last[r].no => last'[r].by # last[r].by]_vars

\* A report is in the hands of one thread at a time, being handed over, in
\* one queue or in one batch, until a statement has been made for each of its
\* hosts; none is lost or stored twice.  The unlocked index names a queue that
\* exists, however the threads interleave, except while one of them has counted
\* and not wrapped: then another can read it and send the report to no queue
\* (reporter_service.cpp:19-22, thread_queue.h:33-70, store_thread.cpp:21-32).
IndexNamesQueue == index \in Thread \/ \E b \in Agent : pc[b] \in {"counted", "wrap"}
Line == [t \in Thread |-> batch[t] \o reportQueues[t]]
HandedOver(a, n) == received[a] = n /\ pc[a] = "send"
Waits(a, n, t, k) == Line[t][k].from = a /\ Line[t][k].no = n
Places(a, n) ==
    {p \in {a} \X {0} : HandedOver(a, n)}
    \cup UNION {{p \in {t} \X DOMAIN Line[t] : Waits(a, n, t, p[2])} : t \in Thread}
StoredOnce ==
    /\ IndexNamesQueue
    /\ \A a \in Agent : \A n \in 1 .. received[a] :
        /\ \A k \in DOMAIN tries[<<a, n>>] : tries[<<a, n>>][k] <= 1
        /\ \A p, q \in Places(a, n) : p = q
        /\ Places(a, n) = {} => \A k \in DOMAIN tries[<<a, n>>] : tries[<<a, n>>][k] = 1
        /\ Places(a, n) # {} /\ tries[<<a, n>>] # <<>> =>
               \E k \in DOMAIN tries[<<a, n>>] : tries[<<a, n>>][k] = 0
=============================================================================
