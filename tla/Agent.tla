------------------------------- MODULE Agent -------------------------------
(***************************************************************************)
(* The start of lb_agent and its two clients: the main thread              *)
(* (main_server.cpp), the UDP servers' threads (agent_udp_server.cpp), the *)
(* client for lars_dns (dns_client.cpp) or the one for lars_reporter       *)
(* (report_client.cpp) over TcpClient, the thread_queue between them, and  *)
(* the part of route_lb and load_balance that asks for routes.             *)
(*                                                                         *)
(* A behaviour has both queues and one of the two clients, named by role.  *)
(* What a load_balance does with its hosts is in LoadBalance.tla; here a   *)
(* module is known or not, PULLING or NEW, and has hosts or none.  Of the  *)
(* configuration only the port the client connects to is looked at.        *)
(***************************************************************************)
EXTENDS TcpClient, ConfigFile, Functions

CONSTANTS
    Mod,            \* modid/cmdid pairs
    PortValue,      \* values a file may give a port
    MaxLines,       \* bound: lines of the configuration file
    InboxLimit,     \* bound: answers and pushes on their way
    MaxMsgs         \* bound: requests or reports put into the queue

ASSUME AgentAssumption ==
    PortValue \subseteq Nat /\ MaxLines \in Nat /\ InboxLimit \in Nat /\ MaxMsgs \in Nat

VARIABLES
    role,           \* the client that is looked at: "dns" or "report"
    file,           \* the lines of lb_agent.ini, until it is read
    port,           \* what the client connects to, until it has
    main,           \* how far main has come in StartOrder
    lb,             \* route_lb::_route_lb_map
    queue,          \* the thread_queue of that client
    asked,          \* modules lars_dns has subscribed the agent to
    sends,          \* history: messages put into the queue
    ub              \* the null pointer that was used, or "none"

setup == <<file, port>>
agent == <<role, setup, main, lb, queue, asked, sends, ub>>
vars == <<client, agent>>

NoPort == 2^16
Absent == [status |-> "absent", hosts |-> FALSE]

-----------------------------------------------------------------------------
(* The main thread                                                         *)

\* Mutant: the report queue is made last.
StartOrder_ReportLast == <<"init_lb_agent", "start_UDP_server", "dns_queue", "start_dns_client",
                           "report_queue", "start_report_client">>

\* The statements of main.
StartOrder == <<"init_lb_agent", "start_UDP_server", "report_queue",
                "start_report_client", "dns_queue", "start_dns_client">>
Done(s) == \E i \in 1 .. main : StartOrder[i] = s
Runs(s) == ub = "none" /\ Done(s)
ClientRuns == Runs(IF role = "dns" THEN "start_dns_client" ELSE "start_report_client")

client_section == IF role = "dns" THEN "dns" ELSE "reporter"
default_port == IF role = "dns" THEN 7778 ELSE 7779

\* The client looks its port up when it starts, in a map that nobody changes
\* after this.
init_lb_agent ==
    LET c == Load(file)
    IN  /\ ub = "none" /\ main = 0
        /\ main' = 1
        /\ file' = <<>>
        /\ IF c.ub THEN ub' = "section" /\ UNCHANGED port
           ELSE /\ port' = Port(GetNumber(c.map, client_section, "port", default_port))
                /\ UNCHANGED ub
        /\ UNCHANGED <<client, role, lb, queue, asked, sends>>

main_step ==
    /\ ub = "none" /\ main \in 1 .. Len(StartOrder) - 1
    /\ main' = main + 1
    /\ UNCHANGED <<client, role, setup, lb, queue, asked, sends, ub>>

-----------------------------------------------------------------------------
(* The threads of the UDP servers, under the mutex of the route_lb         *)

\* thread_queue::send, through a pointer that main may not have set yet.
send(q, r, m) ==
    \/ /\ ~Done(q) /\ ub' = q /\ UNCHANGED <<queue, sends>>
    \/ /\ Done(q) /\ role = r /\ sends < MaxMsgs
       /\ queue' = Append(queue, m) /\ sends' = sends + 1 /\ UNCHANGED ub
    \/ /\ Done(q) /\ role # r /\ UNCHANGED <<queue, sends, ub>>

pull(m, hosts) ==
    /\ send("dns_queue", "dns", m)
    /\ lb' = [lb EXCEPT ![m] = [status |-> "PULLING", hosts |-> hosts]]
    /\ UNCHANGED <<client, role, setup, main, asked>>

\* get_host or get_route for a module that is not known.
get_new(m) ==
    /\ Runs("start_UDP_server") /\ lb[m] = Absent
    /\ pull(m, FALSE)

\* The last update is update_timeout old.  get_host leaves a module without
\* hosts alone, get_route does not.
refresh(m) ==
    /\ Runs("start_UDP_server") /\ lb[m].status = "NEW"
    /\ pull(m, lb[m].hosts)

\* report_cb and the commit it ends in, which returns at once if there are no
\* hosts.
report_host(m) ==
    /\ Runs("start_UDP_server") /\ lb[m].hosts
    /\ send("report_queue", "report", m)
    /\ UNCHANGED <<client, role, setup, main, lb, asked>>

-----------------------------------------------------------------------------
(* The thread of the client                                                *)

Thread(action) == ClientRuns /\ action /\ UNCHANGED agent

connect ==
    /\ ClientRuns
    /\ do_connect_done \/ do_connect
    /\ port' = NoPort
    /\ UNCHANGED <<role, file, main, lb, queue, asked, sends, ub>>

\* Mutant: one message of those received is sent.
forward_One ==
    /\ ClientRuns /\ started /\ queue # <<>>
    /\ send_messages(<<Head(queue)>>)
    /\ queue' = <<>>
    /\ UNCHANGED <<role, setup, main, lb, asked, sends, ub>>

\* recv, and a send_message for every message.  The eventfd is readable while
\* the queue holds one (ThreadPool).
forward ==
    /\ ClientRuns /\ started /\ queue # <<>>
    /\ send_messages(queue)
    /\ queue' = <<>>
    /\ UNCHANGED <<role, setup, main, lb, asked, sends, ub>>

new_dns_request == role = "dns" /\ forward
new_report_request == role = "report" /\ forward
new_request == new_dns_request \/ new_report_request

\* conn_init: reset_lb_status of every route_lb.
conn_init == [m \in Mod |-> IF lb[m] = Absent THEN Absent ELSE [lb[m] EXCEPT !.status = "NEW"]]

\* Only the dns client has a hook.
connected ==
    /\ ClientRuns
    /\ connection_succ(role = "dns")
    /\ lb' = IF role = "dns" THEN conn_init ELSE lb
    /\ UNCHANGED <<role, setup, main, queue, asked, sends, ub>>

\* update_host: an answer without hosts removes the module.
update_host(m, hosts) ==
    IF lb[m] = Absent THEN lb
    ELSE [lb EXCEPT ![m] = IF hosts THEN [status |-> "NEW", hosts |-> TRUE] ELSE Absent]

deal_recv_route ==
    /\ ClientRuns
    /\ do_read
    /\ lb' = update_host(Head(inbox).mod, Head(inbox).hosts)
    /\ UNCHANGED <<role, setup, main, queue, asked, sends, ub>>

-----------------------------------------------------------------------------
(* lars_dns and lars_reporter                                              *)

\* get_route of dns_service.cpp: the module is subscribed to and answered.
dns_answer(hosts) ==
    /\ role = "dns" /\ peer = "connected" /\ outbox # <<>> /\ Len(inbox) < InboxLimit
    /\ inbox' = Append(inbox, [mod |-> Head(outbox), hosts |-> hosts])
    /\ outbox' = Tail(outbox)
    /\ asked' = asked \cup {Head(outbox)}
    /\ UNCHANGED <<started, peer, event, obuf, past, role, setup, main, lb, queue, sends, ub>>

\* A change of a module that was asked for is pushed.
dns_push(m, hosts) ==
    /\ role = "dns" /\ peer = "connected" /\ m \in asked /\ Len(inbox) < InboxLimit
    /\ inbox' = Append(inbox, [mod |-> m, hosts |-> hosts])
    /\ UNCHANGED <<started, peer, outbox, event, obuf, past, agent>>

reporter_reads ==
    /\ role = "report" /\ peer = "connected" /\ outbox # <<>>
    /\ outbox' = Tail(outbox)
    /\ UNCHANGED <<started, peer, inbox, event, obuf, past, agent>>

\* The other client brings hosts, or takes a module away.
other_client(m, hosts) ==
    /\ role = "report" /\ Runs("start_dns_client")
    /\ lb' = update_host(m, hosts)
    /\ UNCHANGED <<client, role, setup, main, queue, asked, sends, ub>>

-----------------------------------------------------------------------------

Line == {SectionLine(x) : x \in {"dns", "reporter"}} \cup {OtherLine}
        \cup {PairLine("port", v) : v \in {<<n>> : n \in PortValue} \cup {NaN}}
Files == UNION {[1 .. n -> Line] : n \in 0 .. MaxLines}

Init ==
    /\ ClientInit
    /\ role \in {"dns", "report"} /\ main = 0
    /\ file \in Files /\ port = NoPort
    /\ lb = [m \in Mod |-> Absent] /\ queue = <<>> /\ asked = {} /\ sends = 0
    /\ ub = "none"

\* What the loop does for the socket, apart from writing.
Socket == \/ Thread(connection_fail) \/ Thread(do_write_error) \/ Thread(do_read_end)
          \/ connected \/ deal_recv_route
Write == \E n \in 1 .. MaxMsgs : Thread(do_write(n))
Peer == reporter_reads \/ \E hosts \in BOOLEAN : dns_answer(hosts)

Next ==
    \/ init_lb_agent \/ main_step \/ connect \/ Thread(start) \/ new_request \/ Socket \/ Write \/ Peer
    \/ (Answer \/ Reset) /\ UNCHANGED agent
    \/ \E m \in Mod :
        \/ get_new(m) \/ refresh(m) \/ report_host(m)
        \/ \E hosts \in BOOLEAN : dns_push(m, hosts) \/ other_client(m, hosts)

Spec == Init /\ [][Next]_vars

\* The threads run, the server answers or refuses a connection and reads what
\* it is sent, and a socket that stays writable takes bytes.
FairSpec ==
    /\ Spec
    /\ WF_vars(init_lb_agent \/ main_step) /\ WF_vars(connect) /\ WF_vars(Thread(start))
    /\ WF_vars(new_request) /\ WF_vars(Socket) /\ WF_vars(Write)
    /\ WF_vars(Answer /\ UNCHANGED agent) /\ WF_vars(Peer)

-----------------------------------------------------------------------------
(* Properties                                                              *)

\* An established connection comes to be read from and the modules come to be
\* reset by the hook, unless a message was sent before connection_succ was
\* called; a connection made inside the constructor is read without the hook
\* (tcp_client.cpp:204-236, dns_client.cpp:42-50).
Served == "EPOLLIN" \in in_epoll /\ (hook \/ early \/ role = "report")
ConnectedIsServed ==
    (peer = "connected" /\ ub = "none") ~>
        (Served \/ overwritten \/ peer # "connected" \/ ub # "none")

\* The route of a module is being asked for, or was never received.
Waiting(m) == lb[m] # Absent /\ (lb[m].status = "PULLING" \/ ~lb[m].hosts)
OnItsWay(m) == \/ m \in Range(queue) \cup Range(obuf) \cup Range(outbox)
               \/ \E i \in 1 .. Len(inbox) : inbox[i].mod = m
Broken == ub # "none" \/ peer \in {"refused", "reset", "closed"}

\* Nothing pulls a PULLING module again, and get_host never pulls one without
\* hosts, so such a module depends on a request or an answer that is on its
\* way; only the loss of the connection loses it (load_balance.cpp:5-20,
\* route_lb.cpp:56-72, dns_client.cpp:3-50).
PullOnItsWay ==
    role = "dns" => \A m \in Mod : Waiting(m) => OnItsWay(m) \/ Broken

\* Unless the peer never stops sending, so that event_process never gets past
\* EPOLLIN, what was put into the queue is written while the connection lasts,
\* and no module waits for its route for ever, but for a lost connection, which
\* is not made again, and for a request sent before the connection was up, so
\* that answers are never read (event_loop.cpp:36-47, thread_queue.h:33-70,
\* tcp_client.cpp:82-86, 183-201).
Pending == (queue # <<>> \/ obuf # <<>>) /\ peer = "connected" /\ ub = "none"
SentAndAnswered ==
    \/ []<>ReadFirst
    \/ /\ Pending ~> ~Pending
       /\ role = "dns" =>
              \A m \in Mod : Waiting(m) ~> (~Waiting(m) \/ Broken \/ overwritten)

\* The UDP servers run before the queues exist, and only dns_queue is ever
\* used too early: a module that has hosts to report came through dns_queue,
\* which is made after report_queue (main_server.cpp:42-67).
OnlyDnsQueueTooEarly == ub # "report_queue"

\* The agent connects where its configuration says: the last line about a
\* port in a section of the client's name counts, wherever the section was
\* begun or taken up again, and the default counts if there is none
\* (config_file.cpp:50-152, dns_client.cpp:60-64, report_client.cpp:34-38).
PortIsConfigured ==
    [][init_lb_agent /\ ub' = "none" =>
        port' = Port(Says(file, client_section, "port", default_port))]_vars
=============================================================================
