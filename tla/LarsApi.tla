------------------------------ MODULE LarsApi ------------------------------
(***************************************************************************)
(* The API of lars (lars_api.cpp) and the three UDP servers of the agent   *)
(* it talks to (udp_server.cpp, agent_udp_server.cpp).                     *)
(*                                                                         *)
(* A client calls one function at a time and blocks in recvfrom.  A        *)
(* datagram may be lost (a full socket buffer), sendto and recvfrom may    *)
(* fail (a signal, a refused port), and then the answer of an old call is  *)
(* still to come.  A datagram is its head and the bytes of its message as  *)
(* LarsProto encodes it.  What it carries besides, note, is history: the   *)
(* number of the call and what its sender meant.                           *)
(*                                                                         *)
(* The host chosen for an answer is any: choosing is LoadBalance.          *)
(***************************************************************************)
EXTENDS LarsProto

CONSTANTS
    Client,         \* lars_client objects
    Modid, Cmdid,   \* modules asked for
    Host,           \* hosts a module can have, as the agent holds them: numbers of the database
    Route,          \* lists of hosts it can have
    SocketLimit,    \* bound: datagrams a socket holds; more are lost
    MaxCalls        \* bound: calls of one client

ASSUME ApiAssumption ==
    /\ Modid \subseteq UINT31 /\ Cmdid \subseteq UINT31
    /\ \A modid \in Modid, cmdid \in Cmdid : modid + cmdid \in UINT31
    /\ Host \subseteq HostInfos /\ Route \subseteq Seq(Host)
    /\ SocketLimit \in Nat \ {0} /\ MaxCalls \in UINT31

VARIABLES
    calls,          \* history: calls made
    _seqid,
    step,           \* "idle", or "recv" inside a function that waits
    req,            \* the function, the module and the number of the last call
    rsp,            \* get_host: the response object, used for every datagram
    retry_cnt,      \* reg_init: attempts made; NoReg outside reg_init
    server,         \* the datagrams at each server's socket
    socket,         \* the datagrams at each client's socket for a server
    got,            \* what the last call returned, <<>> for a failure, and the answer it took
    lost            \* history: the request or the answer of the last call was lost

apiVars == <<calls, _seqid, step, req, rsp, retry_cnt, server, socket, got, lost>>

NoReg == -1
Max_retry == 3
MESSAGE_HEAD_LEN == 8
MESSAGE_LENGTH_LIMIT == 65535 - MESSAGE_HEAD_LEN
Mod == Modid \X Cmdid
Udp == 0 .. 2
Index(m) == (m[1] + m[2]) % 3

-----------------------------------------------------------------------------
(* Addresses: the octets of an in_addr as inet_ntoa prints them, on a      *)
(* little-endian machine the lowest byte of the int first.                 *)

inet_ntoa(n) ==
    <<n % 256, (n \div 256) % 256, (n \div 65536) % 256, (n \div 16777216) % 256>>
inet_aton(o) == o[1] + 256 * o[2] + 65536 * o[3] + 16777216 * (((o[4] + 128) % 256) - 128)
Swapped(o) == <<o[4], o[3], o[2], o[1]>>
ntohl(n) == inet_aton(Swapped(inet_ntoa(n)))

\* The address a number of the database stands for, its highest byte first.
InetNtoA(n) ==
    <<(n \div 16777216) % 256, (n \div 65536) % 256, (n \div 256) % 256, n % 256>>

-----------------------------------------------------------------------------
(* lars_client: sending                                                    *)

Datagram(T, id, msg, note) ==
    [msgid |-> id, msglen |-> ByteSizeLong(T, msg), body |-> ToArray(T, msg), note |-> note]

\* The datagram arrives, or is lost.
sendto(c, m, d) ==
    \/ /\ Len(server[Index(m)]) < SocketLimit
       /\ server' = [server EXCEPT ![Index(m)] = Append(@, d)]
       /\ lost' = [lost EXCEPT ![c] = FALSE]
    \/ /\ server' = server
       /\ lost' = [lost EXCEPT ![c] = TRUE]

Call(c, f, m, T, id, msg) ==
    /\ calls[c] < MaxCalls
    /\ calls' = [calls EXCEPT ![c] = @ + 1]
    /\ req' = [req EXCEPT ![c] = [f |-> f, mod |-> m, seq |-> _seqid[c]]]
    /\ step' = [step EXCEPT ![c] = "recv"]
    /\ got' = [got EXCEPT ![c] = <<>>]
    /\ sendto(c, m, Datagram(T, id, msg, [from |-> c, call |-> calls[c] + 1]))
    /\ UNCHANGED <<rsp, socket>>

\* Mutant: the number is not counted up.
get_host_SameSeq(c, m) ==
    /\ step[c] = "idle" /\ retry_cnt[c] = NoReg
    /\ Call(c, "get_host", m, GetHostRequest, ID_GetHostRequest,
            [seq |-> _seqid[c], modid |-> m[1], cmdid |-> m[2]])
    /\ UNCHANGED <<retry_cnt, _seqid>>

get_host(c, m) ==
    /\ step[c] = "idle" /\ retry_cnt[c] = NoReg
    /\ Call(c, "get_host", m, GetHostRequest, ID_GetHostRequest,
            [seq |-> _seqid[c], modid |-> m[1], cmdid |-> m[2]])
    /\ _seqid' = [_seqid EXCEPT ![c] = @ + 1]
    /\ UNCHANGED retry_cnt

CallRoute(c, m) ==
    Call(c, "get_route", m, GetRouteRequest, ID_API_GetRouteRequest,
         [modid |-> m[1], cmdid |-> m[2]])

get_route(c, m) ==
    /\ step[c] = "idle" /\ retry_cnt[c] = NoReg
    /\ CallRoute(c, m)
    /\ UNCHANGED <<retry_cnt, _seqid>>

\* Mutant: the address is put into host order.
ReportOf_HostOrder(m, h, retcode) ==
    [modid |-> m[1], cmdid |-> m[2], retcode |-> retcode,
     host |-> <<[ip |-> ntohl(inet_aton(h.ip)), port |-> h.port]>>]

ReportOf(m, h, retcode) ==
    [modid |-> m[1], cmdid |-> m[2], retcode |-> retcode,
     host |-> <<[ip |-> inet_aton(h.ip), port |-> h.port]>>]

\* report tells how a host of the last answer did, and waits for nothing.
report(c, k, retcode) ==
    LET g == got[c][1]
        m == req[c].mod
        note == [by |-> req[c].f, mod |-> m, host |-> g.said.host[k], retcode |-> retcode]
    IN  /\ step[c] = "idle" /\ retry_cnt[c] = NoReg /\ got[c] # <<>>
        /\ k \in DOMAIN g.route
        /\ Len(server[Index(m)]) < SocketLimit
        /\ server' = [server EXCEPT ![Index(m)] =
               Append(@, Datagram(ReportRequest, ID_ReportRequest,
                                  ReportOf(m, g.route[k], retcode), note))]
        /\ UNCHANGED <<calls, _seqid, step, req, rsp, retry_cnt, socket, got, lost>>

\* The first attempt of reg_init, the next, and its giving up.  Between two
\* attempts it sleeps.
reg_init(c, m) ==
    /\ step[c] = "idle" /\ retry_cnt[c] = NoReg /\ calls[c] + Max_retry <= MaxCalls
    /\ CallRoute(c, m)
    /\ retry_cnt' = [retry_cnt EXCEPT ![c] = 0]
    /\ UNCHANGED _seqid

reg_init_again(c) ==
    /\ step[c] = "idle" /\ retry_cnt[c] \in 1 .. Max_retry - 1
    /\ CallRoute(c, req[c].mod)
    /\ UNCHANGED <<_seqid, retry_cnt>>

reg_init_end(c) ==
    /\ step[c] = "idle" /\ retry_cnt[c] = Max_retry
    /\ retry_cnt' = [retry_cnt EXCEPT ![c] = NoReg]
    /\ UNCHANGED <<calls, _seqid, step, req, rsp, server, socket, got, lost>>

-----------------------------------------------------------------------------
(* lars_client: receiving                                                  *)

\* The call returns ret and, for a success, route, the list of its hosts.
\* Inside reg_init a host ends it.
Return(c, ret, route, d) ==
    /\ step' = [step EXCEPT ![c] = "idle"] /\ rsp' = [rsp EXCEPT ![c] = GetHostResponse_new]
    /\ got' = [got EXCEPT ![c] =
           <<[call |-> d.note.call, said |-> d.note.said, ret |-> ret, route |-> route]>>]
    /\ retry_cnt' = [retry_cnt EXCEPT ![c] =
                        IF @ = NoReg \/ route # <<>> THEN NoReg ELSE @ + 1]

\* It returns RET_SYSTEM_ERROR.
Fail(c) ==
    /\ step' = [step EXCEPT ![c] = "idle"] /\ rsp' = [rsp EXCEPT ![c] = GetHostResponse_new]
    /\ retry_cnt' = [retry_cnt EXCEPT ![c] = IF @ = NoReg THEN NoReg ELSE @ + 1]
    /\ UNCHANGED got

\* recvfrom returns -1, or sendto did.
recv_error(c) ==
    /\ step[c] = "recv"
    /\ Fail(c)
    /\ UNCHANGED <<calls, _seqid, req, server, socket, lost>>

Inbox(c) == socket[c][Index(req[c].mod)]

\* Mutant: the loop goes on with the answer it is for.
Older_OrSame(c, seq) == seq <= req[c].seq

\* get_host reads on while the answer is one of an older call.
Older(c, seq) == seq < req[c].seq

recv_host(c, d) ==
    LET p == ParseFromArray(GetHostResponse, d.body, rsp[c])
        r == p.msg
        hosts == [k \in DOMAIN r.host |-> [ip |-> inet_ntoa(r.host[k].ip), port |-> r.host[k].port]]
    IN  IF d.msgid # ID_GetHostResponse \/ ~p.ok THEN Fail(c)
        ELSE IF Older(c, r.seq)
        THEN rsp' = [rsp EXCEPT ![c] = r] /\ UNCHANGED <<step, got, retry_cnt>>
        ELSE IF r.seq # req[c].seq \/ <<r.modid, r.cmdid>> # req[c].mod THEN Fail(c)
        ELSE Return(c, r.retcode, IF r.retcode = RET_SUCC THEN hosts ELSE <<>>, d)

recv_route(c, d) ==
    LET p == ParseFromArray(GetRouteResponse, d.body, GetRouteResponse_new)
        r == p.msg
        route == [k \in DOMAIN r.host |->
                     [ip |-> inet_ntoa(ntohl(r.host[k].ip)), port |-> r.host[k].port]]
    IN  IF \/ d.msgid # ID_API_GetRouteResponse
           \/ ~p.ok \/ <<r.modid, r.cmdid>> # req[c].mod
        THEN Fail(c)
        ELSE Return(c, RET_SUCC, route, d)

recvfrom(c) ==
    /\ step[c] = "recv" /\ Inbox(c) # <<>>
    /\ socket' = [socket EXCEPT ![c][Index(req[c].mod)] = Tail(@)]

recv(c) ==
    /\ recvfrom(c)
    /\ \/ req[c].f = "get_host" /\ recv_host(c, Head(Inbox(c)))
       \/ req[c].f = "get_route" /\ recv_route(c, Head(Inbox(c)))
    /\ UNCHANGED <<calls, _seqid, req, server, lost>>

-----------------------------------------------------------------------------
(* udp_server::do_read with the callbacks of agent_udp_server.cpp          *)

\* What the route_lb may say of a module: retcode and host, or its hosts.
HostAnswer ==
    {[ret |-> RET_SUCC, host |-> <<h>>] : h \in Host}
    \cup {[ret |-> r, host |-> <<>>] : r \in {RET_OVERLOAD, RET_NOEXIST}}

RouteAnswer == {[ret |-> RET_SUCC, host |-> hosts] : hosts \in Route}

\* To the sender of the datagram just read, _client_addr; it arrives or is lost.
send_message(i, note, T, id, msg, said) ==
    LET c == note.from
        d == Datagram(T, id, msg, [call |-> note.call, said |-> said])
    IN  IF d.msglen > MESSAGE_LENGTH_LIMIT THEN UNCHANGED <<socket, lost>>
        ELSE \/ /\ Len(socket[c][i]) < SocketLimit
                /\ socket' = [socket EXCEPT ![c][i] = Append(@, d)]
                /\ UNCHANGED lost
             \/ /\ lost' = [lost EXCEPT ![c] = @ \/ note.call = calls[c]]
                /\ UNCHANGED socket

get_host_cb(i, d) ==
    \E said \in HostAnswer :
        LET r == ParseFromArray(GetHostRequest, d.body, GetHostRequest_new).msg IN
        send_message(i, d.note, GetHostResponse, ID_GetHostResponse,
                     [seq |-> r.seq, modid |-> r.modid, cmdid |-> r.cmdid,
                      retcode |-> said.ret, host |-> said.host], said)

get_route_cb(i, d) ==
    \E said \in RouteAnswer :
        LET r == ParseFromArray(GetRouteRequest, d.body, GetRouteRequest_new).msg
            hosts == [k \in DOMAIN said.host |-> CopyFrom(HostInfo, HostInfo_new, said.host[k])]
        IN  send_message(i, d.note, GetRouteResponse, ID_API_GetRouteResponse,
                         [modid |-> r.modid, cmdid |-> r.cmdid, host |-> hosts], said)

\* The head must fit the datagram and the id must be registered.
WellFormed(d) ==
    /\ d.msglen \in 0 .. MESSAGE_LENGTH_LIMIT
    /\ d.msglen + MESSAGE_HEAD_LEN = MESSAGE_HEAD_LEN + Len(d.body)

server_recvfrom(i) ==
    /\ server[i] # <<>>
    /\ server' = [server EXCEPT ![i] = Tail(@)]

do_read(i) ==
    LET d == Head(server[i]) IN
    /\ server_recvfrom(i)
    /\ CASE WellFormed(d) /\ d.msgid = ID_GetHostRequest -> get_host_cb(i, d)
         [] WellFormed(d) /\ d.msgid = ID_API_GetRouteRequest -> get_route_cb(i, d)
         [] OTHER -> UNCHANGED <<socket, lost>>     \* report_cb: LoadBalance
    /\ UNCHANGED <<calls, _seqid, step, req, rsp, retry_cnt, got>>

-----------------------------------------------------------------------------

ApiInit ==
    /\ calls = [c \in Client |-> 0] /\ _seqid = [c \in Client |-> 0]
    /\ step = [c \in Client |-> "idle"]
    /\ req = [c \in Client |-> [f |-> "none", mod |-> <<0, 0>>, seq |-> 0]]
    /\ rsp = [c \in Client |-> GetHostResponse_new]
    /\ retry_cnt = [c \in Client |-> NoReg] /\ got = [c \in Client |-> <<>>]
    /\ server = [i \in Udp |-> <<>>] /\ socket = [c \in Client |-> [i \in Udp |-> <<>>]]
    /\ lost = [c \in Client |-> FALSE]

ApiNext ==
    \/ \E c \in Client :
           \/ \E m \in Mod : get_host(c, m) \/ get_route(c, m) \/ reg_init(c, m)
           \/ \E j \in DOMAIN got[c], retcode \in {RET_SUCC, RET_SYSTEM_ERROR} :
                  \E k \in DOMAIN got[c][j].route : report(c, k, retcode)
           \/ reg_init_again(c) \/ reg_init_end(c) \/ recv(c) \/ recv_error(c)
    \/ \E i \in Udp : do_read(i)

ApiSpec == ApiInit /\ [][ApiNext]_apiVars

\* Each thread of the agent handles what is at its socket, and a client that
\* has a datagram to read reads it: only do_read and recv take datagrams from
\* a socket, and they can whenever there is one.
ApiFairSpec ==
    /\ ApiSpec
    /\ \A i \in Udp : WF_server(server_recvfrom(i))
    /\ \A c \in Client : WF_socket(recvfrom(c))

-----------------------------------------------------------------------------
(* Properties                                                              *)

\* What get_host returns is the answer to the request it has just sent, and
\* not a late one to an older request, whatever failed before
\* (lars_api.cpp:93-123).
HostAnswersAreOwn ==
    \A c \in Client : got[c] # <<>> /\ req[c].f = "get_host" => got[c][1].call = calls[c]

\* A call returns what the agent said in the answer it takes: the return code
\* and every host, through encoding and decoding, with nothing left over from
\* answers read before it in the same call.  get_route gives the address that
\* the number in the database stands for.  get_host does not: it takes the
\* number for one in network order and gives the octets reversed, where
\* lars_api.h:19 promises the ip of a usable host
\* (lars_api.cpp:111-136,226-254, utils.go:9-12).
ReturnsWhatWasSaid ==
    \A c \in Client : \A k \in DOMAIN got[c] :
        LET g == got[c][k]
            order(o) == IF req[c].f = "get_host" THEN Swapped(o) ELSE o
        IN  /\ g.ret = g.said.ret
            /\ g.route = [n \in DOMAIN g.said.host |->
                             [ip |-> order(InetNtoA(g.said.host[n].ip)),
                              port |-> g.said.host[n].port]]

\* A report about a host that get_host returned names, when the agent reads
\* it, the very number and port the agent holds, on the server that holds the
\* module, with the caller's return code: report undoes the reversal of
\* get_host.  For the right address, which get_route returns, it therefore
\* names the reversed number, a host the agent does not hold
\* (lars_api.cpp:140-170, route_lb.cpp:100-119).
ReportNamesHost ==
    \A i \in Udp : \A k \in DOMAIN server[i] :
        LET d == server[i][k]
            r == ParseFromArray(ReportRequest, d.body, ReportRequest_new).msg
            n == d.note
        IN  d.msgid = ID_ReportRequest =>
                /\ WellFormed(d) /\ i = Index(<<r.modid, r.cmdid>>)
                /\ <<r.modid, r.cmdid>> = n.mod /\ r.retcode = n.retcode
                /\ r.host = <<IF n.by = "get_host" THEN n.host
                             ELSE [n.host EXCEPT !.ip = ntohl(@)]>>

\* A call whose request and whose answer are not lost returns: get_host does
\* not read past its own answer (lars_api.cpp:93-117).
CallsReturn ==
    \A c \in Client : \A k \in 1 .. MaxCalls :
        calls[c] = k /\ step[c] # "idle" ~>
            calls[c] = k /\ (step[c] = "idle" \/ lost[c])
=============================================================================
