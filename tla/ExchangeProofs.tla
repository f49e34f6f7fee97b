--------------------------- MODULE ExchangeProofs ---------------------------
(***************************************************************************)
(* Proofs about the programs that exchange messages: the api and the udp   *)
(* servers of the agent (LarsApi), and the agents and the reporter         *)
(* (Reporter).  All of them start from Faithful, what Encoding says of the *)
(* messages; LarsProofs puts them together with the proof of it.           *)
(***************************************************************************)
EXTENDS LarsApi, Reporter, Encoding, TLAPS

-----------------------------------------------------------------------------
(* Addresses                                                               *)

\* inet_aton takes back what inet_ntoa printed.
LEMMA PrintedIsRead == ASSUME NEW n \in INT32 PROVE inet_aton(inet_ntoa(n)) = n
BY DEF INT32, inet_aton, inet_ntoa

Octet == {n \in Nat : n < 256}
Signed == {n \in Int : -128 <= n /\ n < 128}

\* A number by its lowest octets and the rest.
LEMMA LowOctet == ASSUME NEW q \in Int, NEW a \in Octet PROVE (a + 256 * q) % 256 = a
BY DEF Octet, Signed

\* What stands above the lowest byte of an address (inet_ntoa).
LEMMA Above1 == ASSUME NEW q \in Int, NEW a \in Octet PROVE (a + 256 * q) \div 256 = q
BY DEF Octet, Signed

\* What stands above its lowest two bytes.
LEMMA Above2 ==
    ASSUME NEW q \in Int, NEW a \in Int, 0 <= a, a < 65536 PROVE (a + 65536 * q) \div 65536 = q
BY DEF Octet, Signed

\* What stands above its lowest three bytes.
LEMMA Above3 ==
    ASSUME NEW q \in Int, NEW a \in Int, 0 <= a, a < 16777216
    PROVE  (a + 16777216 * q) \div 16777216 = q
BY DEF Octet, Signed

\* The highest byte of an in_addr as part of an int, which has a sign.
LEMMA SignedOctet ==
    ASSUME NEW d \in Octet
    PROVE  ((d + 128) % 256) - 128 \in Signed /\ (((d + 128) % 256) - 128) % 256 = d
BY DEF Octet, Signed

\* inet_ntoa prints the octets inet_aton was given.
LEMMA ReadIsPrinted ==
    ASSUME NEW a \in Octet, NEW b \in Octet, NEW c \in Octet, NEW d \in Octet
    PROVE  /\ inet_ntoa(inet_aton(<<a, b, c, d>>)) = <<a, b, c, d>>
           /\ inet_aton(<<a, b, c, d>>) \in INT32
<1> DEFINE e == ((d + 128) % 256) - 128
           q == c + 256 * e
           n == a + 256 * (b + 256 * q)
<1>1. e \in Signed /\ e % 256 = d
  BY SignedOctet, SMT
<1> HIDE DEF e
<1>2. e \in Int /\ q \in Int /\ b + 256 * q \in Int
  BY <1>1, SMT DEF Octet, Signed
<1>3. inet_aton(<<a, b, c, d>>) = n /\ n \in INT32
  BY <1>1, <1>2, SMT DEF inet_aton, e, INT32, Octet, Signed
<1>4. inet_ntoa(n)[1] = a
  BY <1>2, LowOctet, SMT DEF inet_ntoa
<1>5. inet_ntoa(n)[2] = b
  BY <1>2, LowOctet, Above1, SMT DEF inet_ntoa
<1>6. inet_ntoa(n)[3] = c
  <2> DEFINE r == a + 256 * b
  <2>1. n = r + 65536 * q /\ 0 <= r /\ r < 65536 /\ r \in Int
    BY <1>2, SMT DEF Octet
  <2>3. q % 256 = c
    BY <1>2, LowOctet, SMT
  <2> HIDE DEF r, q
  <2>2. n \div 65536 = q
    BY <1>2, <2>1, SMT
  <2> QED
    BY <2>2, <2>3, SMT DEF inet_ntoa
<1>7. inet_ntoa(n)[4] = d
  <2> DEFINE r == a + 256 * b + 65536 * c
  <2>1. n = r + 16777216 * e /\ 0 <= r /\ r < 16777216 /\ r \in Int
    BY <1>2, SMT DEF Octet
  <2> HIDE DEF r
  <2>2. n \div 16777216 = e
    BY <1>2, <2>1, SMT
  <2> QED
    BY <1>1, <2>2, SMT DEF inet_ntoa
<1>8. inet_ntoa(n) = <<inet_ntoa(n)[1], inet_ntoa(n)[2], inet_ntoa(n)[3], inet_ntoa(n)[4]>>
  BY SMT DEF inet_ntoa
<1> HIDE DEF n
<1> QED
  BY <1>3, <1>4, <1>5, <1>6, <1>7, <1>8, Zenon

\* What ntohl does to an address is to turn its octets round.
LEMMA TurnedRound ==
    ASSUME NEW n \in INT32
    PROVE  inet_ntoa(ntohl(n)) = Swapped(inet_ntoa(n)) /\ ntohl(n) \in INT32
<1> DEFINE o == inet_ntoa(n)
<1>1. n \in Int
  BY DEF INT32
<1>2. /\ n % 256 \in Octet /\ (n \div 256) % 256 \in Octet
      /\ (n \div 65536) % 256 \in Octet /\ (n \div 16777216) % 256 \in Octet
  BY <1>1 DEF Octet
<1>3. o[1] \in Octet /\ o[2] \in Octet /\ o[3] \in Octet /\ o[4] \in Octet
  BY <1>2 DEF inet_ntoa
<1> HIDE DEF o
<1>4. /\ inet_ntoa(inet_aton(<<o[4], o[3], o[2], o[1]>>)) = <<o[4], o[3], o[2], o[1]>>
      /\ inet_aton(<<o[4], o[3], o[2], o[1]>>) \in INT32
  BY <1>3, ReadIsPrinted, Zenon
<1>5. ntohl(n) = inet_aton(<<o[4], o[3], o[2], o[1]>>) /\ Swapped(inet_ntoa(n)) = <<o[4], o[3], o[2], o[1]>>
  BY Zenon DEF ntohl, Swapped, o
<1> QED
  BY <1>4, <1>5, Zenon

\* CopyFrom into a new HostInfo copies (route_lb::agent_get_route).
LEMMA HostInfoCopied ==
    ASSUME NEW m \in HostInfos PROVE CopyFrom(HostInfo, HostInfo_new, m) = m
<1>1. DOMAIN m = DOMAIN HostInfo_new /\ m = [f \in DOMAIN m |-> m[f]]
  BY DEF HostInfos, HostInfo_new
<1>2. HostInfo.merge = DOMAIN HostInfo_new /\ HostInfo.new = HostInfo_new
  BY DEF HostInfo, HostInfo_merge, HostInfo_new
<1>3. ASSUME NEW f \in DOMAIN HostInfo_new PROVE Clear(HostInfo, HostInfo_new)[f] = HostInfo_new[f]
  BY <1>2, Zenon DEF Clear
<1>4. CopyFrom(HostInfo, HostInfo_new, m) = [f \in DOMAIN HostInfo_new |-> m[f]]
  BY <1>2, <1>3, Zenon DEF CopyFrom
<1> QED
  BY <1>1, <1>4, Zenon

-----------------------------------------------------------------------------
(* The invariant                                                           *)

\* The messages of a call for module m, and the answers to them.
AskHost(s, m) == [seq |-> s, modid |-> m[1], cmdid |-> m[2]]
AskRoute(m) == [modid |-> m[1], cmdid |-> m[2]]
TellHost(s, m, said) ==
    [seq |-> s, modid |-> m[1], cmdid |-> m[2], retcode |-> said.ret, host |-> said.host]
TellRoute(m, said) == [modid |-> m[1], cmdid |-> m[2], host |-> said.host]
TellReport(m, ip, port, retcode) ==
    [modid |-> m[1], cmdid |-> m[2], retcode |-> retcode, host |-> <<[ip |-> ip, port |-> port]>>]

\* The number s has been given out, for call n; the last one is the last call's.
Own(c, s, n) ==
    /\ s \in UINT31 /\ s < _seqid[c]
    /\ req[c].f = "get_host" /\ s = req[c].seq => n = calls[c]

\* What can be at the socket of server i.
IsHostRequest(d) ==
    \E c \in Client, m \in Mod, s \in UINT31, n \in Nat :
        /\ Own(c, s, n)
        /\ d = Datagram(GetHostRequest, ID_GetHostRequest, AskHost(s, m), [from |-> c, call |-> n])
IsRouteRequest(d) ==
    \E c \in Client, m \in Mod, n \in Nat :
        d = Datagram(GetRouteRequest, ID_API_GetRouteRequest, AskRoute(m), [from |-> c, call |-> n])
Ip(by, h) == IF by = "get_host" THEN h.ip ELSE ntohl(h.ip)
Codes == {RET_SUCC, RET_SYSTEM_ERROR}
IsReport(u, d) ==
    \E m \in Mod, h \in HostInfos, by \in {"get_host", "get_route"}, retcode \in Codes :
        /\ u = Index(m)
        /\ d = Datagram(ReportRequest, ID_ReportRequest, TellReport(m, Ip(by, h), h.port, retcode),
                        [by |-> by, mod |-> m, host |-> h, retcode |-> retcode])
AtServer(u, d) == IsHostRequest(d) \/ IsRouteRequest(d) \/ IsReport(u, d)

\* What can be at the socket of client c.
IsHostAnswer(c, d) ==
    \E m \in Mod, s \in UINT31, n \in Nat, said \in HostAnswer :
        /\ Own(c, s, n)
        /\ d = Datagram(GetHostResponse, ID_GetHostResponse, TellHost(s, m, said),
                        [call |-> n, said |-> said])
IsRouteAnswer(d) ==
    \E m \in Mod, n \in Nat, said \in RouteAnswer :
        d = Datagram(GetRouteResponse, ID_API_GetRouteResponse, TellRoute(m, said),
                     [call |-> n, said |-> said])
AtClient(c, d) == IsHostAnswer(c, d) \/ IsRouteAnswer(d)

\* What a call that returned got.
Printed(f, hosts) ==
    [k \in DOMAIN hosts |->
        [ip |-> IF f = "get_host" THEN inet_ntoa(hosts[k].ip) ELSE Swapped(inet_ntoa(hosts[k].ip)),
         port |-> hosts[k].port]]
Got(c, g) ==
    /\ req[c].f \in {"get_host", "get_route"}
    /\ req[c].f = "get_host" => g.call = calls[c]
    /\ g.said.host \in Seq(HostInfos) /\ g.ret = g.said.ret
    /\ g.route = Printed(req[c].f, g.said.host)

Notes ==
    [from : Client, call : Nat]
    \cup [by : {"get_host", "get_route"}, mod : Mod, host : HostInfos, retcode : Codes]
    \cup [call : Nat, said : HostAnswer \cup RouteAnswer]
Datagrams == [msgid : Nat, msglen : Nat, body : Seq(Int), note : Notes]

InCall ==
    /\ calls \in [Client -> UINT31] /\ _seqid \in [Client -> UINT31]
    /\ \A c \in Client : calls[c] <= MaxCalls /\ _seqid[c] <= calls[c]
    /\ step \in [Client -> {"idle", "recv"}]
    /\ req \in [Client -> [f : {"none", "get_host", "get_route"}, mod : Nat \X Nat, seq : UINT31]]
    /\ \A c \in Client : req[c].f # "none" => req[c].mod \in Mod
    /\ \A c \in Client : step[c] = "recv" => req[c].f # "none"
    /\ rsp = [c \in Client |-> rsp[c]]
    /\ \A c \in Client : DOMAIN rsp[c] = DOMAIN GetHostResponse.new
    /\ retry_cnt \in [Client -> Int]
    /\ \A c \in Client : retry_cnt[c] # NoReg => req[c].f = "get_route"
    /\ got = [c \in Client |-> got[c]]
ServerTypes == server \in [Udp -> Seq(Datagrams)]
SocketTypes == socket \in [Client -> [Udp -> Seq(Datagrams)]]

ServerHolds == \A u \in Udp : \A k \in 1 .. Len(server[u]) : AtServer(u, server[u][k])
SocketHolds ==
    \A c \in Client, u \in Udp : \A k \in 1 .. Len(socket[c][u]) : AtClient(c, socket[c][u][k])
GotHolds == \A c \in Client : got[c] = <<>> \/ \E g : got[c] = <<g>> /\ Got(c, g)

ApiInv == InCall /\ ServerTypes /\ SocketTypes /\ ServerHolds /\ SocketHolds /\ GotHolds

-----------------------------------------------------------------------------
(* The messages and the datagrams                                          *)

\* What a module and the answers of the agent are made of.
LEMMA Parts ==
    /\ \A m \in Mod : m = <<m[1], m[2]>> /\ m[1] \in INT32 /\ m[2] \in INT32
    /\ \A m \in Mod : m[1] \in Nat /\ m[2] \in Nat /\ Index(m) \in Udp /\ m \in Nat \X Nat
    /\ \A said \in HostAnswer : said.ret \in INT32 /\ said.host \in MaybeHostInfo
    /\ \A said \in HostAnswer : said.ret # RET_SUCC => said.host = <<>>
    /\ \A said \in RouteAnswer : said.ret = RET_SUCC /\ said.host \in Seq(HostInfos)
    /\ \A said \in HostAnswer : said.host \in Seq(HostInfos)
    /\ \A retcode \in Codes : retcode \in INT32
<1>1. UINT31 \subseteq INT32 /\ UINT31 \subseteq Nat
  BY SMT DEF UINT31, INT32
<1>2. Modid \subseteq UINT31 /\ Cmdid \subseteq UINT31 /\ Host \subseteq HostInfos /\ Route \subseteq Seq(Host)
  BY ApiAssumption, Zenon
<1>3. ASSUME NEW m \in Mod
      PROVE  /\ m = <<m[1], m[2]>> /\ m[1] \in UINT31 /\ m[2] \in UINT31
             /\ m[1] \in Nat /\ m[2] \in Nat /\ m \in Nat \X Nat
  <2>1. m \in Modid \X Cmdid
    BY Zenon DEF Mod
  <2>2. m = <<m[1], m[2]>> /\ m[1] \in Modid /\ m[2] \in Cmdid
    BY <2>1, SMT
  <2>3. m[1] \in UINT31 /\ m[2] \in UINT31 /\ m[1] \in Nat /\ m[2] \in Nat
    BY <1>1, <1>2, <2>2, Zenon
  <2>4. <<m[1], m[2]>> \in Nat \X Nat
    BY <2>3, SMT
  <2> QED
    BY <2>2, <2>3, <2>4, Zenon
<1>4. ASSUME NEW m \in Mod PROVE Index(m) \in Udp
  <2>1. ASSUME NEW n \in Nat PROVE n % 3 \in 0 .. 2
    BY SMT
  <2>2. m[1] + m[2] \in Nat
    BY <1>3, SMT
  <2> QED
    BY <2>1, <2>2, Zenon DEF Index, Udp
<1>5. RET_SUCC \in INT32 /\ RET_OVERLOAD \in INT32 /\ RET_NOEXIST \in INT32 /\ RET_SYSTEM_ERROR \in INT32
  BY SMT DEF RET_SUCC, RET_OVERLOAD, RET_NOEXIST, RET_SYSTEM_ERROR, INT32
<1>6. ASSUME NEW said \in HostAnswer
      PROVE  /\ said.ret \in INT32 /\ said.host \in MaybeHostInfo /\ said.host \in Seq(HostInfos)
             /\ said.ret # RET_SUCC => said.host = <<>>
  <2>1. CASE said \in {[ret |-> RET_SUCC, host |-> <<h>>] : h \in Host}
    <3>1. PICK h \in Host : said = [ret |-> RET_SUCC, host |-> <<h>>]
      BY <2>1, Zenon
    <3>2. said.ret = RET_SUCC /\ said.host = <<h>>
      BY <3>1, Zenon
    <3>3. h \in HostInfos
      BY <1>2, Zenon
    <3>4. <<h>> \in Seq(HostInfos)
      BY <3>3, SMT
    <3> QED
      BY <1>5, <3>2, <3>3, <3>4, Zenon DEF MaybeHostInfo
  <2>2. CASE said \in {[ret |-> r, host |-> <<>>] : r \in {RET_OVERLOAD, RET_NOEXIST}}
    <3>1. PICK r \in {RET_OVERLOAD, RET_NOEXIST} : said = [ret |-> r, host |-> <<>>]
      BY <2>2, Zenon
    <3>2. said.ret = r /\ said.host = <<>> /\ r \in INT32
      BY <1>5, <3>1, Zenon
    <3>3. <<>> \in Seq(HostInfos)
      BY SMT
    <3> QED
      BY <3>2, <3>3, Zenon DEF MaybeHostInfo
  <2> QED
    BY <2>1, <2>2, Zenon DEF HostAnswer
<1>7. ASSUME NEW said \in RouteAnswer PROVE said.ret = RET_SUCC /\ said.host \in Seq(HostInfos)
  <2>1. PICK hosts \in Route : said = [ret |-> RET_SUCC, host |-> hosts]
    BY Zenon DEF RouteAnswer
  <2>2. said.ret = RET_SUCC /\ said.host = hosts
    BY <2>1, Zenon
  <2>3. hosts \in Seq(Host)
    BY <1>2, Zenon
  <2>4. hosts \in Seq(HostInfos)
    BY <1>2, <2>3, SMT
  <2> QED
    BY <2>2, <2>4, Zenon
<1> QED
  BY <1>1, <1>3, <1>4, <1>5, <1>6, <1>7, Zenon DEF Codes

\* The messages are ones that survive.
LEMMA MessagesAre ==
    ASSUME NEW m \in Mod
    PROVE  /\ AskRoute(m) \in GetRouteRequests
           /\ \A s \in UINT31 : AskHost(s, m) \in GetHostRequests
           /\ \A s \in UINT31, said \in HostAnswer : TellHost(s, m, said) \in GetHostResponses
           /\ \A said \in RouteAnswer : TellRoute(m, said) \in GetRouteResponses
           /\ \A ip \in INT32, port \in INT32, retcode \in Codes :
                 TellReport(m, ip, port, retcode) \in ReportRequests
<1>1. m[1] \in INT32 /\ m[2] \in INT32
  BY Parts, Zenon
<1>2. AskRoute(m) \in GetRouteRequests
  BY <1>1, SMT DEF AskRoute, GetRouteRequests
<1>3. ASSUME NEW s \in UINT31 PROVE AskHost(s, m) \in GetHostRequests
  BY <1>1, SMT DEF AskHost, GetHostRequests
<1>4. ASSUME NEW s \in UINT31, NEW said \in HostAnswer PROVE TellHost(s, m, said) \in GetHostResponses
  <2>1. said.ret \in INT32 /\ said.host \in MaybeHostInfo
    BY Parts, Zenon
  <2> QED
    BY <1>1, <2>1, SMT DEF TellHost, GetHostResponses
<1>5. ASSUME NEW said \in RouteAnswer PROVE TellRoute(m, said) \in GetRouteResponses
  <2>1. said.host \in Seq(HostInfos)
    BY Parts, Zenon
  <2> QED
    BY <1>1, <2>1, SMT DEF TellRoute, GetRouteResponses
<1>6. ASSUME NEW ip \in INT32, NEW port \in INT32, NEW retcode \in Codes
      PROVE  TellReport(m, ip, port, retcode) \in ReportRequests
  <2> DEFINE h == [ip |-> ip, port |-> port]
  <2>1. h \in HostInfos
    BY SMT DEF HostInfos
  <2>2. TellReport(m, ip, port, retcode) = [modid |-> m[1], cmdid |-> m[2], retcode |-> retcode, host |-> <<h>>]
    BY Zenon DEF TellReport
  <2> HIDE DEF h
  <2>3. <<h>> \in MaybeHostInfo /\ retcode \in INT32
    BY <2>1, Parts, Zenon DEF MaybeHostInfo
  <2> QED
    BY <1>1, <2>2, <2>3, SMT DEF ReportRequests
<1> QED
  BY <1>2, <1>3, <1>4, <1>5, <1>6, Zenon

\* What a datagram of a message that survives is.
Carries(d, T, id, msg, note) ==
    /\ d \in Datagrams /\ d.msgid = id /\ d.note = note
    /\ d.msglen = Len(d.body)
    /\ \A old : DOMAIN old = DOMAIN T.new =>
          ParseFromArray(T, d.body, old).ok = TRUE /\ ParseFromArray(T, d.body, old).msg = msg

\* A datagram made from a message that survives carries it.
LEMMA Carrying ==
    ASSUME NEW T, NEW msg, Survives(T, msg), NEW id \in Nat, NEW note \in Notes,
           NEW d, d = Datagram(T, id, msg, note)
    PROVE  Carries(d, T, id, msg, note)
<1> DEFINE b == ToArray(T, msg)
<1>1. b \in Seq(Int) /\ Len(b) = ByteSizeLong(T, msg)
  BY Zenon DEF Survives
<1>2. Len(b) \in Nat
  BY <1>1, SMT
<1>3. d = [msgid |-> id, msglen |-> ByteSizeLong(T, msg), body |-> b, note |-> note]
  BY Zenon DEF Datagram
<1>4. \A old : DOMAIN old = DOMAIN T.new =>
          ParseFromArray(T, b, old).ok = TRUE /\ ParseFromArray(T, b, old).msg = msg
  BY Zenon DEF Survives
<1> HIDE DEF b
<1>5. d.msgid = id /\ d.msglen = ByteSizeLong(T, msg) /\ d.body = b /\ d.note = note
  BY <1>3, SMT
<1>6. d \in Datagrams
  BY <1>1, <1>2, <1>3, SMT DEF Datagrams
<1> QED
  BY <1>1, <1>4, <1>5, <1>6, Zenon DEF Carries

\* The ids of the messages.
LEMMA Ids ==
    /\ ID_GetHostRequest \in Nat /\ ID_GetHostResponse \in Nat /\ ID_ReportRequest \in Nat
    /\ ID_API_GetRouteRequest \in Nat /\ ID_API_GetRouteResponse \in Nat
    /\ ID_GetHostRequest # ID_API_GetRouteRequest /\ ID_GetHostRequest # ID_ReportRequest
    /\ ID_API_GetRouteRequest # ID_ReportRequest /\ ID_GetHostResponse # ID_API_GetRouteResponse
BY SMT DEF ID_GetHostRequest, ID_GetHostResponse, ID_ReportRequest, ID_API_GetRouteRequest,
       ID_API_GetRouteResponse

\* The notes of the datagrams.
LEMMA NotesAre ==
    /\ \A c \in Client, n \in Nat : [from |-> c, call |-> n] \in Notes
    /\ \A n \in Nat, said \in HostAnswer : [call |-> n, said |-> said] \in Notes
    /\ \A n \in Nat, said \in RouteAnswer : [call |-> n, said |-> said] \in Notes
    /\ \A by \in {"get_host", "get_route"}, m \in Mod, h \in HostInfos, retcode \in Codes :
          [by |-> by, mod |-> m, host |-> h, retcode |-> retcode] \in Notes
<1>1. ASSUME NEW c \in Client, NEW n \in Nat PROVE [from |-> c, call |-> n] \in Notes
  BY Zenon DEF Notes
<1>2. ASSUME NEW n \in Nat, NEW said \in HostAnswer \cup RouteAnswer PROVE [call |-> n, said |-> said] \in Notes
  BY SMT DEF Notes
<1>3. ASSUME NEW by \in {"get_host", "get_route"}, NEW m \in Mod, NEW h \in HostInfos, NEW retcode \in Codes
      PROVE  [by |-> by, mod |-> m, host |-> h, retcode |-> retcode] \in Notes
  BY Zenon DEF Notes
<1> QED
  BY <1>1, <1>2, <1>3, Zenon

\* What the five kinds of datagrams carry.
LEMMA HostRequestCarries ==
    ASSUME Faithful, NEW c \in Client, NEW m \in Mod, NEW s \in UINT31, NEW n \in Nat, NEW d,
           d = Datagram(GetHostRequest, ID_GetHostRequest, AskHost(s, m), [from |-> c, call |-> n])
    PROVE  Carries(d, GetHostRequest, ID_GetHostRequest, AskHost(s, m), [from |-> c, call |-> n])
<1>1. Survives(GetHostRequest, AskHost(s, m))
  BY MessagesAre, Zenon DEF Faithful
<1>2. [from |-> c, call |-> n] \in Notes
  BY NotesAre, Zenon
<1> QED
  BY <1>1, <1>2, Ids, Carrying, Zenon

\* So does the request of get_route (lars_api.cpp:185-203).
LEMMA RouteRequestCarries ==
    ASSUME Faithful, NEW c \in Client, NEW m \in Mod, NEW n \in Nat, NEW d,
           d = Datagram(GetRouteRequest, ID_API_GetRouteRequest, AskRoute(m), [from |-> c, call |-> n])
    PROVE  Carries(d, GetRouteRequest, ID_API_GetRouteRequest, AskRoute(m), [from |-> c, call |-> n])
<1>1. Survives(GetRouteRequest, AskRoute(m))
  BY MessagesAre, Zenon DEF Faithful
<1>2. [from |-> c, call |-> n] \in Notes
  BY NotesAre, Zenon
<1> QED
  BY <1>1, <1>2, Ids, Carrying, Zenon

\* So does the answer of get_host_cb (agent_udp_server.cpp:16-39).
LEMMA HostAnswerCarries ==
    ASSUME Faithful, NEW m \in Mod, NEW s \in UINT31, NEW n \in Nat, NEW said \in HostAnswer, NEW d,
           d = Datagram(GetHostResponse, ID_GetHostResponse, TellHost(s, m, said),
                        [call |-> n, said |-> said])
    PROVE  Carries(d, GetHostResponse, ID_GetHostResponse, TellHost(s, m, said),
                   [call |-> n, said |-> said])
<1>1. Survives(GetHostResponse, TellHost(s, m, said))
  BY MessagesAre, Zenon DEF Faithful
<1>2. [call |-> n, said |-> said] \in Notes
  BY NotesAre, Zenon
<1> QED
  BY <1>1, <1>2, Ids, Carrying, Zenon

\* So does the answer of get_route_cb (agent_udp_server.cpp:42-64).
LEMMA RouteAnswerCarries ==
    ASSUME Faithful, NEW m \in Mod, NEW n \in Nat, NEW said \in RouteAnswer, NEW d,
           d = Datagram(GetRouteResponse, ID_API_GetRouteResponse, TellRoute(m, said),
                        [call |-> n, said |-> said])
    PROVE  Carries(d, GetRouteResponse, ID_API_GetRouteResponse, TellRoute(m, said),
                   [call |-> n, said |-> said])
<1>1. Survives(GetRouteResponse, TellRoute(m, said))
  BY MessagesAre, Zenon DEF Faithful
<1>2. [call |-> n, said |-> said] \in Notes
  BY NotesAre, Zenon
<1> QED
  BY <1>1, <1>2, Ids, Carrying, Zenon

\* So does a report (lars_api.cpp:142-155), which the agent does not refuse for
\* its length.
LEMMA ReportCarries ==
    ASSUME Faithful, NEW m \in Mod, NEW h \in HostInfos, NEW by \in {"get_host", "get_route"},
           NEW retcode \in Codes, NEW d, NEW note,
           note = [by |-> by, mod |-> m, host |-> h, retcode |-> retcode],
           d = Datagram(ReportRequest, ID_ReportRequest,
                        TellReport(m, Ip(by, h), h.port, retcode), note)
    PROVE  /\ Carries(d, ReportRequest, ID_ReportRequest,
                      TellReport(m, Ip(by, h), h.port, retcode), note)
           /\ d.msglen \in Nat /\ d.msglen <= 61
<1>1. h.ip \in INT32 /\ h.port \in INT32
  BY SMT DEF HostInfos
<1>2. Ip(by, h) \in INT32
  BY <1>1, TurnedRound, Zenon DEF Ip
<1>3. TellReport(m, Ip(by, h), h.port, retcode) \in ReportRequests
  BY <1>1, <1>2, MessagesAre, Zenon
<1>4. note \in Notes
  BY NotesAre, Zenon
<1>5. Carries(d, ReportRequest, ID_ReportRequest, TellReport(m, Ip(by, h), h.port, retcode), note)
  BY <1>3, <1>4, Ids, Carrying, Zenon DEF Faithful
<1>6. d.msglen = ByteSizeLong(ReportRequest, TellReport(m, Ip(by, h), h.port, retcode))
  BY SMT DEF Datagram
<1> QED
  BY <1>3, <1>5, <1>6, Zenon DEF Faithful

-----------------------------------------------------------------------------
(* What a step leaves at the sockets                                       *)

\* Numbers given out keep their calls.
OwnGoesOn == \A c \in Client, s \in UINT31, n \in Nat : Own(c, s, n) => Own(c, s, n)'

\* Where no call is made, numbers of calls and requests stay as they are.
LEMMA OwnSame == ASSUME _seqid' = _seqid, req' = req, calls' = calls PROVE OwnGoesOn
BY Zenon DEF OwnGoesOn, Own

\* A datagram at a server stays what it was: numbers only go up.
LEMMA AtServerKept == ASSUME OwnGoesOn, NEW u, NEW d, AtServer(u, d) PROVE AtServer(u, d)'
<1>1. CASE IsHostRequest(d)
  BY <1>1, Zenon DEF IsHostRequest, OwnGoesOn, AtServer
<1>2. CASE IsRouteRequest(d)
  BY <1>2, Zenon DEF IsRouteRequest, AtServer
<1>3. CASE IsReport(u, d)
  BY <1>3, Zenon DEF IsReport, AtServer
<1> QED
  BY <1>1, <1>2, <1>3, Zenon DEF AtServer

\* So does one at a client.
LEMMA AtClientKept == ASSUME OwnGoesOn, NEW c \in Client, NEW d, AtClient(c, d) PROVE AtClient(c, d)'
<1>1. CASE IsHostAnswer(c, d)
  BY <1>1, Zenon DEF IsHostAnswer, OwnGoesOn, AtClient
<1>2. CASE IsRouteAnswer(d)
  BY <1>2, Zenon DEF IsRouteAnswer, AtClient
<1> QED
  BY <1>1, <1>2, Zenon DEF AtClient

\* The elements of a queue after one is taken or put.
Within(old, new) == \A k \in 1 .. Len(new) : \E l \in 1 .. Len(old) : new[k] = old[l]
Plus(old, new, d) ==
    \A k \in 1 .. Len(new) : new[k] = d \/ \E l \in 1 .. Len(old) : new[k] = old[l]

\* Taking the first datagram of a socket leaves the others.
LEMMA TailWithin ==
    ASSUME NEW S, NEW q \in Seq(S), q # <<>>
    PROVE  Within(q, Tail(q)) /\ Tail(q) \in Seq(S) /\ 1 \in 1 .. Len(q) /\ Head(q) = q[1]
<1>1. Tail(q) \in Seq(S) /\ Len(Tail(q)) = Len(q) - 1 /\ Len(q) \in Nat /\ Len(q) >= 1
  BY SMT
<1>2. \A k \in 1 .. Len(Tail(q)) : Tail(q)[k] = q[k + 1]
  BY SMT
<1>3. \A k \in 1 .. Len(Tail(q)) : k + 1 \in 1 .. Len(q)
  BY <1>1, SMT
<1>4. 1 \in 1 .. Len(q) /\ Head(q) = q[1]
  BY <1>1, SMT
<1> QED
  BY <1>1, <1>2, <1>3, <1>4, Zenon DEF Within

\* Adding one leaves those that were there.
LEMMA AppendPlus ==
    ASSUME NEW S, NEW q \in Seq(S), NEW d \in S
    PROVE  Plus(q, Append(q, d), d) /\ Append(q, d) \in Seq(S)
<1>1. Append(q, d) \in Seq(S) /\ Len(Append(q, d)) = Len(q) + 1 /\ Len(q) \in Nat
  BY SMT
<1>2. ASSUME NEW k \in 1 .. Len(Append(q, d))
      PROVE  Append(q, d)[k] = d \/ (k \in 1 .. Len(q) /\ Append(q, d)[k] = q[k])
  BY <1>1, SMT
<1> QED
  BY <1>1, <1>2, Zenon DEF Plus

\* The servers' sockets are as they were, lose a datagram or get one.
LEMMA ServerSame ==
    ASSUME ApiInv, OwnGoesOn, server' = server PROVE ServerTypes' /\ ServerHolds'
<1>1. ServerTypes /\ ServerHolds
  BY Zenon DEF ApiInv
<1>2. ServerTypes'
  BY <1>1, Zenon DEF ServerTypes
<1>3. ASSUME NEW u \in Udp, NEW k \in 1 .. Len(server'[u]) PROVE AtServer(u, server[u][k])'
  <2> SUFFICES ASSUME NEW d, d = server[u][k] PROVE AtServer(u, d)'
    BY Zenon
  <2> QED
    BY <1>1, AtServerKept, Zenon DEF ServerHolds
<1> QED
  BY <1>2, <1>3, Zenon DEF ServerHolds

\* do_read takes a datagram from the socket of a server (udp_server.cpp:63-85).
LEMMA ServerTaken ==
    ASSUME ApiInv, OwnGoesOn, NEW u \in Udp, server[u] # <<>>,
           server' = [server EXCEPT ![u] = Tail(@)]
    PROVE  ServerTypes' /\ ServerHolds'
<1>1. ServerHolds /\ server \in [Udp -> Seq(Datagrams)]
  BY Zenon DEF ApiInv, ServerTypes
<1>2. server[u] \in Seq(Datagrams)
  BY <1>1, Zenon
<1>3. Within(server[u], Tail(server[u])) /\ Tail(server[u]) \in Seq(Datagrams)
  BY <1>2, TailWithin, Zenon
<1>4. server'[u] = Tail(server[u]) /\ \A j \in Udp : j # u => server'[j] = server[j]
  BY <1>1, Zenon
<1>5. ServerTypes'
  BY <1>1, <1>3, Zenon DEF ServerTypes
<1>6. ASSUME NEW j \in Udp, NEW k \in 1 .. Len(server'[j]) PROVE AtServer(j, server[j][k])'
  <2>1. PICK l \in 1 .. Len(server[j]) : server'[j][k] = server[j][l]
    <3>1. CASE j = u
      <4>1. k \in 1 .. Len(Tail(server[u])) /\ server'[j][k] = Tail(server[u])[k]
        BY <1>4, <3>1, Zenon
      <4> QED
        BY <1>3, <3>1, <4>1, Zenon DEF Within
    <3>2. CASE j # u
      BY <1>4, <3>2, Zenon
    <3> QED
      BY <3>1, <3>2, Zenon
  <2> SUFFICES ASSUME NEW d, d = server[j][l] PROVE AtServer(j, d)'
    BY <2>1, Zenon
  <2> QED
    BY <1>1, AtServerKept, Zenon DEF ServerHolds
<1> QED
  BY <1>5, <1>6, Zenon DEF ServerHolds

\* sendto adds a datagram to the socket of a server (lars_api.cpp:79-86).
LEMMA ServerPut ==
    ASSUME ApiInv, OwnGoesOn, NEW u \in Udp, NEW d \in Datagrams, AtServer(u, d)',
           server' = [server EXCEPT ![u] = Append(@, d)]
    PROVE  ServerTypes' /\ ServerHolds'
<1>1. ServerHolds /\ server \in [Udp -> Seq(Datagrams)]
  BY Zenon DEF ApiInv, ServerTypes
<1>2. server[u] \in Seq(Datagrams)
  BY <1>1, Zenon
<1>3. Plus(server[u], Append(server[u], d), d) /\ Append(server[u], d) \in Seq(Datagrams)
  BY <1>2, AppendPlus, Zenon
<1>4. server'[u] = Append(server[u], d) /\ \A j \in Udp : j # u => server'[j] = server[j]
  BY <1>1, Zenon
<1>5. ServerTypes'
  BY <1>1, <1>3, Zenon DEF ServerTypes
<1>6. ASSUME NEW j \in Udp, NEW k \in 1 .. Len(server'[j]) PROVE AtServer(j, server[j][k])'
  <2>1. CASE j = u /\ server'[j][k] = d
    BY <2>1, Zenon
  <2>2. CASE ~(j = u /\ server'[j][k] = d)
    <3>1. PICK l \in 1 .. Len(server[j]) : server'[j][k] = server[j][l]
      <4>1. CASE j = u
        <5>1. /\ k \in 1 .. Len(Append(server[u], d)) /\ server'[j][k] = Append(server[u], d)[k]
              /\ Append(server[u], d)[k] # d
          BY <1>4, <2>2, <4>1, Zenon
        <5> QED
          BY <1>3, <4>1, <5>1, Zenon DEF Plus
      <4>2. CASE j # u
        BY <1>4, <4>2, Zenon
      <4> QED
        BY <4>1, <4>2, Zenon
    <3> SUFFICES ASSUME NEW e, e = server[j][l] PROVE AtServer(j, e)'
      BY <3>1, Zenon
    <3> QED
      BY <1>1, AtServerKept, Zenon DEF ServerHolds
  <2> QED
    BY <2>1, <2>2, Zenon
<1> QED
  BY <1>5, <1>6, Zenon DEF ServerHolds

\* The same for the clients' sockets.
LEMMA SocketSame ==
    ASSUME ApiInv, OwnGoesOn, socket' = socket PROVE SocketTypes' /\ SocketHolds'
<1>1. SocketTypes /\ SocketHolds
  BY Zenon DEF ApiInv
<1>2. SocketTypes'
  BY <1>1, Zenon DEF SocketTypes
<1>3. ASSUME NEW c \in Client, NEW u \in Udp, NEW k \in 1 .. Len(socket'[c][u])
      PROVE  AtClient(c, socket[c][u][k])'
  <2> SUFFICES ASSUME NEW d, d = socket[c][u][k] PROVE AtClient(c, d)'
    BY Zenon
  <2> QED
    BY <1>1, AtClientKept, Zenon DEF SocketHolds
<1> QED
  BY <1>2, <1>3, Zenon DEF SocketHolds

\* recvfrom takes a datagram from the socket of a client (lars_api.cpp:93-100).
LEMMA SocketTaken ==
    ASSUME ApiInv, OwnGoesOn, NEW c \in Client, NEW u \in Udp, socket[c][u] # <<>>,
           socket' = [socket EXCEPT ![c][u] = Tail(@)]
    PROVE  SocketTypes' /\ SocketHolds'
<1>1. SocketHolds /\ socket \in [Client -> [Udp -> Seq(Datagrams)]]
  BY Zenon DEF ApiInv, SocketTypes
<1>2. socket[c] \in [Udp -> Seq(Datagrams)] /\ socket[c][u] \in Seq(Datagrams)
  BY <1>1, Zenon
<1>3. Within(socket[c][u], Tail(socket[c][u])) /\ Tail(socket[c][u]) \in Seq(Datagrams)
  BY <1>2, TailWithin, Zenon
<1>4. /\ socket'[c][u] = Tail(socket[c][u])
      /\ \A b \in Client, j \in Udp : ~(b = c /\ j = u) => socket'[b][j] = socket[b][j]
  BY <1>1, <1>2, Zenon
<1>5. SocketTypes'
  BY <1>1, <1>3, SMT DEF SocketTypes
<1>6. ASSUME NEW b \in Client, NEW j \in Udp, NEW k \in 1 .. Len(socket'[b][j])
      PROVE  AtClient(b, socket[b][j][k])'
  <2>1. PICK l \in 1 .. Len(socket[b][j]) : socket'[b][j][k] = socket[b][j][l]
    <3>1. CASE b = c /\ j = u
      <4>1. k \in 1 .. Len(Tail(socket[c][u])) /\ socket'[b][j][k] = Tail(socket[c][u])[k]
        BY <1>4, <3>1, Zenon
      <4> QED
        BY <1>3, <3>1, <4>1, Zenon DEF Within
    <3>2. CASE ~(b = c /\ j = u)
      BY <1>4, <3>2, Zenon
    <3> QED
      BY <3>1, <3>2, Zenon
  <2> SUFFICES ASSUME NEW d, d = socket[b][j][l] PROVE AtClient(b, d)'
    BY <2>1, Zenon
  <2> QED
    BY <1>1, AtClientKept, Zenon DEF SocketHolds
<1> QED
  BY <1>5, <1>6, Zenon DEF SocketHolds

\* send_message adds a datagram to the socket of a client (udp_server.cpp:103-131).
LEMMA SocketPut ==
    ASSUME ApiInv, OwnGoesOn, NEW c \in Client, NEW u \in Udp, NEW d \in Datagrams,
           AtClient(c, d)', socket' = [socket EXCEPT ![c][u] = Append(@, d)]
    PROVE  SocketTypes' /\ SocketHolds'
<1>1. SocketHolds /\ socket \in [Client -> [Udp -> Seq(Datagrams)]]
  BY Zenon DEF ApiInv, SocketTypes
<1>2. socket[c] \in [Udp -> Seq(Datagrams)] /\ socket[c][u] \in Seq(Datagrams)
  BY <1>1, Zenon
<1>3. Plus(socket[c][u], Append(socket[c][u], d), d) /\ Append(socket[c][u], d) \in Seq(Datagrams)
  BY <1>2, AppendPlus, Zenon
<1>4. /\ socket'[c][u] = Append(socket[c][u], d)
      /\ \A b \in Client, j \in Udp : ~(b = c /\ j = u) => socket'[b][j] = socket[b][j]
  BY <1>1, <1>2, Zenon
<1>5. SocketTypes'
  BY <1>1, <1>3, SMT DEF SocketTypes
<1>6. ASSUME NEW b \in Client, NEW j \in Udp, NEW k \in 1 .. Len(socket'[b][j])
      PROVE  AtClient(b, socket[b][j][k])'
  <2>1. CASE b = c /\ j = u /\ socket'[b][j][k] = d
    BY <2>1, Zenon
  <2>2. CASE ~(b = c /\ j = u /\ socket'[b][j][k] = d)
    <3>1. PICK l \in 1 .. Len(socket[b][j]) : socket'[b][j][k] = socket[b][j][l]
      <4>1. CASE b = c /\ j = u
        <5>1. /\ k \in 1 .. Len(Append(socket[c][u], d))
              /\ socket'[b][j][k] = Append(socket[c][u], d)[k] /\ Append(socket[c][u], d)[k] # d
          BY <1>4, <2>2, <4>1, Zenon
        <5> QED
          BY <1>3, <4>1, <5>1, Zenon DEF Plus
      <4>2. CASE ~(b = c /\ j = u)
        BY <1>4, <4>2, Zenon
      <4> QED
        BY <4>1, <4>2, Zenon
    <3> SUFFICES ASSUME NEW e, e = socket[b][j][l] PROVE AtClient(b, e)'
      BY <3>1, Zenon
    <3> QED
      BY <1>1, AtClientKept, Zenon DEF SocketHolds
  <2> QED
    BY <2>1, <2>2, Zenon
<1> QED
  BY <1>5, <1>6, Zenon DEF SocketHolds

-----------------------------------------------------------------------------
(* The steps of a client                                                   *)

\* What a call that returned got stays what it got until the client calls again.
LEMMA GotKept ==
    ASSUME NEW b \in Client, req'[b] = req[b], calls'[b] = calls[b], NEW g, Got(b, g)
    PROVE  Got(b, g)'
BY Zenon DEF Got

\* What a call returned holds on until the next call.
LEMMA GotSame == ASSUME ApiInv, req' = req, calls' = calls, got' = got PROVE GotHolds'
<1>1. GotHolds
  BY Zenon DEF ApiInv
<1>2. ASSUME NEW b \in Client PROVE got'[b] = <<>> \/ \E g : got'[b] = <<g>> /\ Got(b, g)'
  BY <1>1, GotKept, Zenon DEF GotHolds
<1> QED
  BY <1>2, Zenon DEF GotHolds

\* Call, whatever is asked: what is new is at its server.
LEMMA CallKeeps ==
    ASSUME ApiInv, NEW c \in Client, NEW m \in Mod, NEW f \in {"get_host", "get_route"},
           NEW T, NEW id, NEW msg, NEW d \in Datagrams,
           d = Datagram(T, id, msg, [from |-> c, call |-> calls[c] + 1]),
           Call(c, f, m, T, id, msg),
           OwnGoesOn, AtServer(Index(m), d)',
           _seqid' \in [Client -> UINT31], \A b \in Client : _seqid'[b] <= calls'[b],
           retry_cnt' \in [Client -> Int],
           \A b \in Client : retry_cnt'[b] # NoReg => req'[b].f = "get_route"
    PROVE  ApiInv'
<1>1. /\ calls[c] < MaxCalls
      /\ calls' = [calls EXCEPT ![c] = @ + 1]
      /\ req' = [req EXCEPT ![c] = [f |-> f, mod |-> m, seq |-> _seqid[c]]]
      /\ step' = [step EXCEPT ![c] = "recv"]
      /\ got' = [got EXCEPT ![c] = <<>>]
      /\ rsp' = rsp /\ socket' = socket
      /\ server' = server \/ server' = [server EXCEPT ![Index(m)] = Append(@, d)]
  BY Zenon DEF Call, sendto
<1>2. InCall /\ GotHolds
  BY Zenon DEF ApiInv
<1>3. calls \in [Client -> UINT31] /\ _seqid \in [Client -> UINT31] /\ \A b \in Client : calls[b] <= MaxCalls
  BY <1>2, Zenon DEF InCall
<1>4. Index(m) \in Udp /\ m \in Nat \X Nat
  BY Parts, Zenon
<1>5. ServerTypes' /\ ServerHolds'
  BY <1>1, <1>4, ServerSame, ServerPut, Zenon
<1>6. SocketTypes' /\ SocketHolds'
  BY <1>1, SocketSame, Zenon
<1>7. calls' \in [Client -> UINT31] /\ \A b \in Client : calls'[b] <= MaxCalls
  <2>1. MaxCalls \in UINT31
    BY ApiAssumption, Zenon
  <2>2. calls[c] + 1 \in UINT31 /\ calls[c] + 1 <= MaxCalls
    BY <1>1, <1>3, <2>1, SMT DEF UINT31
  <2> HIDE DEF UINT31
  <2> SUFFICES ASSUME NEW n \in UINT31, n <= MaxCalls, calls' = [calls EXCEPT ![c] = n]
               PROVE  calls' \in [Client -> UINT31] /\ \A b \in Client : calls'[b] <= MaxCalls
    BY <1>1, <2>2, Zenon
  <2> QED
    BY <1>3, Zenon
<1>8. /\ req \in [Client -> [f : {"none", "get_host", "get_route"}, mod : Nat \X Nat, seq : UINT31]]
      /\ \A b \in Client : req[b].f # "none" => req[b].mod \in Mod
      /\ step \in [Client -> {"idle", "recv"}]
      /\ \A b \in Client : step[b] = "recv" => req[b].f # "none"
      /\ rsp = [b \in Client |-> rsp[b]]
      /\ \A b \in Client : DOMAIN rsp[b] = DOMAIN GetHostResponse.new
      /\ got = [b \in Client |-> got[b]]
  BY <1>2, Zenon DEF InCall
<1>9. PICK r : r = [f |-> f, mod |-> m, seq |-> _seqid[c]]
  BY Zenon
<1>10. /\ r \in [f : {"none", "get_host", "get_route"}, mod : Nat \X Nat, seq : UINT31]
       /\ r.f # "none" /\ r.mod \in Mod
  BY <1>3, <1>4, <1>9, SMT
<1>11. req' = [req EXCEPT ![c] = r]
  BY <1>1, <1>9, Zenon
<1>12. /\ req' \in [Client -> [f : {"none", "get_host", "get_route"}, mod : Nat \X Nat, seq : UINT31]]
       /\ req'[c] = r /\ \A b \in Client : b # c => req'[b] = req[b]
  BY <1>8, <1>10, <1>11, Zenon
<1>13. /\ step' \in [Client -> {"idle", "recv"}] /\ \A b \in Client : b # c => step'[b] = step[b]
  BY <1>1, <1>8, Zenon
<1>14. got' = [b \in Client |-> got'[b]] /\ got'[c] = <<>> /\ \A b \in Client : b # c => got'[b] = got[b]
  BY <1>1, <1>8, Zenon
<1>15. InCall'
  BY <1>1, <1>7, <1>8, <1>10, <1>12, <1>13, <1>14, Zenon DEF InCall
<1>16. \A b \in Client : b # c => calls'[b] = calls[b]
  BY <1>1, <1>3, Zenon
<1>17. ASSUME NEW b \in Client PROVE got'[b] = <<>> \/ \E g : got'[b] = <<g>> /\ Got(b, g)'
  BY <1>2, <1>12, <1>14, <1>16, GotKept, Zenon DEF GotHolds
<1>18. GotHolds'
  BY <1>17, Zenon DEF GotHolds
<1> QED
  BY <1>5, <1>6, <1>15, <1>18, Zenon DEF ApiInv

\* get_host sends its number and counts it up: older ones stay older.
LEMMA HostCalled == ASSUME Faithful, ApiInv, NEW c \in Client, NEW m \in Mod, get_host(c, m) PROVE ApiInv'
<1>1. InCall
  BY Zenon DEF ApiInv
<1>2. PICK s : s = _seqid[c]
  BY Zenon
<1>3. PICK n : n = calls[c] + 1
  BY Zenon
<1>4. PICK msg : msg = AskHost(s, m)
  BY Zenon
<1>5. PICK note : note = [from |-> c, call |-> n]
  BY Zenon
<1>6. PICK d : d = Datagram(GetHostRequest, ID_GetHostRequest, msg, note)
  BY Zenon
<1>7. /\ retry_cnt[c] = NoReg /\ retry_cnt' = retry_cnt
      /\ Call(c, "get_host", m, GetHostRequest, ID_GetHostRequest, msg)
      /\ _seqid' = [_seqid EXCEPT ![c] = @ + 1]
  BY <1>2, <1>4, Zenon DEF get_host, AskHost
<1>8. /\ calls[c] < MaxCalls
      /\ calls' = [calls EXCEPT ![c] = @ + 1]
      /\ req' = [req EXCEPT ![c] = [f |-> "get_host", mod |-> m, seq |-> _seqid[c]]]
  BY <1>7, Zenon DEF Call
<1>9. /\ calls \in [Client -> UINT31] /\ _seqid \in [Client -> UINT31]
      /\ \A b \in Client : calls[b] <= MaxCalls /\ _seqid[b] <= calls[b]
      /\ req = [b \in Client |-> req[b]]
      /\ retry_cnt \in [Client -> Int]
      /\ \A b \in Client : retry_cnt[b] # NoReg => req[b].f = "get_route"
  BY <1>1, Zenon DEF InCall
<1>10. /\ n \in UINT31 /\ n \in Nat /\ s \in UINT31 /\ s + 1 \in UINT31 /\ s + 1 <= n /\ s < s + 1
       /\ \A t \in UINT31 : t < s => t < s + 1 /\ t # s
  <2>1. MaxCalls \in UINT31 /\ calls[c] \in UINT31 /\ s \in UINT31 /\ s <= calls[c]
    BY <1>2, <1>9, ApiAssumption, Zenon
  <2> QED
    BY <1>3, <1>8, <2>1, SMT DEF UINT31
<1>11. /\ req'[c] = [f |-> "get_host", mod |-> m, seq |-> s]
       /\ \A b \in Client : b # c => req'[b] = req[b]
  BY <1>2, <1>8, <1>9, Zenon
<1>12. /\ calls'[c] = n /\ \A b \in Client : b # c => calls'[b] = calls[b]
  BY <1>3, <1>8, <1>9, Zenon
<1>13. /\ _seqid'[c] = s + 1 /\ \A b \in Client : b # c => _seqid'[b] = _seqid[b]
  BY <1>2, <1>7, <1>9, Zenon
<1>14. _seqid' \in [Client -> UINT31]
  BY <1>2, <1>7, <1>9, <1>10, Zenon
<1>15. ASSUME NEW b \in Client PROVE _seqid'[b] <= calls'[b]
  <2>1. CASE b = c
    <3>1. _seqid'[b] = s + 1 /\ calls'[b] = n
      BY <1>12, <1>13, <2>1, Zenon
    <3> QED
      BY <1>10, <3>1, Zenon
  <2>2. CASE b # c
    <3>1. _seqid'[b] = _seqid[b] /\ calls'[b] = calls[b]
      BY <1>12, <1>13, <2>2, Zenon
    <3> QED
      BY <1>9, <3>1, Zenon
  <2> QED
    BY <2>1, <2>2, Zenon
<1>16. req'[c].f = "get_host" /\ req'[c].seq = s
  BY <1>11, SMT
<1>17. OwnGoesOn
  <2>1. ASSUME NEW b \in Client, NEW t \in UINT31, NEW k \in Nat, Own(b, t, k) PROVE Own(b, t, k)'
    <3>1. CASE b = c
      BY <1>2, <1>10, <1>13, <1>16, <2>1, <3>1, Zenon DEF Own
    <3>2. CASE b # c
      BY <1>11, <1>12, <1>13, <2>1, <3>2, Zenon DEF Own
    <3> QED
      BY <3>1, <3>2, Zenon
  <2> QED
    BY <2>1, Zenon DEF OwnGoesOn
<1>18. Own(c, s, n)'
  BY <1>10, <1>12, <1>13, Zenon DEF Own
<1>19. AtServer(Index(m), d)'
  BY <1>4, <1>5, <1>6, <1>10, <1>18, Zenon DEF AtServer, IsHostRequest
<1>20. d \in Datagrams
  BY <1>4, <1>5, <1>6, <1>10, HostRequestCarries, Zenon DEF Carries
<1>21. \A b \in Client : retry_cnt'[b] # NoReg => req'[b].f = "get_route"
  BY <1>7, <1>9, <1>11, Zenon
<1>22. d = Datagram(GetHostRequest, ID_GetHostRequest, msg, [from |-> c, call |-> calls[c] + 1])
  BY <1>3, <1>5, <1>6, Zenon
<1> QED
  BY <1>7, <1>9, <1>14, <1>15, <1>17, <1>19, <1>20, <1>21, <1>22, CallKeeps, Zenon

\* get_route gives out no number.
LEMMA RouteCalled ==
    ASSUME Faithful, ApiInv, NEW c \in Client, NEW m \in Mod, CallRoute(c, m), _seqid' = _seqid,
           retry_cnt' \in [Client -> Int],
           \A b \in Client : b # c => retry_cnt'[b] = retry_cnt[b]
    PROVE  ApiInv'
<1>1. InCall
  BY Zenon DEF ApiInv
<1>2. PICK n : n = calls[c] + 1
  BY Zenon
<1>3. PICK msg : msg = AskRoute(m)
  BY Zenon
<1>4. PICK note : note = [from |-> c, call |-> n]
  BY Zenon
<1>5. PICK d : d = Datagram(GetRouteRequest, ID_API_GetRouteRequest, msg, note)
  BY Zenon
<1>6. Call(c, "get_route", m, GetRouteRequest, ID_API_GetRouteRequest, msg)
  BY <1>3, Zenon DEF CallRoute, AskRoute
<1>7. /\ calls' = [calls EXCEPT ![c] = @ + 1]
      /\ req' = [req EXCEPT ![c] = [f |-> "get_route", mod |-> m, seq |-> _seqid[c]]]
  BY <1>6, Zenon DEF Call
<1>8. /\ calls \in [Client -> UINT31] /\ _seqid \in [Client -> UINT31]
      /\ \A b \in Client : _seqid[b] <= calls[b]
      /\ req = [b \in Client |-> req[b]]
      /\ \A b \in Client : retry_cnt[b] # NoReg => req[b].f = "get_route"
  BY <1>1, Zenon DEF InCall
<1>9. n \in Nat /\ _seqid[c] <= n
  <2>1. calls[c] \in UINT31 /\ _seqid[c] \in UINT31 /\ _seqid[c] <= calls[c]
    BY <1>8, Zenon
  <2> QED
    BY <1>2, <2>1, SMT DEF UINT31
<1>10. /\ req'[c] = [f |-> "get_route", mod |-> m, seq |-> _seqid[c]]
       /\ \A b \in Client : b # c => req'[b] = req[b]
  BY <1>7, <1>8, Zenon
<1>11. req'[c].f = "get_route"
  BY <1>10, SMT
<1>12. /\ calls'[c] = n /\ \A b \in Client : b # c => calls'[b] = calls[b]
  BY <1>2, <1>7, <1>8, Zenon
<1>13. ASSUME NEW b \in Client PROVE _seqid'[b] <= calls'[b]
  <2>1. CASE b = c
    BY <1>9, <1>12, <2>1, Zenon
  <2>2. CASE b # c
    BY <1>8, <1>12, <2>2, Zenon
  <2> QED
    BY <2>1, <2>2, Zenon
<1>14. OwnGoesOn
  <2>1. ASSUME NEW b \in Client, NEW t \in UINT31, NEW k \in Nat, Own(b, t, k) PROVE Own(b, t, k)'
    <3>1. CASE b = c
      <4>1. req'[b].f # "get_host"
        BY <1>11, <3>1, Zenon
      <4> QED
        BY <2>1, <4>1, Zenon DEF Own
    <3>2. CASE b # c
      BY <1>10, <1>12, <2>1, <3>2, Zenon DEF Own
    <3> QED
      BY <3>1, <3>2, Zenon
  <2> QED
    BY <2>1, Zenon DEF OwnGoesOn
<1>15. AtServer(Index(m), d)'
  BY <1>3, <1>4, <1>5, <1>9, Zenon DEF AtServer, IsRouteRequest
<1>16. d \in Datagrams
  BY <1>3, <1>4, <1>5, <1>9, RouteRequestCarries, Zenon DEF Carries
<1>17. \A b \in Client : retry_cnt'[b] # NoReg => req'[b].f = "get_route"
  BY <1>8, <1>10, <1>11, Zenon
<1>18. d = Datagram(GetRouteRequest, ID_API_GetRouteRequest, msg, [from |-> c, call |-> calls[c] + 1])
  BY <1>2, <1>4, <1>5, Zenon
<1>19. _seqid' \in [Client -> UINT31]
  BY <1>8, Zenon
<1> QED
  BY <1>6, <1>13, <1>14, <1>15, <1>16, <1>17, <1>18, <1>19, CallKeeps, Zenon

\* get_route itself, and the attempts of reg_init.
LEMMA Registered ==
    ASSUME Faithful, ApiInv, NEW c \in Client,
           \/ \E m \in Mod : get_route(c, m) \/ reg_init(c, m)
           \/ reg_init_again(c)
    PROVE  ApiInv'
<1>1. InCall
  BY Zenon DEF ApiInv
<1>2. /\ retry_cnt \in [Client -> Int]
      /\ \A b \in Client : retry_cnt[b] # NoReg => req[b].f = "get_route"
      /\ \A b \in Client : req[b].f # "none" => req[b].mod \in Mod
  BY <1>1, Zenon DEF InCall
<1>3. ASSUME NEW m \in Mod, get_route(c, m) PROVE ApiInv'
  BY <1>2, <1>3, RouteCalled, Zenon DEF get_route
<1>4. ASSUME NEW m \in Mod, reg_init(c, m) PROVE ApiInv'
  <2>1. CallRoute(c, m) /\ retry_cnt' = [retry_cnt EXCEPT ![c] = 0] /\ _seqid' = _seqid
    BY <1>4, Zenon DEF reg_init
  <2>2. retry_cnt' \in [Client -> Int] /\ \A b \in Client : b # c => retry_cnt'[b] = retry_cnt[b]
    BY <1>2, <2>1, SMT
  <2> QED
    BY <2>1, <2>2, RouteCalled, Zenon
<1>5. ASSUME reg_init_again(c) PROVE ApiInv'
  <2>1. /\ CallRoute(c, req[c].mod) /\ retry_cnt' = retry_cnt /\ _seqid' = _seqid
        /\ retry_cnt[c] \in 1 .. Max_retry - 1
    BY <1>5, Zenon DEF reg_init_again
  <2>2. retry_cnt[c] # NoReg
    BY <2>1, SMT DEF NoReg, Max_retry
  <2>3. req[c].mod \in Mod
    BY <1>2, <2>2, Zenon
  <2> QED
    BY <1>2, <2>1, <2>3, RouteCalled, Zenon
<1> QED
  BY <1>3, <1>4, <1>5, Zenon

\* What report says of a host is what it was told, put back together.
ToldBack(m, f, h, retcode, printed) ==
    ReportOf(m, printed, retcode) = TellReport(m, Ip(f, h), h.port, retcode)

\* inet_aton gives back the number that inet_ntoa printed for get_host, and for
\* get_route the number with its bytes reversed (lars_api.cpp:131-132,151-153,244-249).
LEMMA SaysBack ==
    ASSUME NEW m, NEW f \in {"get_host", "get_route"}, NEW hosts \in Seq(HostInfos),
           NEW k \in DOMAIN hosts, NEW retcode, NEW h, h = Printed(f, hosts)[k]
    PROVE  ToldBack(m, f, hosts[k], retcode, h)
<1>1. h = [ip |-> IF f = "get_host" THEN inet_ntoa(hosts[k].ip) ELSE Swapped(inet_ntoa(hosts[k].ip)),
           port |-> hosts[k].port]
  BY Zenon DEF Printed
<1>2. /\ h.ip = IF f = "get_host" THEN inet_ntoa(hosts[k].ip) ELSE Swapped(inet_ntoa(hosts[k].ip))
      /\ h.port = hosts[k].port
  <2> SUFFICES ASSUME NEW a, NEW b, h = [ip |-> a, port |-> b] PROVE h.ip = a /\ h.port = b
    BY <1>1, Zenon
  <2> QED
    BY SMT
<1>3. hosts[k] \in HostInfos
  BY SMT
<1>4. hosts[k].ip \in INT32
  BY <1>3, SMT DEF HostInfos
<1>5. inet_aton(h.ip) = Ip(f, hosts[k])
  BY <1>2, <1>4, PrintedIsRead, Zenon DEF Ip, ntohl
<1> QED
  BY <1>2, <1>5, Zenon DEF ToldBack, ReportOf, TellReport

\* report keeps the invariant (lars_api.cpp:140-175).
LEMMA Reported ==
    ASSUME Faithful, ApiInv, NEW c \in Client, NEW k, NEW retcode \in Codes, report(c, k, retcode)
    PROVE  ApiInv'
<1>1. InCall /\ GotHolds
  BY Zenon DEF ApiInv
<1>2. PICK g : got[c] = <<g>> /\ Got(c, g)
  BY <1>1, Zenon DEF GotHolds, report
<1>3. got[c][1] = g
  BY <1>2, SMT
<1>4. PICK f : f = req[c].f
  BY Zenon
<1>5. PICK m : m = req[c].mod
  BY Zenon
<1>6. f \in {"get_host", "get_route"} /\ g.said.host \in Seq(HostInfos) /\ g.route = Printed(f, g.said.host)
  BY <1>2, <1>4, Zenon DEF Got
<1>7. m \in Mod
  BY <1>1, <1>4, <1>5, <1>6, Zenon DEF InCall
<1>8. PICK hosts : hosts = g.said.host
  BY Zenon
<1>9. k \in DOMAIN hosts
  BY <1>3, <1>6, <1>8, Zenon DEF report, Printed
<1>10. hosts \in Seq(HostInfos) /\ hosts[k] \in HostInfos
  BY <1>6, <1>8, <1>9, SMT
<1>11. PICK h : h = Printed(f, hosts)[k]
  BY Zenon
<1>12. PICK note : note = [by |-> f, mod |-> m, host |-> hosts[k], retcode |-> retcode]
  BY Zenon
<1>13. PICK d : d = Datagram(ReportRequest, ID_ReportRequest, ReportOf(m, h, retcode), note)
  BY Zenon
<1>14. /\ server' = [server EXCEPT ![Index(m)] = Append(@, d)]
       /\ UNCHANGED <<calls, _seqid, step, req, rsp, retry_cnt, socket, got, lost>>
  BY <1>3, <1>4, <1>5, <1>6, <1>8, <1>11, <1>12, <1>13, Zenon DEF report
<1>15. ReportOf(m, h, retcode) = TellReport(m, Ip(f, hosts[k]), hosts[k].port, retcode)
  <2>1. f \in {"get_host", "get_route"}
    BY <1>6, Zenon
  <2>2. ToldBack(m, f, hosts[k], retcode, h)
    BY <1>9, <1>10, <1>11, <2>1, SaysBack, Zenon
  <2> QED
    BY <2>2, Zenon DEF ToldBack
<1>16. d = Datagram(ReportRequest, ID_ReportRequest,
                    TellReport(m, Ip(f, hosts[k]), hosts[k].port, retcode), note)
  BY <1>13, <1>15, Zenon
<1>17. d \in Datagrams
  <2>1. f \in {"get_host", "get_route"}
    BY <1>6, Zenon
  <2>2. PICK e : e = hosts[k]
    BY Zenon
  <2>3. /\ e \in HostInfos /\ note = [by |-> f, mod |-> m, host |-> e, retcode |-> retcode]
        /\ d = Datagram(ReportRequest, ID_ReportRequest, TellReport(m, Ip(f, e), e.port, retcode), note)
    BY <1>10, <1>12, <1>16, <2>2, Zenon
  <2>4. Carries(d, ReportRequest, ID_ReportRequest, TellReport(m, Ip(f, e), e.port, retcode), note)
    BY <1>7, <2>1, <2>3, ReportCarries, Zenon
  <2> QED
    BY <2>4, Zenon DEF Carries
<1>18. IsReport(Index(m), d)
  BY <1>6, <1>7, <1>10, <1>12, <1>16, Zenon DEF IsReport
<1>19. AtServer(Index(m), d)'
  BY <1>18, Zenon DEF AtServer, IsReport
<1>20. OwnGoesOn
  BY <1>14, OwnSame, Zenon
<1>21. Index(m) \in Udp
  BY <1>7, Parts, Zenon
<1>22. ServerTypes' /\ ServerHolds'
  BY <1>14, <1>17, <1>19, <1>20, <1>21, ServerPut, Zenon
<1>23. SocketTypes' /\ SocketHolds'
  BY <1>14, <1>20, SocketSame, Zenon
<1>24. GotHolds'
  BY <1>14, GotSame, Zenon
<1>25. InCall'
  BY <1>1, <1>14, Zenon DEF InCall
<1> QED
  BY <1>22, <1>23, <1>24, <1>25, Zenon DEF ApiInv

\* A function that ends leaves its client idle.
LEMMA Ends ==
    ASSUME ApiInv, NEW c \in Client, calls' = calls, _seqid' = _seqid, req' = req,
           step' = [step EXCEPT ![c] = "idle"], rsp' = [rsp EXCEPT ![c] = GetHostResponse_new],
           NEW v \in Int, retry_cnt' = [retry_cnt EXCEPT ![c] = v],
           retry_cnt[c] = NoReg => v = NoReg, got' = [b \in Client |-> got'[b]]
    PROVE  InCall'
<1>1. InCall
  BY Zenon DEF ApiInv
<1>2. /\ step \in [Client -> {"idle", "recv"}]
      /\ \A b \in Client : step[b] = "recv" => req[b].f # "none"
      /\ rsp = [b \in Client |-> rsp[b]]
      /\ \A b \in Client : DOMAIN rsp[b] = DOMAIN GetHostResponse.new
      /\ retry_cnt \in [Client -> Int]
      /\ \A b \in Client : retry_cnt[b] # NoReg => req[b].f = "get_route"
  BY <1>1, Zenon DEF InCall
<1>3. /\ step' \in [Client -> {"idle", "recv"}] /\ step'[c] = "idle"
      /\ \A b \in Client : b # c => step'[b] = step[b]
  BY <1>2, Zenon
<1>4. \A b \in Client : step'[b] = "recv" => req'[b].f # "none"
  BY <1>2, <1>3, Zenon
<1>5. /\ rsp' = [b \in Client |-> rsp'[b]] /\ rsp'[c] = GetHostResponse_new
      /\ \A b \in Client : b # c => rsp'[b] = rsp[b]
  BY <1>2, Zenon
<1>6. GetHostResponse.new = GetHostResponse_new
  BY SMT DEF GetHostResponse
<1>7. \A b \in Client : DOMAIN rsp'[b] = DOMAIN GetHostResponse.new
  BY <1>2, <1>5, <1>6, Zenon
<1>8. /\ retry_cnt' \in [Client -> Int] /\ retry_cnt'[c] = v
      /\ \A b \in Client : b # c => retry_cnt'[b] = retry_cnt[b]
  BY <1>2, Zenon
<1>9. \A b \in Client : retry_cnt'[b] # NoReg => req'[b].f = "get_route"
  BY <1>2, <1>8, Zenon
<1> QED
  BY <1>1, <1>3, <1>4, <1>5, <1>7, <1>8, <1>9, Zenon DEF InCall

\* A call that returns RET_SYSTEM_ERROR leaves what the last one returned.
LEMMA Fails ==
    ASSUME ApiInv, NEW c \in Client, calls' = calls, _seqid' = _seqid, req' = req, Fail(c)
    PROVE  InCall' /\ GotHolds'
<1>1. PICK v : v = IF retry_cnt[c] = NoReg THEN NoReg ELSE retry_cnt[c] + 1
  BY Zenon
<1>2. retry_cnt \in [Client -> Int] /\ got = [b \in Client |-> got[b]]
  BY Zenon DEF ApiInv, InCall
<1>3. v \in Int /\ (retry_cnt[c] = NoReg => v = NoReg)
  BY <1>1, <1>2, SMT DEF NoReg
<1>4. /\ step' = [step EXCEPT ![c] = "idle"] /\ rsp' = [rsp EXCEPT ![c] = GetHostResponse_new]
      /\ retry_cnt' = [retry_cnt EXCEPT ![c] = v] /\ got' = got
  BY <1>1, Zenon DEF Fail
<1>5. got' = [b \in Client |-> got'[b]]
  BY <1>2, <1>4, Zenon
<1>6. InCall'
  BY <1>3, <1>4, <1>5, Ends, Zenon
<1> QED
  BY <1>4, <1>6, GotSame, Zenon

\* A call that returns an answer returns one that fits its request.
LEMMA Returns ==
    ASSUME ApiInv, NEW c \in Client, calls' = calls, _seqid' = _seqid, req' = req,
           NEW ret, NEW route, NEW d, Return(c, ret, route, d),
           NEW g, g = [call |-> d.note.call, said |-> d.note.said, ret |-> ret, route |-> route],
           Got(c, g)
    PROVE  InCall' /\ GotHolds'
<1>1. PICK v : v = IF retry_cnt[c] = NoReg \/ route # <<>> THEN NoReg ELSE retry_cnt[c] + 1
  BY Zenon
<1>2. retry_cnt \in [Client -> Int] /\ got = [b \in Client |-> got[b]] /\ GotHolds
  BY Zenon DEF ApiInv, InCall
<1>3. v \in Int /\ (retry_cnt[c] = NoReg => v = NoReg)
  BY <1>1, <1>2, SMT DEF NoReg
<1>4. /\ step' = [step EXCEPT ![c] = "idle"] /\ rsp' = [rsp EXCEPT ![c] = GetHostResponse_new]
      /\ retry_cnt' = [retry_cnt EXCEPT ![c] = v] /\ got' = [got EXCEPT ![c] = <<g>>]
  BY <1>1, Zenon DEF Return
<1>5. /\ got' = [b \in Client |-> got'[b]] /\ got'[c] = <<g>>
      /\ \A b \in Client : b # c => got'[b] = got[b]
  BY <1>2, <1>4, Zenon
<1>6. InCall'
  BY <1>3, <1>4, <1>5, Ends, Zenon
<1>7. ASSUME NEW b \in Client PROVE got'[b] = <<>> \/ \E e : got'[b] = <<e>> /\ Got(b, e)'
  BY <1>2, <1>5, GotKept, Zenon DEF GotHolds
<1>8. GotHolds'
  BY <1>7, Zenon DEF GotHolds
<1> QED
  BY <1>6, <1>8, Zenon

\* What an answer says, printed.
LEMMA PrintedHosts ==
    ASSUME NEW hosts
    PROVE  /\ Printed("get_host", hosts) =
                  [k \in DOMAIN hosts |-> [ip |-> inet_ntoa(hosts[k].ip), port |-> hosts[k].port]]
           /\ hosts \in Seq(HostInfos) =>
                  Printed("get_route", hosts) =
                      [k \in DOMAIN hosts |-> [ip |-> inet_ntoa(ntohl(hosts[k].ip)), port |-> hosts[k].port]]
           /\ hosts = <<>> => Printed("get_host", hosts) = <<>>
<1>1. Printed("get_host", hosts) =
          [k \in DOMAIN hosts |-> [ip |-> inet_ntoa(hosts[k].ip), port |-> hosts[k].port]]
  BY Zenon DEF Printed
<1>2. ASSUME hosts \in Seq(HostInfos)
      PROVE  Printed("get_route", hosts) =
                 [k \in DOMAIN hosts |-> [ip |-> inet_ntoa(ntohl(hosts[k].ip)), port |-> hosts[k].port]]
  <2>1. ASSUME NEW k \in DOMAIN hosts PROVE inet_ntoa(ntohl(hosts[k].ip)) = Swapped(inet_ntoa(hosts[k].ip))
    <3>1. hosts[k] \in HostInfos
      BY <1>2, SMT
    <3>2. hosts[k].ip \in INT32
      BY <3>1, SMT DEF HostInfos
    <3> QED
      BY <3>2, TurnedRound, Zenon
  <2>2. Printed("get_route", hosts) =
            [k \in DOMAIN hosts |-> [ip |-> Swapped(inet_ntoa(hosts[k].ip)), port |-> hosts[k].port]]
    BY Zenon DEF Printed
  <2> QED
    BY <2>1, <2>2, Zenon
<1>3. ASSUME hosts = <<>> PROVE Printed("get_host", hosts) = <<>>
  <2>1. DOMAIN hosts = {}
    BY <1>3, SMT
  <2>2. Printed("get_host", hosts) = [k \in {} |-> [ip |-> inet_ntoa(hosts[k].ip), port |-> hosts[k].port]]
    BY <1>1, <2>1, Zenon
  <2>3. \A f : f = [k \in {} |-> f[k]] => f = <<>>
    BY SMT
  <2> QED
    BY <2>2, <2>3, Zenon
<1> QED
  BY <1>1, <1>2, <1>3, Zenon

\* get_host reads a datagram: with its own number it is the answer to this call.
LEMMA HostReceived ==
    ASSUME Faithful, ApiInv, NEW c \in Client, NEW d, AtClient(c, d), req[c].f = "get_host", recv_host(c, d),
           calls' = calls, _seqid' = _seqid, req' = req
    PROVE  InCall' /\ GotHolds'
<1>1. InCall
  BY Zenon DEF ApiInv
<1>2. PICK p : p = ParseFromArray(GetHostResponse, d.body, rsp[c])
  BY Zenon
<1>3. PICK r : r = p.msg
  BY Zenon
<1>4. PICK hosts : hosts = [k \in DOMAIN r.host |-> [ip |-> inet_ntoa(r.host[k].ip), port |-> r.host[k].port]]
  BY Zenon
<1>5. IF d.msgid # ID_GetHostResponse \/ ~p.ok THEN Fail(c)
      ELSE IF Older(c, r.seq)
      THEN rsp' = [rsp EXCEPT ![c] = r] /\ UNCHANGED <<step, got, retry_cnt>>
      ELSE IF r.seq # req[c].seq \/ <<r.modid, r.cmdid>> # req[c].mod THEN Fail(c)
      ELSE Return(c, r.retcode, IF r.retcode = RET_SUCC THEN hosts ELSE <<>>, d)
  BY <1>2, <1>3, <1>4, Zenon DEF recv_host
<1>6. ASSUME Fail(c) PROVE InCall' /\ GotHolds'
  BY <1>6, Fails, Zenon
<1>7. ASSUME IsRouteAnswer(d) PROVE InCall' /\ GotHolds'
  <2>1. PICK m \in Mod, n \in Nat, said \in RouteAnswer :
            d = Datagram(GetRouteResponse, ID_API_GetRouteResponse, TellRoute(m, said),
                         [call |-> n, said |-> said])
    BY <1>7, Zenon DEF IsRouteAnswer
  <2>2. d.msgid = ID_API_GetRouteResponse
    <3>1. Carries(d, GetRouteResponse, ID_API_GetRouteResponse, TellRoute(m, said),
                  [call |-> n, said |-> said])
      BY <2>1, RouteAnswerCarries, Zenon
    <3> QED
      BY <3>1, Zenon DEF Carries
  <2> QED
    BY <1>5, <1>6, <2>2, Ids, Zenon
<1>8. ASSUME IsHostAnswer(c, d) PROVE InCall' /\ GotHolds'
  <2>1. PICK m \in Mod, s \in UINT31, n \in Nat, said \in HostAnswer :
            /\ Own(c, s, n)
            /\ d = Datagram(GetHostResponse, ID_GetHostResponse, TellHost(s, m, said),
                            [call |-> n, said |-> said])
    BY <1>8, Zenon DEF IsHostAnswer
  <2>2. PICK note : note = [call |-> n, said |-> said]
    BY Zenon
  <2>3. Carries(d, GetHostResponse, ID_GetHostResponse, TellHost(s, m, said), note)
    BY <2>1, <2>2, HostAnswerCarries, Zenon
  <2>4. DOMAIN rsp[c] = DOMAIN GetHostResponse.new
    BY <1>1, Zenon DEF InCall
  <2>5. d.msgid = ID_GetHostResponse /\ p.ok = TRUE /\ r = TellHost(s, m, said) /\ d.note = note
    BY <1>2, <1>3, <2>3, <2>4, Zenon DEF Carries
  <2>6. /\ r = [seq |-> s, modid |-> m[1], cmdid |-> m[2], retcode |-> said.ret, host |-> said.host]
    BY <2>5, Zenon DEF TellHost
  <2>7. r.seq = s /\ r.retcode = said.ret /\ r.host = said.host
    BY <2>6, SMT
  <2>8. ASSUME rsp' = [rsp EXCEPT ![c] = r] /\ UNCHANGED <<step, got, retry_cnt>>
        PROVE  InCall' /\ GotHolds'
    <3>1. /\ rsp = [b \in Client |-> rsp[b]]
          /\ \A b \in Client : DOMAIN rsp[b] = DOMAIN GetHostResponse.new
      BY <1>1, Zenon DEF InCall
    <3>2. DOMAIN r = {"seq", "modid", "cmdid", "retcode", "host"}
      BY <2>6, SMT
    <3>3. DOMAIN GetHostResponse.new = {"seq", "modid", "cmdid", "retcode", "host"}
      BY SMT DEF GetHostResponse, GetHostResponse_new
    <3>4. DOMAIN r = DOMAIN GetHostResponse.new
      BY <3>2, <3>3, Zenon
    <3>5. /\ rsp' = [b \in Client |-> rsp'[b]] /\ rsp'[c] = r
          /\ \A b \in Client : b # c => rsp'[b] = rsp[b]
      BY <2>8, <3>1, Zenon
    <3>6. \A b \in Client : DOMAIN rsp'[b] = DOMAIN GetHostResponse.new
      BY <3>1, <3>4, <3>5, Zenon
    <3>7. step' = step /\ got' = got /\ retry_cnt' = retry_cnt
      BY <2>8, Zenon
    <3>8. rsp' = [b \in Client |-> rsp'[b]]
      BY <3>5, Zenon
    <3>9. InCall'
      BY <1>1, <3>6, <3>7, <3>8, Zenon DEF InCall
    <3> QED
      BY <3>7, <3>9, GotSame, Zenon
  <2>9. ASSUME r.seq = req[c].seq,
               Return(c, r.retcode, IF r.retcode = RET_SUCC THEN hosts ELSE <<>>, d)
        PROVE  InCall' /\ GotHolds'
    <3>1. PICK route : route = IF r.retcode = RET_SUCC THEN hosts ELSE <<>>
      BY Zenon
    <3>2. PICK g : g = [call |-> d.note.call, said |-> d.note.said, ret |-> said.ret, route |-> route]
      BY Zenon
    <3>3. note.call = n /\ note.said = said
      BY <2>2, Zenon
    <3>4. g.call = n /\ g.said = said /\ g.ret = said.ret /\ g.route = route
      BY <2>5, <3>2, <3>3, SMT
    <3>5. n = calls[c]
      BY <2>1, <2>7, <2>9, Zenon DEF Own
    <3>6. said.host \in Seq(HostInfos) /\ (said.ret # RET_SUCC => said.host = <<>>)
      BY Parts, Zenon
    <3>7. hosts = Printed("get_host", said.host)
      BY <1>4, <2>7, PrintedHosts, Zenon
    <3>8. route = Printed("get_host", said.host)
      <4>1. CASE said.ret = RET_SUCC
        BY <2>7, <3>1, <3>7, <4>1, Zenon
      <4>2. CASE said.ret # RET_SUCC
        <5>1. route = <<>> /\ said.host = <<>>
          BY <2>7, <3>1, <3>6, <4>2, Zenon
        <5> QED
          BY <5>1, PrintedHosts, Zenon
      <4> QED
        BY <4>1, <4>2, Zenon
    <3>9. Got(c, g)
      BY <3>4, <3>5, <3>6, <3>8, Zenon DEF Got
    <3>10. Return(c, said.ret, route, d)
      BY <2>7, <2>9, <3>1, Zenon
    <3> QED
      BY <3>2, <3>9, <3>10, Returns, Zenon
  <2> QED
    BY <1>5, <1>6, <2>5, <2>8, <2>9, Zenon
<1> QED
  BY <1>7, <1>8, Zenon DEF AtClient

\* get_route takes any answer for its module.
LEMMA RouteReceived ==
    ASSUME Faithful, ApiInv, NEW c \in Client, NEW d, AtClient(c, d), req[c].f = "get_route", recv_route(c, d),
           calls' = calls, _seqid' = _seqid, req' = req
    PROVE  InCall' /\ GotHolds'
<1>1. PICK p : p = ParseFromArray(GetRouteResponse, d.body, GetRouteResponse_new)
  BY Zenon
<1>2. PICK r : r = p.msg
  BY Zenon
<1>3. PICK route : route = [k \in DOMAIN r.host |->
                               [ip |-> inet_ntoa(ntohl(r.host[k].ip)), port |-> r.host[k].port]]
  BY Zenon
<1>4. IF d.msgid # ID_API_GetRouteResponse \/ ~p.ok \/ <<r.modid, r.cmdid>> # req[c].mod
      THEN Fail(c) ELSE Return(c, RET_SUCC, route, d)
  BY <1>1, <1>2, <1>3, Zenon DEF recv_route
<1>5. ASSUME Fail(c) PROVE InCall' /\ GotHolds'
  BY <1>5, Fails, Zenon
<1>6. ASSUME IsHostAnswer(c, d) PROVE InCall' /\ GotHolds'
  <2>1. PICK m \in Mod, s \in UINT31, n \in Nat, said \in HostAnswer :
            d = Datagram(GetHostResponse, ID_GetHostResponse, TellHost(s, m, said),
                         [call |-> n, said |-> said])
    BY <1>6, Zenon DEF IsHostAnswer
  <2>2. d.msgid = ID_GetHostResponse
    <3>1. Carries(d, GetHostResponse, ID_GetHostResponse, TellHost(s, m, said),
                  [call |-> n, said |-> said])
      BY <2>1, HostAnswerCarries, Zenon
    <3> QED
      BY <3>1, Zenon DEF Carries
  <2> QED
    BY <1>4, <1>5, <2>2, Ids, Zenon
<1>7. ASSUME IsRouteAnswer(d) PROVE InCall' /\ GotHolds'
  <2>1. PICK m \in Mod, n \in Nat, said \in RouteAnswer :
            d = Datagram(GetRouteResponse, ID_API_GetRouteResponse, TellRoute(m, said),
                         [call |-> n, said |-> said])
    BY <1>7, Zenon DEF IsRouteAnswer
  <2>2. PICK note : note = [call |-> n, said |-> said]
    BY Zenon
  <2>3. Carries(d, GetRouteResponse, ID_API_GetRouteResponse, TellRoute(m, said), note)
    BY <2>1, <2>2, RouteAnswerCarries, Zenon
  <2>4. GetRouteResponse.new = GetRouteResponse_new
    BY SMT DEF GetRouteResponse
  <2>5. r = TellRoute(m, said) /\ d.note = note
    BY <1>1, <1>2, <2>3, <2>4, Zenon DEF Carries
  <2>6. r.host = said.host
    BY <2>5, SMT DEF TellRoute
  <2>7. ASSUME Return(c, RET_SUCC, route, d) PROVE InCall' /\ GotHolds'
    <3>1. PICK g : g = [call |-> d.note.call, said |-> d.note.said, ret |-> RET_SUCC, route |-> route]
      BY Zenon
    <3>2. note.call = n /\ note.said = said
      BY <2>2, Zenon
    <3>3. g.call = n /\ g.said = said /\ g.ret = RET_SUCC /\ g.route = route
      BY <2>5, <3>1, <3>2, SMT
    <3>4. said.host \in Seq(HostInfos) /\ said.ret = RET_SUCC
      BY Parts, Zenon
    <3>5. route = Printed("get_route", said.host)
      BY <1>3, <2>6, <3>4, PrintedHosts, Zenon
    <3>6. req[c].f # "get_host"
      BY Zenon
    <3>7. Got(c, g)
      BY <3>3, <3>4, <3>5, <3>6, Zenon DEF Got
    <3> QED
      BY <2>7, <3>1, <3>7, Returns, Zenon
  <2> QED
    BY <1>4, <1>5, <2>7, Zenon
<1> QED
  BY <1>6, <1>7, Zenon DEF AtClient

\* A datagram read by get_host or get_route keeps the invariant
\* (lars_api.cpp:93-137,210-257).
LEMMA Received == ASSUME Faithful, ApiInv, NEW c \in Client, recv(c) PROVE ApiInv'
<1>1. InCall /\ SocketTypes /\ SocketHolds
  BY Zenon DEF ApiInv
<1>2. PICK u : u = Index(req[c].mod)
  BY Zenon
<1>3. PICK d : d = Head(socket[c][u])
  BY Zenon
<1>4. /\ step[c] = "recv" /\ socket[c][u] # <<>> /\ socket' = [socket EXCEPT ![c][u] = Tail(@)]
      /\ \/ req[c].f = "get_host" /\ recv_host(c, d)
         \/ req[c].f = "get_route" /\ recv_route(c, d)
      /\ calls' = calls /\ _seqid' = _seqid /\ req' = req /\ server' = server
  BY <1>2, <1>3, Zenon DEF recv, recvfrom, Inbox
<1>5. req[c].mod \in Mod
  BY <1>1, <1>4, Zenon DEF InCall
<1>6. u \in Udp
  BY <1>2, <1>5, Parts, Zenon
<1>7. socket[c][u] \in Seq(Datagrams)
  BY <1>1, <1>6, Zenon DEF SocketTypes
<1>8. 1 \in 1 .. Len(socket[c][u]) /\ d = socket[c][u][1]
  BY <1>3, <1>4, <1>7, TailWithin, Zenon
<1>9. AtClient(c, d)
  BY <1>1, <1>6, <1>8, Zenon DEF SocketHolds
<1>10. InCall' /\ GotHolds'
  BY <1>4, <1>9, HostReceived, RouteReceived, Zenon
<1>11. OwnGoesOn
  BY <1>4, OwnSame, Zenon
<1>12. ServerTypes' /\ ServerHolds'
  BY <1>4, <1>11, ServerSame, Zenon
<1>13. SocketTypes' /\ SocketHolds'
  BY <1>4, <1>6, <1>11, SocketTaken, Zenon
<1> QED
  BY <1>10, <1>12, <1>13, Zenon DEF ApiInv

\* recvfrom fails, and reg_init gives up.
LEMMA GivesUp ==
    ASSUME ApiInv, NEW c \in Client, recv_error(c) \/ reg_init_end(c) PROVE ApiInv'
<1>1. calls' = calls /\ _seqid' = _seqid /\ req' = req /\ server' = server /\ socket' = socket
  BY Zenon DEF recv_error, reg_init_end
<1>2. InCall' /\ GotHolds'
  <2>1. ASSUME recv_error(c) PROVE InCall' /\ GotHolds'
    BY <1>1, <2>1, Fails, Zenon DEF recv_error
  <2>2. ASSUME reg_init_end(c) PROVE InCall' /\ GotHolds'
    <3>1. /\ retry_cnt' = [retry_cnt EXCEPT ![c] = NoReg] /\ step' = step /\ rsp' = rsp /\ got' = got
      BY <2>2, Zenon DEF reg_init_end
    <3>2. InCall
      BY Zenon DEF ApiInv
    <3>3. /\ retry_cnt \in [Client -> Int]
          /\ \A b \in Client : retry_cnt[b] # NoReg => req[b].f = "get_route"
      BY <3>2, Zenon DEF InCall
    <3>4. NoReg \in Int
      BY SMT DEF NoReg
    <3>5. /\ retry_cnt' \in [Client -> Int] /\ retry_cnt'[c] = NoReg
          /\ \A b \in Client : b # c => retry_cnt'[b] = retry_cnt[b]
      BY <3>1, <3>3, <3>4, Zenon
    <3>6. \A b \in Client : retry_cnt'[b] # NoReg => req'[b].f = "get_route"
      BY <1>1, <3>3, <3>5, Zenon
    <3>7. InCall'
      BY <1>1, <3>1, <3>2, <3>5, <3>6, Zenon DEF InCall
    <3> QED
      BY <1>1, <3>1, <3>7, GotSame, Zenon
  <2> QED
    BY <2>1, <2>2, Zenon
<1>3. OwnGoesOn
  BY <1>1, OwnSame, Zenon
<1>4. ServerTypes' /\ ServerHolds' /\ SocketTypes' /\ SocketHolds'
  BY <1>1, <1>3, ServerSame, SocketSame, Zenon
<1> QED
  BY <1>2, <1>4, Zenon DEF ApiInv

-----------------------------------------------------------------------------
(* The step of a server                                                    *)

\* An answer goes to the socket of the client that asked, or nowhere.
LEMMA Answered ==
    ASSUME ApiInv, OwnGoesOn, NEW c \in Client, NEW u \in Udp, NEW n, NEW note,
           note.from = c, note.call = n, NEW T, NEW id, NEW msg, NEW said,
           NEW d \in Datagrams, d = Datagram(T, id, msg, [call |-> n, said |-> said]),
           AtClient(c, d)', send_message(u, note, T, id, msg, said)
    PROVE  SocketTypes' /\ SocketHolds'
<1>1. socket' = socket \/ socket' = [socket EXCEPT ![c][u] = Append(@, d)]
  BY Zenon DEF send_message
<1> QED
  BY <1>1, SocketSame, SocketPut, Zenon

\* Only a request for a host has the id of one.
LEMMA ServerIds ==
    ASSUME NEW u, NEW d, AtServer(u, d)
    PROVE  /\ d.msgid = ID_GetHostRequest => IsHostRequest(d)
           /\ d.msgid = ID_API_GetRouteRequest => IsRouteRequest(d)
           /\ d.msgid = ID_ReportRequest => IsReport(u, d)
<1>1. ASSUME IsHostRequest(d) PROVE d.msgid = ID_GetHostRequest
  BY <1>1, SMT DEF IsHostRequest, Datagram
<1>2. ASSUME IsRouteRequest(d) PROVE d.msgid = ID_API_GetRouteRequest
  BY <1>2, SMT DEF IsRouteRequest, Datagram
<1>3. ASSUME IsReport(u, d) PROVE d.msgid = ID_ReportRequest
  BY <1>3, SMT DEF IsReport, Datagram
<1> QED
  BY <1>1, <1>2, <1>3, Ids, Zenon DEF AtServer

\* get_host_cb answers with the number and the module it was asked with
\* (agent_udp_server.cpp:16-39).
LEMMA HostAnswered ==
    ASSUME Faithful, ApiInv, OwnGoesOn, NEW u \in Udp, NEW d, IsHostRequest(d), get_host_cb(u, d)
    PROVE  SocketTypes' /\ SocketHolds'
<1>1. PICK c \in Client, m \in Mod, s \in UINT31, n \in Nat :
          /\ Own(c, s, n)
          /\ d = Datagram(GetHostRequest, ID_GetHostRequest, AskHost(s, m), [from |-> c, call |-> n])
  BY Zenon DEF IsHostRequest
<1>2. PICK note : note = [from |-> c, call |-> n]
  BY Zenon
<1>3. Carries(d, GetHostRequest, ID_GetHostRequest, AskHost(s, m), note)
  BY <1>1, <1>2, HostRequestCarries, Zenon
<1>4. GetHostRequest.new = GetHostRequest_new
  BY SMT DEF GetHostRequest
<1>5. d.note = note /\ ParseFromArray(GetHostRequest, d.body, GetHostRequest_new).msg = AskHost(s, m)
  BY <1>3, <1>4, Zenon DEF Carries
<1>6. AskHost(s, m).seq = s /\ AskHost(s, m).modid = m[1] /\ AskHost(s, m).cmdid = m[2]
  BY SMT DEF AskHost
<1>7. PICK said \in HostAnswer :
          send_message(u, note, GetHostResponse, ID_GetHostResponse, TellHost(s, m, said), said)
  BY <1>5, <1>6, Zenon DEF get_host_cb, TellHost
<1>8. PICK e : e = Datagram(GetHostResponse, ID_GetHostResponse, TellHost(s, m, said),
                            [call |-> n, said |-> said])
  BY Zenon
<1>9. PICK answer : answer = [call |-> n, said |-> said]
  BY Zenon
<1>10. Carries(e, GetHostResponse, ID_GetHostResponse, TellHost(s, m, said), answer)
  BY <1>8, <1>9, HostAnswerCarries, Zenon
<1>11. e \in Datagrams
  BY <1>10, Zenon DEF Carries
<1>12. Own(c, s, n)'
  BY <1>1, Zenon DEF OwnGoesOn
<1>13. AtClient(c, e)'
  BY <1>8, <1>12, Zenon DEF AtClient, IsHostAnswer
<1>14. note.from = c /\ note.call = n
  BY <1>2, Zenon
<1> QED
  BY <1>7, <1>8, <1>11, <1>13, <1>14, Answered, Zenon

\* get_route_cb answers with the module it was asked with
\* (agent_udp_server.cpp:42-64).
LEMMA RouteAnswered ==
    ASSUME Faithful, ApiInv, OwnGoesOn, NEW u \in Udp, NEW d, IsRouteRequest(d), get_route_cb(u, d)
    PROVE  SocketTypes' /\ SocketHolds'
<1>1. PICK c \in Client, m \in Mod, n \in Nat :
          d = Datagram(GetRouteRequest, ID_API_GetRouteRequest, AskRoute(m), [from |-> c, call |-> n])
  BY Zenon DEF IsRouteRequest
<1>2. PICK note : note = [from |-> c, call |-> n]
  BY Zenon
<1>3. Carries(d, GetRouteRequest, ID_API_GetRouteRequest, AskRoute(m), note)
  BY <1>1, <1>2, RouteRequestCarries, Zenon
<1>4. GetRouteRequest.new = GetRouteRequest_new
  BY SMT DEF GetRouteRequest
<1>5. d.note = note /\ ParseFromArray(GetRouteRequest, d.body, GetRouteRequest_new).msg = AskRoute(m)
  BY <1>3, <1>4, Zenon DEF Carries
<1>6. AskRoute(m).modid = m[1] /\ AskRoute(m).cmdid = m[2]
  BY SMT DEF AskRoute
<1>7. PICK said \in RouteAnswer :
          send_message(u, note, GetRouteResponse, ID_API_GetRouteResponse,
                       [modid |-> m[1], cmdid |-> m[2],
                        host |-> [k \in DOMAIN said.host |-> CopyFrom(HostInfo, HostInfo_new, said.host[k])]],
                       said)
  BY <1>5, <1>6, Zenon DEF get_route_cb
<1>8. [k \in DOMAIN said.host |-> CopyFrom(HostInfo, HostInfo_new, said.host[k])] = said.host
  <2>1. said.host \in Seq(HostInfos)
    BY Parts, Zenon
  <2>2. said.host = [k \in DOMAIN said.host |-> said.host[k]]
    BY <2>1, SMT
  <2>3. \A k \in DOMAIN said.host : said.host[k] \in HostInfos
    BY <2>1, SMT
  <2>4. \A k \in DOMAIN said.host : CopyFrom(HostInfo, HostInfo_new, said.host[k]) = said.host[k]
    BY <2>3, HostInfoCopied, Zenon
  <2> QED
    BY <2>2, <2>4, Zenon
<1>9. send_message(u, note, GetRouteResponse, ID_API_GetRouteResponse, TellRoute(m, said), said)
  BY <1>7, <1>8, Zenon DEF TellRoute
<1>10. PICK e : e = Datagram(GetRouteResponse, ID_API_GetRouteResponse, TellRoute(m, said),
                             [call |-> n, said |-> said])
  BY Zenon
<1>11. PICK answer : answer = [call |-> n, said |-> said]
  BY Zenon
<1>12. Carries(e, GetRouteResponse, ID_API_GetRouteResponse, TellRoute(m, said), answer)
  BY <1>10, <1>11, RouteAnswerCarries, Zenon
<1>13. e \in Datagrams
  BY <1>12, Zenon DEF Carries
<1>14. AtClient(c, e)'
  BY <1>10, Zenon DEF AtClient, IsRouteAnswer
<1>15. note.from = c /\ note.call = n
  BY <1>2, Zenon
<1> QED
  BY <1>9, <1>10, <1>13, <1>14, <1>15, Answered, Zenon

\* do_read with its callbacks keeps the invariant (udp_server.cpp:63-100).
LEMMA ServerReads == ASSUME Faithful, ApiInv, NEW u \in Udp, do_read(u) PROVE ApiInv'
<1>1. InCall /\ ServerTypes /\ ServerHolds
  BY Zenon DEF ApiInv
<1>2. PICK d : d = Head(server[u])
  BY Zenon
<1>3. /\ server[u] # <<>> /\ server' = [server EXCEPT ![u] = Tail(@)]
      /\ UNCHANGED <<calls, _seqid, step, req, rsp, retry_cnt, got>>
  BY Zenon DEF do_read, server_recvfrom
<1>4. \/ d.msgid = ID_GetHostRequest /\ get_host_cb(u, d)
      \/ d.msgid = ID_API_GetRouteRequest /\ get_route_cb(u, d)
      \/ socket' = socket
  <2>1. (CASE WellFormed(d) /\ d.msgid = ID_GetHostRequest -> get_host_cb(u, d)
           [] WellFormed(d) /\ d.msgid = ID_API_GetRouteRequest -> get_route_cb(u, d)
           [] OTHER -> UNCHANGED <<socket, lost>>)
    BY <1>2, Zenon DEF do_read
  <2> QED
    BY <2>1, Ids, Zenon
<1>5. server[u] \in Seq(Datagrams)
  BY <1>1, Zenon DEF ServerTypes
<1>6. 1 \in 1 .. Len(server[u]) /\ d = server[u][1]
  BY <1>2, <1>3, <1>5, TailWithin, Zenon
<1>7. AtServer(u, d)
  BY <1>1, <1>6, Zenon DEF ServerHolds
<1>8. OwnGoesOn
  BY <1>3, OwnSame, Zenon
<1>9. ServerTypes' /\ ServerHolds'
  BY <1>3, <1>8, ServerTaken, Zenon
<1>10. SocketTypes' /\ SocketHolds'
  BY <1>4, <1>7, <1>8, ServerIds, HostAnswered, RouteAnswered, SocketSame, Zenon
<1>11. InCall'
  BY <1>1, <1>3, Zenon DEF InCall
<1>12. GotHolds'
  BY <1>3, GotSame, Zenon
<1> QED
  BY <1>9, <1>10, <1>11, <1>12, Zenon DEF ApiInv

-----------------------------------------------------------------------------
(* The theorems                                                            *)

\* At the start nobody has called and nothing is on its way.
LEMMA ApiInitInv == ASSUME ApiInit PROVE ApiInv
<1>1. /\ calls = [c \in Client |-> 0] /\ _seqid = [c \in Client |-> 0]
      /\ step = [c \in Client |-> "idle"]
      /\ req = [c \in Client |-> [f |-> "none", mod |-> <<0, 0>>, seq |-> 0]]
      /\ rsp = [c \in Client |-> GetHostResponse_new]
      /\ retry_cnt = [c \in Client |-> NoReg] /\ got = [c \in Client |-> <<>>]
      /\ server = [u \in Udp |-> <<>>] /\ socket = [c \in Client |-> [u \in Udp |-> <<>>]]
  BY Zenon DEF ApiInit
<1>2. 0 \in UINT31 /\ MaxCalls \in UINT31 /\ 0 <= MaxCalls /\ NoReg \in Int /\ 0 <= 0
  BY ApiAssumption, SMT DEF UINT31, NoReg
<1>3. GetHostResponse.new = GetHostResponse_new
  BY SMT DEF GetHostResponse
<1>4. PICK r : r = [f |-> "none", mod |-> <<0, 0>>, seq |-> 0]
  BY Zenon
<1>5. r \in [f : {"none", "get_host", "get_route"}, mod : Nat \X Nat, seq : UINT31] /\ r.f = "none"
  BY <1>2, <1>4, SMT
<1>6. req = [c \in Client |-> r]
  BY <1>1, <1>4, Zenon
<1>7. InCall
  BY <1>1, <1>2, <1>3, <1>5, <1>6, Zenon DEF InCall
<1>8. <<>> \in Seq(Datagrams) /\ \A k \in 1 .. Len(<<>>) : FALSE
  BY SMT
<1>9. ServerTypes /\ SocketTypes
  BY <1>1, <1>8, Zenon DEF ServerTypes, SocketTypes
<1>10. ServerHolds
  BY <1>1, <1>8, Zenon DEF ServerHolds
<1>11. SocketHolds
  BY <1>1, <1>8, Zenon DEF SocketHolds
<1>12. GotHolds
  BY <1>1, Zenon DEF GotHolds
<1> QED
  BY <1>7, <1>9, <1>10, <1>11, <1>12, Zenon DEF ApiInv

\* Every step of a client and of a server keeps the invariant.
LEMMA ApiNextInv == ASSUME Faithful, ApiInv, [ApiNext]_apiVars PROVE ApiInv'
<1>1. ASSUME NEW c \in Client, NEW m \in Mod, get_host(c, m) PROVE ApiInv'
  BY <1>1, HostCalled, Zenon
<1>2. ASSUME NEW c \in Client, NEW m \in Mod, get_route(c, m) \/ reg_init(c, m) PROVE ApiInv'
  BY <1>2, Registered, Zenon
<1>3. ASSUME NEW c \in Client, reg_init_again(c) PROVE ApiInv'
  BY <1>3, Registered, Zenon
<1>4. ASSUME NEW c \in Client, NEW k, NEW retcode \in Codes, report(c, k, retcode) PROVE ApiInv'
  BY <1>4, Reported, Zenon
<1>5. ASSUME NEW c \in Client, recv_error(c) \/ reg_init_end(c) PROVE ApiInv'
  BY <1>5, GivesUp, Zenon
<1>6. ASSUME NEW c \in Client, recv(c) PROVE ApiInv'
  BY <1>6, Received, Zenon
<1>7. ASSUME NEW u \in Udp, do_read(u) PROVE ApiInv'
  BY <1>7, ServerReads, Zenon
<1>8. ASSUME UNCHANGED apiVars PROVE ApiInv'
  <2>1. /\ calls' = calls /\ _seqid' = _seqid /\ step' = step /\ req' = req /\ rsp' = rsp
        /\ retry_cnt' = retry_cnt /\ server' = server /\ socket' = socket /\ got' = got
    BY <1>8, Zenon DEF apiVars
  <2>2. OwnGoesOn
    BY <2>1, OwnSame, Zenon
  <2>3. InCall'
    BY <2>1, Zenon DEF ApiInv, InCall
  <2>4. GotHolds'
    BY <2>1, GotSame, Zenon
  <2>5. ServerTypes' /\ ServerHolds' /\ SocketTypes' /\ SocketHolds'
    BY <2>1, <2>2, ServerSame, SocketSame, Zenon
  <2> QED
    BY <2>3, <2>4, <2>5, Zenon DEF ApiInv
<1> QED
  BY <1>1, <1>2, <1>3, <1>4, <1>5, <1>6, <1>7, <1>8, Zenon DEF ApiNext, Codes

\* The invariant gives the three properties.
LEMMA InvHostAnswersAreOwn == ASSUME ApiInv PROVE HostAnswersAreOwn
<1>1. ASSUME NEW c \in Client, got[c] # <<>>, req[c].f = "get_host" PROVE got[c][1].call = calls[c]
  <2>1. PICK g : got[c] = <<g>> /\ Got(c, g)
    BY <1>1, Zenon DEF ApiInv, GotHolds
  <2>2. got[c][1] = g
    BY <2>1, SMT
  <2> QED
    BY <1>1, <2>1, <2>2, Zenon DEF Got
<1> QED
  BY <1>1, Zenon DEF HostAnswersAreOwn

\* inet_ntoa prints the octets of a number in the reverse of the order in which
\* the database means them (lars_api.cpp:131-132, utils.go:9-12).
LEMMA AddressOfNumber ==
    \A n : Swapped(inet_ntoa(n)) = InetNtoA(n) /\ Swapped(InetNtoA(n)) = inet_ntoa(n)
BY SMT DEF Swapped, inet_ntoa, InetNtoA

\* What is printed, by the addresses the numbers stand for (lars_api.cpp:131-132,244).
LEMMA PrintedAddress ==
    ASSUME NEW f, NEW hosts
    PROVE  Printed(f, hosts) =
               [k \in DOMAIN hosts |->
                   [ip |-> IF f = "get_host" THEN Swapped(InetNtoA(hosts[k].ip))
                           ELSE InetNtoA(hosts[k].ip),
                    port |-> hosts[k].port]]
<1>1. \A k : /\ inet_ntoa(hosts[k].ip) = Swapped(InetNtoA(hosts[k].ip))
            /\ Swapped(inet_ntoa(hosts[k].ip)) = InetNtoA(hosts[k].ip)
  BY AddressOfNumber, Zenon
<1> QED
  BY <1>1, SMT DEF Printed

\* The invariant says of an answer taken that the call returned what was said.
LEMMA InvReturnsWhatWasSaid == ASSUME ApiInv PROVE ReturnsWhatWasSaid
<1>1. ASSUME NEW c \in Client, NEW k \in DOMAIN got[c], NEW g, g = got[c][k]
      PROVE  g.ret = g.said.ret /\ g.route = Printed(req[c].f, g.said.host)
  <2>1. got[c] # <<>>
    BY <1>1, SMT
  <2>2. PICK e : got[c] = <<e>> /\ Got(c, e)
    BY <2>1, Zenon DEF ApiInv, GotHolds
  <2>3. g = e
    BY <1>1, <2>2, SMT
  <2> QED
    BY <2>2, <2>3, Zenon DEF Got
<1>2. ASSUME NEW c \in Client, NEW k \in DOMAIN got[c]
      PROVE  /\ got[c][k].ret = got[c][k].said.ret
             /\ got[c][k].route =
                    [n \in DOMAIN got[c][k].said.host |->
                        [ip |-> IF req[c].f = "get_host" THEN Swapped(InetNtoA(got[c][k].said.host[n].ip))
                                ELSE InetNtoA(got[c][k].said.host[n].ip),
                         port |-> got[c][k].said.host[n].port]]
  <2>1. PICK g : g = got[c][k]
    BY Zenon
  <2>2. g.ret = g.said.ret /\ g.route = Printed(req[c].f, g.said.host)
    BY <1>1, <2>1, Zenon
  <2> QED
    BY <2>1, <2>2, PrintedAddress, Zenon
<1> QED
  BY <1>2, Zenon DEF ReturnsWhatWasSaid

\* A report is far below the limit on a message.
LEMMA ShortEnough ==
    ASSUME NEW n \in Nat, n <= 61
    PROVE  n \in 0 .. MESSAGE_LENGTH_LIMIT /\ n + MESSAGE_HEAD_LEN = MESSAGE_HEAD_LEN + n
<1>1. MESSAGE_LENGTH_LIMIT \in Nat /\ 61 <= MESSAGE_LENGTH_LIMIT /\ MESSAGE_HEAD_LEN \in Nat
  BY SMT DEF MESSAGE_LENGTH_LIMIT, MESSAGE_HEAD_LEN
<1> QED
  BY <1>1, SMT

\* What ReportNamesHost says of datagram d, with message r and note n, at server i.
NamesHost(u, d, r, n) ==
    /\ WellFormed(d) /\ u = Index(<<r.modid, r.cmdid>>)
    /\ <<r.modid, r.cmdid>> = n.mod /\ r.retcode = n.retcode
    /\ r.host = <<IF n.by = "get_host" THEN n.host ELSE [n.host EXCEPT !.ip = ntohl(@)]>>

\* The invariant says of a report at a server which host it names.
LEMMA InvReportNamesHost == ASSUME Faithful, ApiInv PROVE ReportNamesHost
<1>1. ASSUME NEW u \in Udp, NEW k \in DOMAIN server[u], NEW d, d = server[u][k],
             NEW r, r = ParseFromArray(ReportRequest, d.body, ReportRequest_new).msg,
             NEW n, n = d.note, d.msgid = ID_ReportRequest
      PROVE  NamesHost(u, d, r, n)
  <2>1. server[u] \in Seq(Datagrams) /\ ServerHolds
    BY Zenon DEF ApiInv, ServerTypes
  <2>2. k \in 1 .. Len(server[u])
    BY <2>1, SMT
  <2>3. IsReport(u, d)
    BY <1>1, <2>1, <2>2, ServerIds, Zenon DEF ServerHolds
  <2>4. PICK m \in Mod, h \in HostInfos, by \in {"get_host", "get_route"}, retcode \in Codes :
            /\ u = Index(m)
            /\ d = Datagram(ReportRequest, ID_ReportRequest, TellReport(m, Ip(by, h), h.port, retcode),
                            [by |-> by, mod |-> m, host |-> h, retcode |-> retcode])
    BY <2>3, Zenon DEF IsReport
  <2>5. PICK note : note = [by |-> by, mod |-> m, host |-> h, retcode |-> retcode]
    BY Zenon
  <2>6. d = Datagram(ReportRequest, ID_ReportRequest, TellReport(m, Ip(by, h), h.port, retcode), note)
    BY <2>4, <2>5, Zenon
  <2>7. /\ Carries(d, ReportRequest, ID_ReportRequest, TellReport(m, Ip(by, h), h.port, retcode), note)
        /\ d.msglen \in Nat /\ d.msglen <= 61
    BY <2>5, <2>6, ReportCarries, Zenon
  <2>8. ReportRequest.new = ReportRequest_new
    BY SMT DEF ReportRequest
  <2>9. r = TellReport(m, Ip(by, h), h.port, retcode) /\ n = note /\ d.msglen = Len(d.body)
    BY <1>1, <2>7, <2>8, Zenon DEF Carries
  <2>10. WellFormed(d)
    BY <2>7, <2>9, ShortEnough, Zenon DEF WellFormed
  <2>11. n.by = by /\ n.mod = m /\ n.host = h /\ n.retcode = retcode
    BY <2>5, <2>9, Zenon
  <2>12. /\ r.modid = m[1] /\ r.cmdid = m[2] /\ r.retcode = retcode
         /\ r.host = <<[ip |-> Ip(by, h), port |-> h.port]>>
    BY <2>9, SMT DEF TellReport
  <2>13. <<m[1], m[2]>> = m
    BY Parts, Zenon
  <2>14. [ip |-> Ip(by, h), port |-> h.port] =
             IF by = "get_host" THEN h ELSE [h EXCEPT !.ip = ntohl(@)]
    <3>1. h = [ip |-> h.ip, port |-> h.port] /\ \A v : [h EXCEPT !.ip = v] = [ip |-> v, port |-> h.port]
      BY SMT DEF HostInfos
    <3> QED
      BY <3>1, Zenon DEF Ip
  <2> QED
    BY <2>4, <2>10, <2>11, <2>12, <2>13, <2>14, Zenon DEF NamesHost
<1>2. ASSUME NEW u \in Udp, NEW k \in DOMAIN server[u]
      PROVE  LET d == server[u][k]
                 r == ParseFromArray(ReportRequest, d.body, ReportRequest_new).msg
                 n == d.note
             IN  d.msgid = ID_ReportRequest =>
                     /\ WellFormed(d) /\ u = Index(<<r.modid, r.cmdid>>)
                     /\ <<r.modid, r.cmdid>> = n.mod /\ r.retcode = n.retcode
                     /\ r.host = <<IF n.by = "get_host" THEN n.host
                                  ELSE [n.host EXCEPT !.ip = ntohl(@)]>>
  <2>1. PICK d : d = server[u][k]
    BY Zenon
  <2>2. PICK r : r = ParseFromArray(ReportRequest, d.body, ReportRequest_new).msg
    BY Zenon
  <2>3. PICK n : n = d.note
    BY Zenon
  <2> SUFFICES ASSUME d.msgid = ID_ReportRequest PROVE NamesHost(u, d, r, n)
    BY <2>1, <2>2, <2>3, Zenon DEF NamesHost
  <2> QED
    BY <1>1, <2>1, <2>2, <2>3, Zenon
<1> QED
  BY <1>2, Zenon DEF ReportNamesHost

\* Calls, requests, reports and answers are always as ApiInv says.
THEOREM SpecApiInv == Faithful => (ApiSpec => []ApiInv)
<1> SUFFICES ASSUME Faithful PROVE ApiSpec => []ApiInv
  OBVIOUS
<1>1. ApiInit => ApiInv
  BY ApiInitInv, Zenon
<1>2. ApiInv /\ [ApiNext]_apiVars => ApiInv'
  BY ApiNextInv, Zenon
<1> QED
  BY <1>1, <1>2, PTL DEF ApiSpec

\* What get_host returns is the answer to the request it has just sent, for
\* any clients, modules and hosts and any losses and failures
\* (lars_api.cpp:93-123).
THEOREM SpecHostAnswersAreOwn == Faithful => (ApiSpec => []HostAnswersAreOwn)
<1> SUFFICES ASSUME Faithful PROVE ApiSpec => []HostAnswersAreOwn
  OBVIOUS
<1>1. ApiInv => HostAnswersAreOwn
  BY InvHostAnswersAreOwn, Zenon
<1> QED
  BY <1>1, SpecApiInv, PTL

\* A call returns the code and the hosts the agent said, through encoding,
\* decoding and printing, get_host with the octets of each address reversed
\* (lars_api.cpp:111-136,226-254, utils.go:9-12).
THEOREM SpecReturnsWhatWasSaid == Faithful => (ApiSpec => []ReturnsWhatWasSaid)
<1> SUFFICES ASSUME Faithful PROVE ApiSpec => []ReturnsWhatWasSaid
  OBVIOUS
<1>1. ApiInv => ReturnsWhatWasSaid
  BY InvReturnsWhatWasSaid, Zenon
<1> QED
  BY <1>1, SpecApiInv, PTL

\* A report at a server's socket is one do_read accepts, at the server of its
\* module, and names the host the agent answered with: as it is held, when
\* get_host returned it (lars_api.cpp:140-170, udp_server.cpp:56-69).
THEOREM SpecReportNamesHost == Faithful => (ApiSpec => []ReportNamesHost)
<1> SUFFICES ASSUME Faithful PROVE ApiSpec => []ReportNamesHost
  OBVIOUS
<1>1. ApiInv => ReportNamesHost
  BY InvReportNamesHost, Zenon
<1> QED
  BY <1>1, SpecApiInv, PTL

-----------------------------------------------------------------------------
-----------------------------------------------------------------------------
(* Sequences                                                               *)

\* The positions and the elements of a sequence.
LEMMA SeqPlaces ==
    ASSUME NEW S, NEW s \in Seq(S)
    PROVE  /\ Len(s) \in Nat /\ DOMAIN s = 1 .. Len(s) /\ s \in [1 .. Len(s) -> S]
           /\ \A k \in 1 .. Len(s) : s[k] \in S
OBVIOUS

\* What a queue is after a push, after a pop, and when two are put together.
LEMMA SeqOps ==
    ASSUME NEW S, NEW s \in Seq(S)
    PROVE  /\ \A e \in S : Append(s, e) \in Seq(S)
           /\ s # <<>> => Head(s) \in S /\ Tail(s) \in Seq(S)
           /\ \A t \in Seq(S) : s \o t \in Seq(S)
OBVIOUS

\* Nothing is added by an empty queue.
LEMMA SeqEmpty == ASSUME NEW S, NEW s \in Seq(S) PROVE s \o <<>> = s /\ <<>> \o s = s
OBVIOUS

-----------------------------------------------------------------------------
(* What a report is when it has been parsed                                *)

\* CopyFrom into a new HostCallResult copies (load_balance::commit).
LEMMA HostCallResultCopied ==
    ASSUME NEW m \in HostCallResults PROVE CopyFrom(HostCallResult, HostCallResult_new, m) = m
<1>1. DOMAIN m = DOMAIN HostCallResult_new /\ m = [f \in DOMAIN m |-> m[f]]
  BY DEF HostCallResults, HostCallResult_new
<1>2. HostCallResult.merge = DOMAIN HostCallResult_new /\ HostCallResult.new = HostCallResult_new
  BY DEF HostCallResult, HostCallResult_merge, HostCallResult_new
<1>3. ASSUME NEW f \in DOMAIN HostCallResult_new PROVE Clear(HostCallResult, HostCallResult_new)[f] = HostCallResult_new[f]
  BY <1>2, Zenon DEF Clear
<1>4. CopyFrom(HostCallResult, HostCallResult_new, m) = [f \in DOMAIN HostCallResult_new |-> m[f]]
  BY <1>2, <1>3, Zenon DEF CopyFrom
<1> QED
  BY <1>1, <1>4, Zenon

\* What commit puts into a report: the idle hosts, then the overloaded ones.
LEMMA ResultsAre ==
    ASSUME NEW lb \in LbType
    PROVE  /\ Results(lb) \in Seq(HostCallResults)
           /\ Len(Results(lb)) = Len(lb.idle_list) + Len(lb.overload_list)
           /\ Len(lb.idle_list) \in Nat /\ Len(lb.overload_list) \in Nat
           /\ \A k \in 1 .. Len(Results(lb)) :
                 Results(lb)[k] = IF k <= Len(lb.idle_list) THEN CallResult(lb.idle_list[k], FALSE)
                                  ELSE CallResult(lb.overload_list[k - Len(lb.idle_list)], TRUE)
<1> DEFINE idle == Len(lb.idle_list)
           n == idle + Len(lb.overload_list)
           Of(k) == IF k <= idle THEN CallResult(lb.idle_list[k], FALSE)
                    ELSE CallResult(lb.overload_list[k - idle], TRUE)
<1>1. lb.idle_list \in Seq(HostInfoType) /\ lb.overload_list \in Seq(HostInfoType)
  BY DEF LbType
<1>2. idle \in Nat /\ Len(lb.overload_list) \in Nat
  BY <1>1, SeqPlaces, Zenon
<1>3. ASSUME NEW h \in HostInfoType, NEW overload \in BOOLEAN
      PROVE  CallResult(h, overload) \in HostCallResults
  BY DEF CallResult, HostInfoType, HostCallResults
<1>4. ASSUME NEW k \in 1 .. n PROVE Of(k) \in HostCallResults
  <2>1. CASE k <= idle
    <3>1. k \in 1 .. idle
      BY <1>2, <2>1
    <3>2. lb.idle_list[k] \in HostInfoType
      BY <1>1, <3>1, SeqPlaces, Zenon
    <3> QED
      BY <1>3, <2>1, <3>2, Zenon
  <2>2. CASE ~(k <= idle)
    <3>1. ASSUME NEW p \in Nat, NEW q \in Nat, k \in 1 .. p + q, ~(k <= p)
          PROVE  k - p \in 1 .. q
      BY <3>1
    <3>3. k - idle \in 1 .. Len(lb.overload_list)
      BY <1>2, <2>2, <3>1, Zenon
    <3>2. lb.overload_list[k - idle] \in HostInfoType
      BY <1>1, <3>3, SeqPlaces, Zenon
    <3> QED
      BY <1>3, <2>2, <3>2, Zenon
  <2> QED
    BY <2>1, <2>2, Zenon
<1>5. Results(lb) = [k \in 1 .. n |-> CopyFrom(HostCallResult, HostCallResult_new, Of(k))]
  BY Zenon DEF Results
<1> HIDE DEF n, Of
<1>6. Results(lb) = [k \in 1 .. n |-> Of(k)]
  BY <1>4, <1>5, HostCallResultCopied, Zenon
<1>7. [k \in 1 .. n |-> Of(k)] \in Seq(HostCallResults) /\ Len([k \in 1 .. n |-> Of(k)]) = n
  <2> DEFINE f == [k \in 1 .. n |-> Of(k)]
  <2>1. n \in Nat
    <3>1. ASSUME NEW p \in Nat, NEW q \in Nat PROVE p + q \in Nat
      OBVIOUS
    <3> QED
      BY <1>2, <3>1, Zenon DEF n
  <2>2. f \in [1 .. n -> HostCallResults]
    BY <1>4, Zenon
  <2> HIDE DEF f
  <2>3. f \in Seq(HostCallResults) /\ Len(f) = n
    BY <2>1, <2>2
  <2> QED
    BY <2>3, Zenon DEF f
<1>8. Len(Results(lb)) = n /\ Results(lb) \in Seq(HostCallResults)
  BY <1>6, <1>7, Zenon
<1>9. \A k \in 1 .. Len(Results(lb)) : Results(lb)[k] = Of(k)
  BY <1>6, <1>8, Zenon
<1> QED
  BY <1>2, <1>8, <1>9, Zenon DEF n, Of

Item(a, n) == [from |-> a, no |-> n, req |-> commit(Lb[<<a, n>>])]
Items == {Item(r[1], r[2]) : r \in Report}

\* A report is parsed to what was committed (get_report_status).
LEMMA ParsedIs == ASSUME Faithful, NEW a \in Agent, NEW n \in 1 .. MaxReports PROVE Parsed(a, n) = Item(a, n)
<1>1. <<a, n>> \in Report
  BY Zenon DEF Report
<1>2. Lb[<<a, n>>] \in LbType
  BY <1>1, ReporterAssumption, Zenon DEF Report
<1> DEFINE m == commit(Lb[<<a, n>>])
<1>3. m \in ReportStatusRequests
  <2>1. Results(Lb[<<a, n>>]) \in Seq(HostCallResults)
    BY <1>2, ResultsAre, Zenon
  <2>2. 127 \in INT32
    BY DEF INT32
  <2>3. Lb[<<a, n>>].modid \in INT32 /\ Lb[<<a, n>>].cmdid \in INT32 /\ Lb[<<a, n>>].ts \in UINT31
    BY <1>2 DEF LbType
  <2> QED
    BY <2>1, <2>2, <2>3 DEF commit, ReportStatusRequests
<1>4. Survives(ReportStatusRequest, m)
  BY <1>3, Zenon DEF Faithful
<1>5. DOMAIN ReportStatusRequest_new = DOMAIN ReportStatusRequest.new
  BY DEF ReportStatusRequest
<1>6. Message[<<a, n>>] = ToArray(ReportStatusRequest, m)
  BY <1>1, Zenon DEF Message
<1> HIDE DEF m
<1>7. ParseFromArray(ReportStatusRequest, Message[<<a, n>>], ReportStatusRequest_new).msg = m
  BY <1>4, <1>5, <1>6, Zenon DEF Survives
<1> QED
  BY <1>7, Zenon DEF Parsed, Item, m

\* An element of a queue is a report and says what was committed.
LEMMA ItemIs ==
    ASSUME NEW x \in Items
    PROVE  /\ x.from \in Agent /\ x.no \in 1 .. MaxReports /\ <<x.from, x.no>> \in Report
           /\ Lb[<<x.from, x.no>>] \in LbType /\ x.req = commit(Lb[<<x.from, x.no>>])
           /\ x.req.results = Results(Lb[<<x.from, x.no>>])
<1>1. PICK r \in Report : x = Item(r[1], r[2])
  BY Zenon DEF Items
<1>2. r = <<r[1], r[2]>> /\ r[1] \in Agent /\ r[2] \in 1 .. MaxReports
  BY DEF Report
<1>3. x.from = r[1] /\ x.no = r[2] /\ x.req = commit(Lb[<<r[1], r[2]>>])
  BY <1>1 DEF Item
<1>4. x.req.results = Results(Lb[<<r[1], r[2]>>])
  BY <1>3 DEF commit
<1>5. Lb[<<r[1], r[2]>>] \in LbType
  BY <1>2, ReporterAssumption, Zenon
<1> QED
  BY <1>2, <1>3, <1>4, <1>5, Zenon

\* A statement writes what a list of the load_balance held.
LEMMA Stated ==
    ASSUME NEW x \in Items, NEW k \in 1 .. Len(Results(Lb[<<x.from, x.no>>]))
    PROVE  Said(Key(x.req, x.req.results[k]), Columns(x.req, x.req.results[k]), Lb[<<x.from, x.no>>])
<1> DEFINE lb == Lb[<<x.from, x.no>>]
           result == x.req.results[k]
           idle == Len(lb.idle_list)
<1>1. lb \in LbType /\ x.req = commit(lb) /\ result = Results(lb)[k]
  BY ItemIs, Zenon
<1>2. /\ idle \in Nat /\ Len(lb.overload_list) \in Nat /\ k \in 1 .. idle + Len(lb.overload_list)
      /\ result = IF k <= idle THEN CallResult(lb.idle_list[k], FALSE)
                  ELSE CallResult(lb.overload_list[k - idle], TRUE)
  BY <1>1, ResultsAre, Zenon
<1>3. /\ x.req.modid = lb.modid /\ x.req.cmdid = lb.cmdid
      /\ x.req.caller = 127 /\ x.req.ts = lb.ts
  BY <1>1 DEF commit
<1>4. lb.idle_list \in Seq(HostInfoType) /\ lb.overload_list \in Seq(HostInfoType)
  BY <1>1 DEF LbType
<1> HIDE DEF lb, result, idle
<1>5. ASSUME NEW h, NEW overload \in BOOLEAN, result = CallResult(h, overload)
      PROVE  RowSays(Key(x.req, result), Columns(x.req, result), lb, h, IF overload THEN 1 ELSE 0)
  <2>1. /\ result.ip = h.ip /\ result.port = h.port /\ result.succ = h.rsucc
        /\ result.err = h.rerr /\ result.overload = overload
    BY <1>5, Zenon DEF CallResult
  <2> QED
    BY <1>3, <2>1, Zenon DEF RowSays, Key, Columns
<1>6. CASE k <= idle
  <2>1. k \in DOMAIN lb.idle_list
    <3>1. k \in 1 .. idle
      BY <1>2, <1>6
    <3> QED
      BY <1>4, <3>1, SeqPlaces, Zenon DEF idle
  <2>2. RowSays(Key(x.req, result), Columns(x.req, result), lb, lb.idle_list[k], 0)
    BY <1>2, <1>5, <1>6, Zenon
  <2> QED
    BY <2>1, <2>2, Zenon DEF Said, lb, result
<1>7. CASE ~(k <= idle)
  <2>1. k - idle \in DOMAIN lb.overload_list
    <3>1. ASSUME NEW q \in Nat, k \in 1 .. idle + q PROVE k - idle \in 1 .. q
      BY <1>2, <1>7, <3>1
    <3>2. k - idle \in 1 .. Len(lb.overload_list)
      BY <1>2, <3>1, Zenon
    <3> QED
      BY <1>4, <3>2, SeqPlaces, Zenon
  <2>2. RowSays(Key(x.req, result), Columns(x.req, result), lb, lb.overload_list[k - idle], 1)
    BY <1>2, <1>5, <1>7, Zenon
  <2> QED
    BY <2>1, <2>2, Zenon DEF Said, lb, result
<1> QED
  BY <1>6, <1>7, Zenon

-----------------------------------------------------------------------------
(* The inductive invariant                                                 *)

Steps == {"epoll", "send", "sent", "count", "counted", "wrap"}
Types ==
    /\ index \in Nat
    /\ received \in [Agent -> 0 .. MaxReports]
    /\ pc \in [Agent -> Steps] /\ i \in [Agent -> Nat]
    /\ \A a \in Agent : pc[a] = "send" => received[a] \in 1 .. MaxReports
    /\ reportQueues \in [Thread -> Seq(Items)] /\ batch \in [Thread -> Seq(Items)]
    /\ stored \in [Thread -> Nat]
    /\ tries \in [Report -> Seq(Nat)]
    /\ \A r \in Report : DOMAIN tries[r] = 1 .. Len(Results(Lb[r]))

\* A thread is before a result of the first request of its batch.
Begun ==
    \A t \in Thread :
        \/ stored[t] = 0
        \/ batch[t] # <<>> /\ stored[t] < Len(Head(batch[t]).req.results)

\* What waits has arrived, and a report still to be handed over is newer.
Arrived ==
    \A t \in Thread : \A k \in 1 .. Len(Line[t]) :
        LET x == Line[t][k]
        IN  x.no <= received[x.from] /\ (pc[x.from] = "send" => x.no < received[x.from])

\* The reports of an agent wait in the order of their arrival.
InOrder ==
    \A t \in Thread : \A j, k \in 1 .. Len(Line[t]) :
        j < k /\ Line[t][j].from = Line[t][k].from => Line[t][j].no < Line[t][k].no

\* No report waits for two threads.
OneThread ==
    \A t, u \in Thread : \A j \in 1 .. Len(Line[t]), k \in 1 .. Len(Line[u]) :
        Line[t][j].from = Line[u][k].from /\ Line[t][j].no = Line[u][k].no => t = u

\* Whether a report has not been handed over, waits or is done with is what
\* has been tried of it.
Untried(r) == \A m \in DOMAIN tries[r] : tries[r][m] = 0
Done(r) == \A m \in DOMAIN tries[r] : tries[r][m] = 1
TriedUpto(r, n) == \A m \in DOMAIN tries[r] : tries[r][m] = (IF m <= n THEN 1 ELSE 0)
NotYet(r) == received[r[1]] < r[2] \/ HandedOver(r[1], r[2])
WaitsAt(r, t, k) == Line[t][k].from = r[1] /\ Line[t][k].no = r[2]
Tried ==
    /\ \A r \in Report : NotYet(r) => Untried(r)
    /\ \A t \in Thread : \A k \in 1 .. Len(Line[t]) : \A r \in Report :
          WaitsAt(r, t, k) => TriedUpto(r, IF k = 1 THEN stored[t] ELSE 0)
    /\ \A r \in Report :
          \/ NotYet(r) \/ Done(r)
          \/ \E t \in Thread : \E k \in 1 .. Len(Line[t]) : WaitsAt(r, t, k)

\* The last report a thread has written of an agent is not newer than those of
\* the agent that wait for it.
Newest ==
    \A r \in DOMAIN last :
        /\ r[1] \in Agent /\ last[r].by \in Thread /\ last[r].no \in Nat
        /\ last[r].no <= received[r[1]]
        /\ \A k \in 1 .. Len(Line[last[r].by]) :
              Line[last[r].by][k].from = r[1] => last[r].no <= Line[last[r].by][k].no

Inv ==
    /\ Types /\ Begun /\ Arrived /\ InOrder /\ OneThread /\ Tried /\ Newest
    /\ RowHoldsReport /\ IndexNamesQueue

-----------------------------------------------------------------------------
(* How the steps change the line of a thread                               *)

GrownBy(old, new, x) ==
    /\ Len(new) = Len(old) + 1 /\ new[Len(old) + 1] = x
    /\ \A k \in 1 .. Len(old) : new[k] = old[k]
ShrunkTo(old, new) ==
    /\ Len(old) >= 1 /\ Len(new) = Len(old) - 1
    /\ \A k \in 1 .. Len(old) - 1 : new[k] = old[k + 1]

\* A request put into the queue behind the batch is the last of the line.
LEMMA GlueAppend ==
    ASSUME NEW S, NEW b \in Seq(S), NEW q \in Seq(S), NEW x \in S
    PROVE  GrownBy(b \o q, b \o Append(q, x), x)
<1>1. /\ Append(q, x) \in Seq(S) /\ Len(Append(q, x)) = Len(q) + 1
      /\ \A k \in 1 .. Len(q) : Append(q, x)[k] = q[k]
      /\ Append(q, x)[Len(q) + 1] = x
  OBVIOUS
<1>2. Len(b) \in Nat /\ Len(q) \in Nat
  OBVIOUS
<1>3. Len(b \o q) = Len(b) + Len(q) /\ Len(b \o Append(q, x)) = Len(b) + Len(q) + 1
  BY <1>1, <1>2
<1>4. ASSUME NEW k \in 1 .. Len(b \o q) PROVE (b \o Append(q, x))[k] = (b \o q)[k]
  <2>1. CASE k <= Len(b)
    BY <1>1, <1>2, <1>3, <2>1
  <2>2. CASE ~(k <= Len(b))
    BY <1>1, <1>2, <1>3, <2>2
  <2> QED
    BY <2>1, <2>2
<1>5. (b \o Append(q, x))[Len(b \o q) + 1] = x
  BY <1>1, <1>2, <1>3
<1> QED
  BY <1>3, <1>4, <1>5 DEF GrownBy

\* Without the first request of the batch every other moves up.
LEMMA GlueTail ==
    ASSUME NEW S, NEW b \in Seq(S), NEW q \in Seq(S), b # <<>>
    PROVE  /\ ShrunkTo(b \o q, Tail(b) \o q)
           /\ (b \o q)[1] = Head(b) /\ Head(b) \in S
<1>1. /\ Tail(b) \in Seq(S) /\ Len(Tail(b)) = Len(b) - 1 /\ Len(b) >= 1
      /\ \A k \in 1 .. Len(b) - 1 : Tail(b)[k] = b[k + 1]
      /\ Head(b) = b[1] /\ Head(b) \in S
  OBVIOUS
<1>2. Len(b) \in Nat /\ Len(q) \in Nat
  OBVIOUS
<1>3. Len(b \o q) = Len(b) + Len(q) /\ Len(Tail(b) \o q) = Len(b) - 1 + Len(q)
  BY <1>1, <1>2
<1>4. (b \o q)[1] = Head(b)
  BY <1>1, <1>2
<1>5. ASSUME NEW k \in 1 .. Len(b \o q) - 1 PROVE (Tail(b) \o q)[k] = (b \o q)[k + 1]
  <2>1. CASE k <= Len(b) - 1
    BY <1>1, <1>2, <1>3, <2>1
  <2>2. CASE ~(k <= Len(b) - 1)
    BY <1>1, <1>2, <1>3, <2>2
  <2> QED
    BY <2>1, <2>2
<1> QED
  BY <1>1, <1>2, <1>3, <1>4, <1>5 DEF ShrunkTo

Others(t) == \A u \in Thread : u # t => Line'[u] = Line[u]
Grown(t, x) ==
    Others(t) /\ t \in Thread /\ GrownBy(Line[t], Line'[t], x)
Shrunk(t) ==
    Others(t) /\ t \in Thread /\ ShrunkTo(Line[t], Line'[t])

\* The lines hold reports.
LEMMA LineIs ==
    ASSUME Types, NEW t \in Thread
    PROVE  /\ Line[t] = batch[t] \o reportQueues[t] /\ Line[t] \in Seq(Items)
           /\ Len(Line[t]) \in Nat /\ \A k \in 1 .. Len(Line[t]) : Line[t][k] \in Items
<1>1. batch[t] \in Seq(Items) /\ reportQueues[t] \in Seq(Items)
  BY Zenon DEF Types
<1>2. Line[t] = batch[t] \o reportQueues[t]
  BY Zenon DEF Line
<1>3. batch[t] \o reportQueues[t] \in Seq(Items)
  BY <1>1, SeqOps, Zenon
<1> DEFINE s == Line[t]
<1>4. s \in Seq(Items)
  BY <1>2, <1>3, Zenon
<1> HIDE DEF s
<1>5. Len(s) \in Nat
  BY <1>4, SeqPlaces, Zenon
<1>6. \A k \in 1 .. Len(s) : s[k] \in Items
  BY <1>4, SeqPlaces, Zenon
<1> QED
  BY <1>2, <1>4, <1>5, <1>6, Zenon DEF s

\* send puts the request at the end of one line (thread_queue::send).
LEMMA LineSend ==
    ASSUME Faithful, Types, NEW a \in Agent, send(a)
    PROVE  Grown(i[a], Item(a, received[a])) /\ <<a, received[a]>> \in Report
<1> DEFINE t == i[a]
           b == batch[t]
           q == reportQueues[t]
           x == Item(a, received[a])
<1>1. t \in Thread /\ b \in Seq(Items) /\ q \in Seq(Items)
  BY Zenon DEF Types, send
<1>2. received[a] \in 1 .. MaxReports
  BY Zenon DEF Types, send
<1>3. <<a, received[a]>> \in Report /\ <<a, received[a]>>[1] = a /\ <<a, received[a]>>[2] = received[a]
  BY <1>2 DEF Report
<1>4. x \in Items
  BY <1>3, Zenon DEF Items
<1>5. /\ batch' = batch /\ reportQueues \in [Thread -> Seq(Items)]
      /\ reportQueues' = [reportQueues EXCEPT ![t] = Append(q, x)]
  BY <1>2, ParsedIs, Zenon DEF send, Types
<1>6. reportQueues'[t] = Append(q, x) /\ \A u \in Thread : u # t => reportQueues'[u] = reportQueues[u]
  BY <1>1, <1>5, Zenon
<1>7. \A u \in Thread : Line[u] = batch[u] \o reportQueues[u] /\ Line'[u] = batch[u] \o reportQueues'[u]
  BY <1>5, Zenon DEF Line
<1>8. Others(t)
  BY <1>6, <1>7, Zenon DEF Others
<1>9. Line[t] = b \o q /\ Line'[t] = b \o Append(q, x)
  BY <1>1, <1>6, <1>7, Zenon
<1> HIDE DEF b, q, x, t
<1>10. GrownBy(b \o q, b \o Append(q, x), x)
  BY <1>1, <1>4, GlueAppend, Zenon
<1>11. Grown(t, x)
  BY <1>1, <1>8, <1>9, <1>10, Zenon DEF Grown
<1> QED
  BY <1>3, <1>11, Zenon DEF t, x

\* recv moves the requests from the queue to the batch, in their order.
LEMMA LineTake == ASSUME Types, NEW t \in Thread, thread_report(t) PROVE Line' = Line
<1>1. reportQueues \in [Thread -> Seq(Items)] /\ batch \in [Thread -> Seq(Items)]
  BY Zenon DEF Types
<1>2. /\ batch[t] = <<>> /\ batch' = [batch EXCEPT ![t] = reportQueues[t]]
      /\ reportQueues' = [reportQueues EXCEPT ![t] = <<>>]
  BY Zenon DEF thread_report
<1>3. ASSUME NEW u \in Thread
      PROVE  batch'[u] \o reportQueues'[u] = batch[u] \o reportQueues[u]
  <2>1. CASE u # t
    BY <1>1, <1>2, <2>1, Zenon
  <2>2. CASE u = t
    <3>1. batch'[u] = reportQueues[t] /\ reportQueues'[u] = <<>>
      BY <1>1, <1>2, <2>2, Zenon
    <3>2. reportQueues[t] \in Seq(Items)
      BY <1>1, Zenon
    <3>3. ASSUME NEW q \in Seq(Items) PROVE q \o <<>> = q /\ <<>> \o q = q
      BY SeqEmpty, Zenon
    <3> QED
      BY <1>2, <2>2, <3>1, <3>2, <3>3, Zenon
  <2> QED
    BY <2>1, <2>2
<1> QED
  BY <1>3, Zenon DEF Line

\* pop takes the first request off the line of its thread.
LEMMA LinePop ==
    ASSUME Types, NEW t \in Thread, batch[t] # <<>>,
           batch' = [batch EXCEPT ![t] = Tail(@)], reportQueues' = reportQueues
    PROVE  Shrunk(t)
<1> DEFINE b == batch[t]
           q == reportQueues[t]
<1>1. b \in Seq(Items) /\ q \in Seq(Items) /\ batch \in [Thread -> Seq(Items)]
  BY Zenon DEF Types
<1>2. batch'[t] = Tail(b) /\ \A u \in Thread : u # t => batch'[u] = batch[u]
  BY <1>1, Zenon
<1>3. \A u \in Thread : Line[u] = batch[u] \o reportQueues[u] /\ Line'[u] = batch'[u] \o reportQueues[u]
  BY Zenon DEF Line
<1>4. Others(t)
  BY <1>2, <1>3, Zenon DEF Others
<1>5. Line[t] = b \o q /\ Line'[t] = Tail(b) \o q
  BY <1>2, <1>3, Zenon
<1>6. b # <<>>
  OBVIOUS
<1> HIDE DEF b, q
<1>7. ShrunkTo(b \o q, Tail(b) \o q)
  BY <1>1, <1>6, GlueTail, Zenon
<1> QED
  BY <1>4, <1>5, <1>7, Zenon DEF Shrunk

\* The request a thread stores is the first of its line.
LEMMA FirstOf ==
    ASSUME Types, NEW t \in Thread, batch[t] # <<>>
    PROVE  1 \in 1 .. Len(Line[t]) /\ Line[t][1] = Head(batch[t]) /\ Head(batch[t]) \in Items
<1> DEFINE b == batch[t]
           q == reportQueues[t]
<1>1. b \in Seq(Items) /\ q \in Seq(Items) /\ b # <<>>
  BY Zenon DEF Types
<1>2. Line[t] = b \o q /\ Len(Line[t]) \in Nat
  BY LineIs, Zenon
<1> HIDE DEF b, q
<1>3. Len(b \o q) >= 1 /\ (b \o q)[1] = Head(b) /\ Head(b) \in Items
  BY <1>1, GlueTail, Zenon DEF ShrunkTo
<1>4. Len(Line[t]) >= 1 /\ Line[t][1] = Head(b)
  BY <1>2, <1>3, Zenon
<1>5. 1 \in 1 .. Len(Line[t])
  BY <1>2, <1>4
<1> QED
  BY <1>3, <1>4, <1>5, Zenon DEF b

-----------------------------------------------------------------------------
(* The steps                                                               *)

\* A report has one place in all lines.
LEMMA OnePlace ==
    ASSUME Inv, NEW r, NEW t \in Thread, NEW j \in 1 .. Len(Line[t]), WaitsAt(r, t, j),
           NEW u \in Thread, NEW k \in 1 .. Len(Line[u]), WaitsAt(r, u, k)
    PROVE  t = u /\ j = k
<1>1. Line[t][j].from = Line[u][k].from /\ Line[t][j].no = Line[u][k].no
  BY Zenon DEF WaitsAt
<1>2. t = u
  BY <1>1, Zenon DEF Inv, OneThread
<1>3. Line[t][j].no \in 1 .. MaxReports /\ Len(Line[t]) \in Nat
  BY LineIs, ItemIs, Zenon DEF Inv
<1>4. ~(j < k)
  <2>1. ASSUME j < k PROVE Line[t][j].no < Line[t][k].no
    BY <1>1, <1>2, <2>1, Zenon DEF Inv, InOrder
  <2> QED
    BY <1>1, <1>2, <1>3, <2>1, ReporterAssumption
<1>5. ~(k < j)
  <2>1. ASSUME k < j PROVE Line[t][k].no < Line[t][j].no
    BY <1>1, <1>2, <2>1, Zenon DEF Inv, InOrder
  <2> QED
    BY <1>1, <1>2, <1>3, <2>1, ReporterAssumption
<1> QED
  BY <1>2, <1>3, <1>4, <1>5

\* What a step that leaves the lines alone keeps.
LEMMA SameLines ==
    ASSUME Inv, Line' = Line
    PROVE  InOrder' /\ OneThread'
BY Zenon DEF Inv, InOrder, OneThread

\* What a step that leaves the table alone keeps.
LEMMA SameTable == ASSUME Inv, table' = table, source' = source PROVE RowHoldsReport'
BY Zenon DEF Inv, RowHoldsReport

\* A step that leaves the index alone and no thread between its two writes.
LEMMA SameIndex ==
    ASSUME Inv, index' = index,
           \A b \in Agent : pc[b] \in {"counted", "wrap"} => pc'[b] \in {"counted", "wrap"}
    PROVE  IndexNamesQueue'
BY Zenon DEF Inv, IndexNamesQueue

\* The counts of statements stay right where no report moves.
LEMMA SameTries ==
    ASSUME Inv, Line' = Line, tries' = tries, stored' = stored,
           \A r \in Report : NotYet(r)' <=> NotYet(r)
    PROVE  Tried'
<1>1. \A r \in Report, n \in Nat : TriedUpto(r, n)' <=> TriedUpto(r, n)
  BY Zenon DEF TriedUpto
<1>2. \A r \in Report : (Untried(r)' <=> Untried(r)) /\ (Done(r)' <=> Done(r))
  BY Zenon DEF Untried, Done
<1>3. ASSUME NEW t \in Thread, NEW k \in 1 .. Len(Line[t]), NEW r \in Report, WaitsAt(r, t, k)
      PROVE  TriedUpto(r, IF k = 1 THEN stored[t] ELSE 0)'
  <2>1. TriedUpto(r, IF k = 1 THEN stored[t] ELSE 0)
    BY <1>3, Zenon DEF Inv, Tried
  <2> QED
    BY <2>1, Zenon DEF TriedUpto
<1>4. \A r \in Report, t \in Thread : \A k \in 1 .. Len(Line[t]) : WaitsAt(r, t, k)' <=> WaitsAt(r, t, k)
  BY Zenon DEF WaitsAt
<1> QED
  BY <1>2, <1>3, <1>4, Zenon DEF Inv, Tried

\* A step that changes nothing but ub.
LEMMA NothingChanged ==
    ASSUME Inv,
           index' = index, received' = received, pc' = pc, i' = i,
           reportQueues' = reportQueues, batch' = batch, stored' = stored,
           table' = table, source' = source, last' = last, tries' = tries
    PROVE  Inv'
<1>1. Line' = Line
  BY Zenon DEF Line
<1>2. Types' /\ Begun' /\ RowHoldsReport' /\ IndexNamesQueue'
  BY Zenon DEF Inv, Types, Begun, RowHoldsReport, IndexNamesQueue
<1>3. Arrived' /\ InOrder' /\ OneThread' /\ Newest'
  BY <1>1, ZenonT(40) DEF Inv, Arrived, InOrder, OneThread, Newest
<1>4. \A r \in Report : NotYet(r)' <=> NotYet(r)
  BY Zenon DEF NotYet, HandedOver
<1>5. Tried'
  BY <1>1, <1>4, SameTries, Zenon
<1> QED
  BY <1>2, <1>3, <1>5, Zenon DEF Inv

\* get_report_status begins.
LEMMA Receives == ASSUME Inv, NEW a \in Agent, get_report_status(a) PROVE Inv'
<1>1. Types
  BY Zenon DEF Inv
<1>2. /\ pc[a] = "epoll" /\ received[a] < MaxReports /\ received' = [received EXCEPT ![a] = @ + 1]
      /\ pc' = [pc EXCEPT ![a] = "send"] /\ i' = [i EXCEPT ![a] = index]
      /\ index' = index /\ reportQueues' = reportQueues /\ batch' = batch /\ stored' = stored
      /\ table' = table /\ source' = source /\ last' = last /\ tries' = tries
  BY Zenon DEF get_report_status, written
<1>3. /\ received \in [Agent -> 0 .. MaxReports] /\ pc \in [Agent -> Steps]
      /\ i \in [Agent -> Nat] /\ index \in Nat
  BY <1>1, Zenon DEF Types
<1>4. Line' = Line
  BY <1>2, Zenon DEF Line
<1>5. /\ received'[a] = received[a] + 1 /\ pc'[a] = "send"
      /\ \A b \in Agent : b # a => received'[b] = received[b] /\ pc'[b] = pc[b]
  BY <1>2, <1>3, Zenon
<1>6. \A b \in Agent : received[b] \in Nat /\ received[b] <= received'[b]
  BY <1>2, <1>3, ReporterAssumption
<1>7. Types'
  <2>1. received[a] + 1 \in 0 .. MaxReports /\ received[a] + 1 \in 1 .. MaxReports
    BY <1>2, <1>3, ReporterAssumption
  <2>2. received' \in [Agent -> 0 .. MaxReports] /\ i' \in [Agent -> Nat]
    BY <1>2, <1>3, <2>1, Zenon
  <2>3. pc' \in [Agent -> Steps]
    BY <1>2, <1>3, Zenon DEF Steps
  <2>4. \A b \in Agent : pc'[b] = "send" => received'[b] \in 1 .. MaxReports
    BY <1>1, <1>5, <2>1, Zenon DEF Types
  <2> QED
    BY <1>1, <1>2, <2>2, <2>3, <2>4, Zenon DEF Types
<1>8. Begun'
  BY <1>2, Zenon DEF Inv, Begun
<1>9. Arrived'
  <2>1. ASSUME NEW t \in Thread, NEW k \in 1 .. Len(Line[t])
        PROVE  /\ Line[t][k].no <= received'[Line[t][k].from]
               /\ pc'[Line[t][k].from] = "send" => Line[t][k].no < received'[Line[t][k].from]
    <3> DEFINE x == Line[t][k]
    <3>1. x.from \in Agent /\ x.no \in 1 .. MaxReports
      BY <1>1, LineIs, ItemIs, Zenon
    <3>2. x.no <= received[x.from] /\ (pc[x.from] = "send" => x.no < received[x.from])
      BY Zenon DEF Inv, Arrived
    <3> HIDE DEF x
    <3>3. ASSUME x.from = a PROVE x.no <= received'[x.from] /\ x.no < received'[x.from]
      BY <1>5, <1>6, <3>1, <3>2, <3>3, ReporterAssumption
    <3>4. ASSUME x.from # a
          PROVE  /\ x.no <= received'[x.from]
                 /\ pc'[x.from] = "send" => x.no < received'[x.from]
      BY <1>5, <3>1, <3>2, <3>4, Zenon
    <3> QED
      BY <3>3, <3>4, Zenon DEF x
  <2> QED
    BY <1>4, <2>1, Zenon DEF Arrived
<1>10. InOrder' /\ OneThread'
  BY <1>4, SameLines, Zenon
<1>11. Tried'
  <2>1. ASSUME NEW r \in Report PROVE NotYet(r)' <=> NotYet(r)
    <3>1. r[1] \in Agent /\ r[2] \in 1 .. MaxReports
      BY DEF Report
    <3>2. CASE r[1] = a
      BY <1>2, <1>5, <1>6, <3>1, <3>2, ReporterAssumption DEF NotYet, HandedOver
    <3>3. CASE r[1] # a
      BY <1>5, <3>1, <3>3, Zenon DEF NotYet, HandedOver
    <3> QED
      BY <3>2, <3>3, Zenon
  <2> QED
    BY <1>2, <1>4, <2>1, SameTries, Zenon
<1>12. Newest'
  <2>1. ASSUME NEW r \in DOMAIN last PROVE last[r].no <= received'[r[1]]
    <3>1. r[1] \in Agent /\ last[r].no \in Nat /\ last[r].no <= received[r[1]]
      BY Zenon DEF Inv, Newest
    <3> QED
      BY <1>3, <1>6, <3>1, <1>5
  <2> QED
    BY <1>2, <1>4, <2>1, Zenon DEF Inv, Newest
<1>13. RowHoldsReport' /\ IndexNamesQueue'
  BY <1>2, <1>5, SameTable, SameIndex, Zenon
<1> QED
  BY <1>7, <1>8, <1>9, <1>10, <1>11, <1>12, <1>13, Zenon DEF Inv

\* The index is counted and wrapped.
LEMMA Counts ==
    ASSUME Inv, NEW a \in Agent, read_index(a) \/ count_index(a) \/ wrap_index(a)
    PROVE  Inv'
<1>1. Types
  BY Zenon DEF Inv
<1>2. /\ pc[a] # "send"
      /\ \E to \in {"count", "counted", "wrap", "epoll"} : pc' = [pc EXCEPT ![a] = to]
      /\ received' = received /\ reportQueues' = reportQueues /\ batch' = batch
      /\ stored' = stored /\ table' = table /\ source' = source /\ last' = last /\ tries' = tries
  BY Zenon DEF read_index, count_index, wrap_index, written
<1>3. index' \in Nat /\ i' \in [Agent -> Nat] /\ IndexNamesQueue'
  <2>1. index \in Nat /\ i \in [Agent -> Nat] /\ i[a] \in Nat /\ 0 \in Nat
    BY <1>1, Zenon DEF Types
  <2>2. pc \in [Agent -> Steps]
    BY <1>1, Zenon DEF Types
  <2>3. CASE read_index(a)
    <3>1. /\ index' = index /\ i' = [i EXCEPT ![a] = index]
          /\ pc' = [pc EXCEPT ![a] = IF @ = "sent" THEN "count" ELSE "wrap"]
          /\ pc[a] \in {"sent", "counted"}
      BY <2>3, Zenon DEF read_index
    <3>2. \A b \in Agent : pc[b] \in {"counted", "wrap"} => pc'[b] \in {"counted", "wrap"}
      BY <2>2, <3>1, Zenon
    <3> QED
      BY <2>1, <3>1, <3>2, SameIndex, Zenon
  <2>4. CASE count_index(a)
    <3>1. /\ index' = i[a] + 1 /\ i' = [i EXCEPT ![a] = 0]
          /\ pc' = [pc EXCEPT ![a] = "counted"]
      BY <2>4, Zenon DEF count_index
    <3>2. pc'[a] = "counted" /\ i' \in [Agent -> Nat]
      BY <2>1, <2>2, <3>1, Zenon
    <3>3. index' \in Nat
      BY <2>1, <3>1
    <3> QED
      BY <3>2, <3>3, Zenon DEF IndexNamesQueue
  <2>5. CASE wrap_index(a)
    <3>1. index' = i[a] % thread_cnt /\ i' = [i EXCEPT ![a] = 0]
      BY <2>5, Zenon DEF wrap_index, Wrapped
    <3>2. i[a] % thread_cnt \in 0 .. thread_cnt - 1 /\ i[a] % thread_cnt \in Nat
      BY <2>1, ReporterAssumption
    <3>3. i' \in [Agent -> Nat]
      BY <2>1, <3>1, Zenon
    <3> QED
      BY <3>1, <3>2, <3>3, Zenon DEF IndexNamesQueue, Thread
  <2> QED
    BY <2>3, <2>4, <2>5, Zenon
<1>4. pc \in [Agent -> Steps]
  BY <1>1, Zenon DEF Types
<1>5. /\ pc' \in [Agent -> Steps]
      /\ \A b \in Agent : pc'[b] = "send" <=> pc[b] = "send"
  <2>1. PICK to \in {"count", "counted", "wrap", "epoll"} : pc' = [pc EXCEPT ![a] = to]
    BY <1>2, Zenon
  <2>2. to \in Steps /\ to # "send"
    BY DEF Steps
  <2> QED
    BY <1>2, <1>4, <2>1, <2>2, Zenon
<1>6. Types'
  BY <1>1, <1>2, <1>3, <1>5, Zenon DEF Types
<1>7. Line' = Line
  BY <1>2, Zenon DEF Line
<1>8. Begun'
  BY <1>2, Zenon DEF Inv, Begun
<1>9. Arrived'
  <2>1. \A t \in Thread : \A k \in 1 .. Len(Line[t]) : Line[t][k].from \in Agent
    BY <1>1, LineIs, ItemIs, Zenon
  <2> QED
    BY <1>2, <1>5, <1>7, <2>1, Zenon DEF Inv, Arrived
<1>10. InOrder' /\ OneThread'
  BY <1>7, SameLines, Zenon
<1>11. Tried'
  <2>1. ASSUME NEW r \in Report PROVE NotYet(r)' <=> NotYet(r)
    <3>1. r[1] \in Agent
      BY DEF Report
    <3> QED
      BY <1>2, <1>5, <3>1, Zenon DEF NotYet, HandedOver
  <2> QED
    BY <1>2, <1>7, <2>1, SameTries, Zenon
<1>12. Newest'
  BY <1>2, <1>7, Zenon DEF Inv, Newest
<1>13. RowHoldsReport'
  BY <1>2, SameTable, Zenon
<1> QED
  BY <1>3, <1>6, <1>8, <1>9, <1>10, <1>11, <1>12, <1>13, Zenon DEF Inv

\* recv takes the queue of a thread.
LEMMA Takes == ASSUME Inv, NEW t \in Thread, thread_report(t) PROVE Inv'
<1>1. Types
  BY Zenon DEF Inv
<1>2. /\ batch[t] = <<>> /\ batch' = [batch EXCEPT ![t] = reportQueues[t]]
      /\ reportQueues' = [reportQueues EXCEPT ![t] = <<>>] /\ received' = received /\ pc' = pc
      /\ index' = index /\ i' = i /\ stored' = stored /\ table' = table /\ source' = source
      /\ last' = last /\ tries' = tries
  BY Zenon DEF thread_report, written
<1>3. reportQueues \in [Thread -> Seq(Items)] /\ batch \in [Thread -> Seq(Items)]
  BY <1>1, Zenon DEF Types
<1>4. Types'
  <2>1. <<>> \in Seq(Items)
    OBVIOUS
  <2>2. reportQueues' \in [Thread -> Seq(Items)] /\ batch' \in [Thread -> Seq(Items)]
    BY <1>2, <1>3, <2>1, Zenon
  <2> QED
    BY <1>1, <1>2, <2>2, Zenon DEF Types
<1>5. Line' = Line
  BY <1>1, LineTake, Zenon
<1>6. Begun'
  <2>1. stored[t] = 0
    BY <1>2, Zenon DEF Inv, Begun
  <2>2. \A u \in Thread : u # t => batch'[u] = batch[u]
    BY <1>2, <1>3, Zenon
  <2> QED
    BY <1>2, <2>1, <2>2, Zenon DEF Inv, Begun
<1>7. Arrived' /\ Newest'
  BY <1>2, <1>5, Zenon DEF Inv, Arrived, Newest
<1>8. InOrder' /\ OneThread'
  BY <1>5, SameLines, Zenon
<1>9. Tried'
  <2>1. \A r \in Report : NotYet(r)' <=> NotYet(r)
    BY <1>2, Zenon DEF NotYet, HandedOver
  <2> QED
    BY <1>2, <1>5, <2>1, SameTries, Zenon
<1>10. RowHoldsReport' /\ IndexNamesQueue'
  BY <1>2, SameTable, SameIndex, Zenon
<1> QED
  BY <1>4, <1>6, <1>7, <1>8, <1>9, <1>10, Zenon DEF Inv

\* A report sent to a queue that is not there changes nothing that is modelled.
LEMMA SendsNowhere == ASSUME Inv, NEW a \in Agent, send_nowhere(a) PROVE Inv'
<1>1. /\ index' = index /\ received' = received /\ pc' = pc /\ i' = i
      /\ reportQueues' = reportQueues /\ batch' = batch /\ stored' = stored
      /\ table' = table /\ source' = source /\ last' = last /\ tries' = tries
  BY Zenon DEF send_nowhere, written
<1> QED
  BY <1>1, NothingChanged, Zenon

\* The parsed request is put into a queue.
LEMMA Sends == ASSUME Faithful, Inv, NEW a \in Agent, send(a) PROVE Inv'
<1> DEFINE s == i[a]
           x == Item(a, received[a])
           n == Len(Line[s])
           r0 == <<a, received[a]>>
<1>1. Types
  BY Zenon DEF Inv
<1>2. /\ pc[a] = "send" /\ reportQueues' = [reportQueues EXCEPT ![s] = Append(@, Parsed(a, received[a]))]
      /\ s \in Thread /\ pc' = [pc EXCEPT ![a] = "sent"] /\ i' = [i EXCEPT ![a] = 0]
      /\ index' = index /\ received' = received
      /\ batch' = batch /\ stored' = stored /\ table' = table /\ source' = source
      /\ last' = last /\ tries' = tries
  BY Zenon DEF send, written
<1>3. Grown(s, x) /\ r0 \in Report
  BY <1>1, LineSend, Zenon
<1>4. x.from = a /\ x.no = received[a]
  BY DEF Item
<1>5. /\ s \in Thread /\ Others(s) /\ n \in Nat
      /\ Len(Line'[s]) = n + 1 /\ Line'[s][n + 1] = x
      /\ \A k \in 1 .. n : Line'[s][k] = Line[s][k]
  BY <1>1, <1>2, <1>3, LineIs, Zenon DEF Grown, GrownBy
<1>6. /\ \A t \in Thread : t # s => Line'[t] = Line[t]
      /\ \A k \in 1 .. n + 1 : k \in 1 .. n \/ k = n + 1
      /\ \A k \in 1 .. n : k \in 1 .. n + 1 /\ k < n + 1 /\ k # n + 1
      /\ n + 1 \in 1 .. n + 1
  BY <1>5 DEF Others
<1>7. pc \in [Agent -> Steps] /\ received[a] \in 1 .. MaxReports
  BY <1>1, <1>2, Zenon DEF Types
<1>8. pc'[a] # "send" /\ \A b \in Agent : b # a => pc'[b] = pc[b]
  BY <1>2, <1>7, Zenon
<1>9. ASSUME NEW t \in Thread, NEW k \in 1 .. Len(Line[t])
      PROVE  /\ Line[t][k].from \in Agent /\ Line[t][k].no \in 1 .. MaxReports
             /\ Line[t][k].from = a => Line[t][k].no < received[a]
  BY <1>1, <1>2, LineIs, ItemIs, Zenon DEF Inv, Arrived
<1>10. \A m \in 1 .. MaxReports : ~(m < m) /\ m <= m /\ \A l \in 1 .. MaxReports : m < l => m # l /\ m <= l
  BY ReporterAssumption
<1> HIDE DEF s, x, n, r0
\* An element of a line afterwards is one of before or the new one.
<1>11. ASSUME NEW t \in Thread, NEW k \in 1 .. Len(Line'[t])
       PROVE  \/ k \in 1 .. Len(Line[t]) /\ Line'[t][k] = Line[t][k]
              \/ t = s /\ k = n + 1 /\ Line'[t][k] = x
  BY <1>5, <1>6, Zenon DEF n
<1>12. ASSUME NEW t \in Thread, NEW k \in 1 .. Len(Line[t])
       PROVE  k \in 1 .. Len(Line'[t]) /\ Line'[t][k] = Line[t][k]
  BY <1>5, <1>6, Zenon DEF n
<1>13. Types'
  <2>1. Parsed(a, received[a]) = x /\ x \in Items
    <3>1. <<a, received[a]>>[1] = a /\ <<a, received[a]>>[2] = received[a]
      OBVIOUS
    <3> QED
      BY <1>3, <1>7, <3>1, ParsedIs, Zenon DEF x, r0, Items
  <2>2. reportQueues \in [Thread -> Seq(Items)] /\ reportQueues[s] \in Seq(Items)
    BY <1>1, <1>5, Zenon DEF Types
  <2>3. Append(reportQueues[s], x) \in Seq(Items)
    BY <2>1, <2>2, SeqOps, Zenon
  <2>4. reportQueues' \in [Thread -> Seq(Items)]
    BY <1>2, <2>1, <2>2, <2>3, Zenon
  <2>5. pc' \in [Agent -> Steps] /\ i' \in [Agent -> Nat]
    <3>1. i \in [Agent -> Nat] /\ 0 \in Nat /\ "sent" \in Steps
      BY <1>1 DEF Types, Steps
    <3> QED
      BY <1>2, <1>7, <3>1, Zenon
  <2>6. \A b \in Agent : pc'[b] = "send" => received'[b] \in 1 .. MaxReports
    BY <1>1, <1>2, <1>8, Zenon DEF Types
  <2> QED
    BY <1>1, <1>2, <2>4, <2>5, <2>6, Zenon DEF Types
<1>14. Begun'
  BY <1>2, Zenon DEF Inv, Begun
<1>15. Arrived'
  <2>1. ASSUME NEW t \in Thread, NEW k \in 1 .. Len(Line'[t])
        PROVE  /\ Line'[t][k].no <= received'[Line'[t][k].from]
               /\ pc'[Line'[t][k].from] = "send" => Line'[t][k].no < received'[Line'[t][k].from]
    <3>1. CASE k \in 1 .. Len(Line[t]) /\ Line'[t][k] = Line[t][k]
      <4>1. /\ Line[t][k].no <= received[Line[t][k].from]
            /\ pc[Line[t][k].from] = "send" => Line[t][k].no < received[Line[t][k].from]
        BY <3>1, Zenon DEF Inv, Arrived
      <4> QED
        BY <1>2, <1>8, <1>9, <3>1, <4>1, Zenon
    <3>2. CASE t = s /\ k = n + 1 /\ Line'[t][k] = x
      BY <1>2, <1>4, <1>7, <1>8, <1>10, <3>2, Zenon
    <3> QED
      BY <1>11, <3>1, <3>2, Zenon
  <2> QED
    BY <2>1, Zenon DEF Arrived
<1>16. InOrder'
  <2>1. ASSUME NEW t \in Thread, NEW j \in 1 .. Len(Line'[t]), NEW k \in 1 .. Len(Line'[t]),
               j < k, Line'[t][j].from = Line'[t][k].from
        PROVE  Line'[t][j].no < Line'[t][k].no
    <3>1. j \in 1 .. Len(Line[t]) /\ Line'[t][j] = Line[t][j]
      <4>1. CASE t = s
        <5>1. j \in 1 .. n + 1 /\ k \in 1 .. n + 1
          BY <1>5, <4>1, Zenon
        <5>2. j \in 1 .. n
          BY <1>5, <2>1, <5>1
        <5> QED
          BY <1>5, <4>1, <5>2, Zenon DEF n
      <4>2. CASE t # s
        BY <1>6, <4>2, Zenon
      <4> QED
        BY <4>1, <4>2, Zenon
    <3>2. CASE k \in 1 .. Len(Line[t]) /\ Line'[t][k] = Line[t][k]
      BY <2>1, <3>1, <3>2, Zenon DEF Inv, InOrder
    <3>3. CASE t = s /\ k = n + 1 /\ Line'[t][k] = x
      BY <1>4, <1>9, <2>1, <3>1, <3>3, Zenon
    <3> QED
      BY <1>11, <3>2, <3>3, Zenon
  <2> QED
    BY <2>1, Zenon DEF InOrder
<1>17. OneThread'
  <2>1. ASSUME NEW t \in Thread, NEW u \in Thread, NEW j \in 1 .. Len(Line'[t]),
               NEW k \in 1 .. Len(Line'[u]),
               Line'[t][j].from = Line'[u][k].from, Line'[t][j].no = Line'[u][k].no
        PROVE  t = u
    <3>1. CASE /\ j \in 1 .. Len(Line[t]) /\ Line'[t][j] = Line[t][j]
               /\ k \in 1 .. Len(Line[u]) /\ Line'[u][k] = Line[u][k]
      BY <2>1, <3>1, ZenonT(40) DEF Inv, OneThread
    <3>2. CASE /\ j \in 1 .. Len(Line[t]) /\ Line'[t][j] = Line[t][j]
               /\ u = s /\ Line'[u][k] = x
      BY <1>4, <1>7, <1>9, <1>10, <2>1, <3>2, Zenon
    <3>3. CASE /\ k \in 1 .. Len(Line[u]) /\ Line'[u][k] = Line[u][k]
               /\ t = s /\ Line'[t][j] = x
      BY <1>4, <1>7, <1>9, <1>10, <2>1, <3>3, Zenon
    <3>4. \/ j \in 1 .. Len(Line[t]) /\ Line'[t][j] = Line[t][j]
          \/ t = s /\ Line'[t][j] = x
      BY <1>11, Zenon
    <3>5. \/ k \in 1 .. Len(Line[u]) /\ Line'[u][k] = Line[u][k]
          \/ u = s /\ Line'[u][k] = x
      BY <1>11, Zenon
    <3> QED
      BY <3>1, <3>2, <3>3, <3>4, <3>5, Zenon
  <2> QED
    BY <2>1, Zenon DEF OneThread
<1>18. Newest'
  <2>1. ASSUME NEW r \in DOMAIN last, NEW k \in 1 .. Len(Line'[last[r].by]),
               Line'[last[r].by][k].from = r[1]
        PROVE  last[r].no <= Line'[last[r].by][k].no
    <3>1. /\ last[r].by \in Thread /\ last[r].no <= received[r[1]]
          /\ \A l \in 1 .. Len(Line[last[r].by]) :
                Line[last[r].by][l].from = r[1] => last[r].no <= Line[last[r].by][l].no
      BY Zenon DEF Inv, Newest
    <3>2. CASE k \in 1 .. Len(Line[last[r].by]) /\ Line'[last[r].by][k] = Line[last[r].by][k]
      BY <2>1, <3>1, <3>2, Zenon
    <3>3. CASE last[r].by = s /\ Line'[last[r].by][k] = x
      BY <1>4, <2>1, <3>1, <3>3, Zenon
    <3> QED
      BY <1>11, <3>1, <3>2, <3>3, Zenon
  <2> QED
    BY <1>2, <2>1, Zenon DEF Inv, Newest
<1>19. RowHoldsReport' /\ IndexNamesQueue'
  BY <1>2, <1>8, SameTable, SameIndex, Zenon
<1>20. ASSUME NEW r \in Report
       PROVE  /\ NotYet(r)' => NotYet(r)
              /\ NotYet(r) => NotYet(r)' \/ r = r0
  <2>1. r = <<r[1], r[2]>> /\ r[1] \in Agent
    BY DEF Report
  <2> QED
    BY <1>2, <1>8, <2>1, Zenon DEF NotYet, HandedOver, r0
<1>21. NotYet(r0) /\ ~\E t \in Thread : \E k \in 1 .. Len(Line[t]) : WaitsAt(r0, t, k)
  <2>1. r0[1] = a /\ r0[2] = received[a]
    BY DEF r0
  <2> QED
    BY <1>2, <1>7, <1>9, <1>10, <2>1, Zenon DEF NotYet, HandedOver, WaitsAt
<1>22. \A r \in Report : \A m \in Nat :
          /\ TriedUpto(r, m)' <=> TriedUpto(r, m)
          /\ Untried(r)' <=> Untried(r)
          /\ Done(r)' <=> Done(r)
  BY <1>2, Zenon DEF TriedUpto, Untried, Done
<1>23. Untried(r0) => TriedUpto(r0, 0)
  <2>1. DOMAIN tries[r0] = 1 .. Len(Results(Lb[r0]))
    BY <1>1, <1>3, Zenon DEF Types
  <2>2. \A m \in 1 .. Len(Results(Lb[r0])) : ~(m <= 0)
    OBVIOUS
  <2> QED
    BY <2>1, <2>2, Zenon DEF Untried, TriedUpto
<1>24. n = 0 => stored[s] = 0
  <2>1. ASSUME batch[s] # <<>> PROVE 1 \in 1 .. n
    BY <1>1, <1>5, <2>1, FirstOf, Zenon DEF n
  <2>2. 1 \in 1 .. n => n # 0
    BY <1>5
  <2> QED
    BY <1>5, <2>1, <2>2, Zenon DEF Inv, Begun
<1>25. Tried'
  <2>1. ASSUME NEW r \in Report, NotYet(r)' PROVE Untried(r)'
    BY <1>2, <1>20, <2>1, Zenon DEF Inv, Tried, Untried
  <2>2. ASSUME NEW t \in Thread, NEW k \in 1 .. Len(Line'[t]), NEW r \in Report, WaitsAt(r, t, k)'
        PROVE  TriedUpto(r, IF k = 1 THEN stored[t] ELSE 0)'
    <3>1. CASE k \in 1 .. Len(Line[t]) /\ Line'[t][k] = Line[t][k]
      <4>1. WaitsAt(r, t, k)
        BY <2>2, <3>1, Zenon DEF WaitsAt
      <4>2. TriedUpto(r, IF k = 1 THEN stored[t] ELSE 0)
        BY <3>1, <4>1, Zenon DEF Inv, Tried
      <4> QED
        BY <1>2, <4>2, Zenon DEF TriedUpto
    <3>2. CASE t = s /\ k = n + 1 /\ Line'[t][k] = x
      <4>1. r = r0
        <5>1. r = <<r[1], r[2]>>
          BY DEF Report
        <5> QED
          BY <1>4, <2>2, <3>2, <5>1, Zenon DEF WaitsAt, r0
      <4>2. TriedUpto(r, 0)
        BY <1>21, <1>23, <4>1, Zenon DEF Inv, Tried
      <4>3. k = 1 => stored[t] = 0
        <5>1. k = 1 => n = 0
          BY <1>5, <3>2
        <5> QED
          BY <1>24, <3>2, <5>1, Zenon
      <4>4. (IF k = 1 THEN stored[t] ELSE 0) = 0
        BY <4>3, Zenon
      <4> QED
        BY <1>2, <4>2, <4>4, Zenon DEF TriedUpto
    <3> QED
      BY <1>11, <3>1, <3>2, Zenon
  <2>3. ASSUME NEW r \in Report
        PROVE  \/ NotYet(r)' \/ Done(r)'
               \/ \E t \in Thread : \E k \in 1 .. Len(Line'[t]) : WaitsAt(r, t, k)'
    <3>1. CASE Done(r)
      BY <1>2, <3>1, Zenon DEF Done
    <3>2. ASSUME NEW t \in Thread, NEW k \in 1 .. Len(Line[t]), WaitsAt(r, t, k)
          PROVE  k \in 1 .. Len(Line'[t]) /\ WaitsAt(r, t, k)'
      BY <1>12, <3>2, Zenon DEF WaitsAt
    <3>3. ASSUME r = r0, NEW t \in Thread, t = s, NEW k, k = n + 1
          PROVE  k \in 1 .. Len(Line'[t]) /\ WaitsAt(r, t, k)'
      <4>1. r0[1] = a /\ r0[2] = received[a]
        BY DEF r0
      <4>2. Line'[t][k].from = r[1] /\ Line'[t][k].no = r[2]
        BY <1>4, <1>5, <3>3, <4>1, Zenon
      <4>3. WaitsAt(r, t, k)'
        BY <4>2, Zenon DEF WaitsAt
      <4> QED
        BY <1>5, <1>6, <3>3, <4>3, Zenon
    <3>4. r = r0 => \E t \in Thread : \E k \in 1 .. Len(Line'[t]) : WaitsAt(r, t, k)'
      BY <1>5, <3>3, Zenon
    <3>5. \/ NotYet(r) \/ Done(r)
          \/ \E t \in Thread : \E k \in 1 .. Len(Line[t]) : WaitsAt(r, t, k)
      BY Zenon DEF Inv, Tried
    <3> QED
      BY <1>20, <3>1, <3>2, <3>4, <3>5, Zenon
  <2> QED
    BY <2>1, <2>2, <2>3, Zenon DEF Tried
<1> QED
  BY <1>13, <1>14, <1>15, <1>16, <1>17, <1>18, <1>19, <1>25, Zenon DEF Inv

Kept ==
    \A u \in Thread : \A k \in 1 .. Len(Line'[u]) :
        \E l \in 1 .. Len(Line[u]) : Line'[u][k] = Line[u][l]

\* What a step that takes the first of a line keeps.
LEMMA PopLines ==
    ASSUME Inv, NEW t \in Thread, Shrunk(t), received' = received, pc' = pc
    PROVE  Kept /\ Arrived' /\ InOrder' /\ OneThread'
<1> DEFINE n == Len(Line[t])
<1>1. /\ n \in Nat /\ n >= 1 /\ Len(Line'[t]) = n - 1 /\ Others(t)
      /\ \A k \in 1 .. n - 1 : Line'[t][k] = Line[t][k + 1]
  BY LineIs, Zenon DEF Inv, Shrunk, ShrunkTo
<1>2. /\ \A k \in 1 .. n - 1 : k + 1 \in 1 .. n
      /\ \A j, k \in 1 .. n - 1 : j < k => j + 1 < k + 1
  BY <1>1
<1> HIDE DEF n
<1>3. \A u \in Thread : u # t => Line'[u] = Line[u]
  BY <1>1, Zenon DEF Others
<1>4. Kept
  <2>1. ASSUME NEW u \in Thread, NEW k \in 1 .. Len(Line'[u])
        PROVE  \E l \in 1 .. Len(Line[u]) : Line'[u][k] = Line[u][l]
    <3>1. CASE u = t
      BY <1>1, <1>2, <3>1, Zenon DEF n
    <3>2. CASE u # t
      BY <1>3, <3>2, Zenon
    <3> QED
      BY <3>1, <3>2, Zenon
  <2> QED
    BY <2>1, Zenon DEF Kept
<1>5. Arrived'
  <2>1. ASSUME NEW u \in Thread, NEW k \in 1 .. Len(Line'[u])
        PROVE  /\ Line'[u][k].no <= received[Line'[u][k].from]
               /\ pc[Line'[u][k].from] = "send" => Line'[u][k].no < received[Line'[u][k].from]
    <3>1. PICK l \in 1 .. Len(Line[u]) : Line'[u][k] = Line[u][l]
      BY <1>4, Zenon DEF Kept
    <3>2. /\ Line[u][l].no <= received[Line[u][l].from]
          /\ pc[Line[u][l].from] = "send" => Line[u][l].no < received[Line[u][l].from]
      BY Zenon DEF Inv, Arrived
    <3> QED
      BY <3>1, <3>2, Zenon
  <2> QED
    BY <2>1, Zenon DEF Arrived
<1>6. OneThread'
  <2>1. ASSUME NEW u \in Thread, NEW v \in Thread, NEW j \in 1 .. Len(Line'[u]),
               NEW k \in 1 .. Len(Line'[v]),
               Line'[u][j].from = Line'[v][k].from, Line'[u][j].no = Line'[v][k].no
        PROVE  u = v
    <3>1. PICK l \in 1 .. Len(Line[u]) : Line'[u][j] = Line[u][l]
      BY <1>4, Zenon DEF Kept
    <3>2. PICK m \in 1 .. Len(Line[v]) : Line'[v][k] = Line[v][m]
      BY <1>4, Zenon DEF Kept
    <3> QED
      BY <2>1, <3>1, <3>2, ZenonT(40) DEF Inv, OneThread
  <2> QED
    BY <2>1, Zenon DEF OneThread
<1>7. InOrder'
  <2>1. ASSUME NEW u \in Thread, NEW j \in 1 .. Len(Line'[u]), NEW k \in 1 .. Len(Line'[u]),
               j < k, Line'[u][j].from = Line'[u][k].from
        PROVE  Line'[u][j].no < Line'[u][k].no
    <3>1. CASE u = t
      <4>1. j \in 1 .. n - 1 /\ k \in 1 .. n - 1
        BY <1>1, <3>1, Zenon
      <4>2. /\ Line'[u][j] = Line[t][j + 1] /\ Line'[u][k] = Line[t][k + 1]
            /\ j + 1 \in 1 .. n /\ k + 1 \in 1 .. n /\ j + 1 < k + 1
        BY <1>1, <1>2, <2>1, <3>1, <4>1, Zenon
      <4> QED
        BY <2>1, <4>2, Zenon DEF Inv, InOrder, n
    <3>2. CASE u # t
      BY <1>3, <2>1, <3>2, Zenon DEF Inv, InOrder
    <3> QED
      BY <3>1, <3>2, Zenon
  <2> QED
    BY <2>1, Zenon DEF InOrder
<1> QED
  BY <1>4, <1>5, <1>6, <1>7, Zenon

\* A statement keeps the history of writes in order.
LEMMA WritesInOrder ==
    ASSUME Inv, NEW t \in Thread, batch[t] # <<>>, Kept, received' = received,
           NEW key, NEW x, x = Head(batch[t]),
           \/ last' = last
           \/ last' = Put(last, <<x.from, key>>, [no |-> x.no, by |-> t])
    PROVE  Newest'
<1>1. Types /\ InOrder /\ Arrived /\ Newest
  BY Zenon DEF Inv
<1>2. 1 \in 1 .. Len(Line[t]) /\ Line[t][1] = x /\ x \in Items /\ Len(Line[t]) \in Nat
  BY <1>1, FirstOf, LineIs, Zenon
<1>3. x.from \in Agent /\ x.no \in 1 .. MaxReports
  BY <1>2, ItemIs, Zenon
<1>4. x.no \in Nat /\ x.no <= x.no
  BY <1>3, ReporterAssumption
<1>5. x.no <= received[x.from]
  BY <1>1, <1>2, Zenon DEF Arrived
<1>6. ASSUME NEW l \in 1 .. Len(Line[t]), Line[t][l].from = x.from PROVE x.no <= Line[t][l].no
  <2>1. CASE l = 1
    BY <1>2, <1>4, <2>1, Zenon
  <2>2. CASE l # 1
    <3>1. 1 < l
      BY <1>2, <2>2
    <3>2. Line[t][1].no < Line[t][l].no
      BY <1>1, <1>2, <1>6, <3>1, Zenon DEF InOrder
    <3>3. Line[t][l].no \in 1 .. MaxReports
      BY <1>1, LineIs, ItemIs, Zenon
    <3> QED
      BY <1>2, <1>3, <3>2, <3>3, ReporterAssumption
  <2> QED
    BY <2>1, <2>2, Zenon
<1> DEFINE Good(r, e) ==
               /\ r[1] \in Agent /\ e.by \in Thread /\ e.no \in Nat /\ e.no <= received[r[1]]
               /\ \A k \in 1 .. Len(Line'[e.by]) :
                     Line'[e.by][k].from = r[1] => e.no <= Line'[e.by][k].no
<1>7. ASSUME NEW r \in DOMAIN last PROVE Good(r, last[r])
  <2>1. /\ r[1] \in Agent /\ last[r].by \in Thread /\ last[r].no \in Nat
        /\ last[r].no <= received[r[1]]
        /\ \A l \in 1 .. Len(Line[last[r].by]) :
              Line[last[r].by][l].from = r[1] => last[r].no <= Line[last[r].by][l].no
    BY <1>1, Zenon DEF Newest
  <2>2. ASSUME NEW k \in 1 .. Len(Line'[last[r].by]), Line'[last[r].by][k].from = r[1]
        PROVE  last[r].no <= Line'[last[r].by][k].no
    <3>1. PICK l \in 1 .. Len(Line[last[r].by]) : Line'[last[r].by][k] = Line[last[r].by][l]
      BY <2>1, Zenon DEF Kept
    <3> QED
      BY <2>1, <2>2, <3>1, Zenon
  <2> QED
    BY <2>1, <2>2, Zenon
<1>8. Good(<<x.from, key>>, [no |-> x.no, by |-> t])
  <2> DEFINE e == [no |-> x.no, by |-> t]
             r == <<x.from, key>>
  <2>1. r[1] = x.from /\ e.by = t /\ e.no = x.no
    OBVIOUS
  <2> HIDE DEF e, r
  <2>2. ASSUME NEW k \in 1 .. Len(Line'[t]), Line'[t][k].from = x.from
        PROVE  x.no <= Line'[t][k].no
    <3>1. PICK l \in 1 .. Len(Line[t]) : Line'[t][k] = Line[t][l]
      BY Zenon DEF Kept
    <3> QED
      BY <1>6, <2>2, <3>1, Zenon
  <2> QED
    BY <1>3, <1>4, <1>5, <2>1, <2>2, Zenon DEF e, r
<1> HIDE DEF Good
<1>9. \A r \in DOMAIN last' : Good(r, last'[r])
  <2>1. CASE last' = last
    BY <1>7, <2>1, Zenon
  <2>2. CASE last' = Put(last, <<x.from, key>>, [no |-> x.no, by |-> t])
    BY <1>7, <1>8, <2>2, Zenon DEF Put
  <2> QED
    BY <2>1, <2>2, Zenon
<1> QED
  BY <1>9, Zenon DEF Newest, Good

\* A statement writes a row that says what a report said.
LEMMA WritesSaid ==
    ASSUME Inv, NEW x \in Items, NEW k \in 1 .. Len(Results(Lb[<<x.from, x.no>>])),
           NEW key, key = Key(x.req, x.req.results[k]),
           table' = Put(table, key, Columns(x.req, x.req.results[k])),
           source' = Put(source, key, <<x.from, x.no>>)
    PROVE  RowHoldsReport'
<1> DEFINE columns == Columns(x.req, x.req.results[k])
           r == <<x.from, x.no>>
<1>1. Said(key, columns, Lb[r])
  BY Stated, Zenon
<1>2. table' = Put(table, key, columns) /\ source' = Put(source, key, r)
  OBVIOUS
<1> HIDE DEF columns, r
<1>3. /\ DOMAIN table' = DOMAIN table \cup {key} /\ DOMAIN source' = DOMAIN source \cup {key}
      /\ table'[key] = columns /\ source'[key] = r
      /\ \A y \in DOMAIN table : y # key => table'[y] = table[y]
      /\ \A y \in DOMAIN source : y # key => source'[y] = source[y]
  BY <1>2, Zenon DEF Put
<1>4. DOMAIN table = DOMAIN source /\ \A y \in DOMAIN table : Said(y, table[y], Lb[source[y]])
  BY Zenon DEF Inv, RowHoldsReport
<1>5. ASSUME NEW y \in DOMAIN table' PROVE Said(y, table'[y], Lb[source'[y]])
  <2>1. CASE y = key
    BY <1>1, <1>3, <2>1, Zenon
  <2>2. CASE y # key
    <3>1. y \in DOMAIN table /\ y \in DOMAIN source
      BY <1>3, <1>4, <2>2, Zenon
    <3> QED
      BY <1>3, <1>4, <2>2, <3>1, Zenon
  <2> QED
    BY <2>1, <2>2, Zenon
<1>6. DOMAIN table' = DOMAIN source'
  BY <1>3, <1>4, Zenon
<1> QED
  BY <1>5, <1>6, Zenon DEF RowHoldsReport

\* The request a thread is at, and how far.
AtRequest(t, x, r) ==
    /\ x = Head(batch[t]) /\ x \in Items /\ r = <<x.from, x.no>> /\ r \in Report
    /\ 1 \in 1 .. Len(Line[t]) /\ Line[t][1] = x /\ WaitsAt(r, t, 1)
    /\ x.req.results = Results(Lb[r]) /\ DOMAIN tries[r] = 1 .. Len(Results(Lb[r]))
    /\ Len(Results(Lb[r])) \in Nat /\ stored[t] \in Nat
    /\ TriedUpto(r, stored[t]) /\ ~NotYet(r)
    /\ stored[t] = 0 \/ stored[t] < Len(Results(Lb[r]))

\* The request a thread stores is a report that has been received, and its
\* statements so far are counted (store_thread.cpp:21-32).
LEMMA StoresAt ==
    ASSUME Inv, NEW t \in Thread, batch[t] # <<>>, NEW x, x = Head(batch[t]),
           NEW r, r = <<x.from, x.no>>
    PROVE  AtRequest(t, x, r)
<1>1. Types /\ Arrived /\ Tried /\ Begun
  BY Zenon DEF Inv
<1>2. 1 \in 1 .. Len(Line[t]) /\ Line[t][1] = x /\ x \in Items
  BY <1>1, FirstOf, Zenon
<1>3. /\ r \in Report /\ x.req.results = Results(Lb[r]) /\ Lb[r] \in LbType
      /\ x.from \in Agent /\ x.no \in 1 .. MaxReports
  BY <1>2, ItemIs, Zenon
<1>4. r[1] = x.from /\ r[2] = x.no
  OBVIOUS
<1>5. WaitsAt(r, t, 1)
  BY <1>2, <1>4, Zenon DEF WaitsAt
<1>6. Len(Results(Lb[r])) \in Nat
  <2>1. Results(Lb[r]) \in Seq(HostCallResults)
    BY <1>3, ResultsAre, Zenon
  <2> QED
    BY <2>1, SeqPlaces, Zenon
<1>7. DOMAIN tries[r] = 1 .. Len(Results(Lb[r])) /\ stored[t] \in Nat
  BY <1>1, <1>3, Zenon DEF Types
<1>8. TriedUpto(r, stored[t])
  <2>1. TriedUpto(r, IF 1 = 1 THEN stored[t] ELSE 0)
    BY <1>1, <1>2, <1>3, <1>5, Zenon DEF Tried
  <2> QED
    BY <2>1, Zenon DEF TriedUpto
<1>9. ~NotYet(r)
  <2>1. x.no <= received[x.from] /\ (pc[x.from] = "send" => x.no < received[x.from])
    BY <1>1, <1>2, Zenon DEF Arrived
  <2>2. received[x.from] \in 0 .. MaxReports
    BY <1>1, <1>3, Zenon DEF Types
  <2> QED
    BY <1>3, <1>4, <2>1, <2>2, ReporterAssumption DEF NotYet, HandedOver
<1>10. stored[t] = 0 \/ stored[t] < Len(Results(Lb[r]))
  BY <1>1, <1>3, Zenon DEF Begun
<1> QED
  BY <1>2, <1>3, <1>5, <1>6, <1>7, <1>8, <1>9, <1>10, Zenon DEF AtRequest

\* It is in no other place.
LEMMA OnlyPlace ==
    ASSUME Inv, NEW t \in Thread, NEW x, NEW r, AtRequest(t, x, r),
           NEW u \in Thread, NEW l \in 1 .. Len(Line[u]), WaitsAt(r, u, l)
    PROVE  u = t /\ l = 1
<1>1. WaitsAt(r, t, 1) /\ 1 \in 1 .. Len(Line[t])
  BY Zenon DEF AtRequest
<1> QED
  BY <1>1, OnePlace, Zenon

\* The request a thread is at is done with and leaves its line.
LEMMA PopTries ==
    ASSUME Inv, NEW t \in Thread, NEW x, NEW r0, AtRequest(t, x, r0), Shrunk(t),
           received' = received, pc' = pc,
           \A u \in Thread : u # t => stored'[u] = stored[u], stored'[t] = 0,
           \A r \in Report : r # r0 => tries'[r] = tries[r], Done(r0)'
    PROVE  Tried'
<1> DEFINE n == Len(Line[t])
<1>1. /\ n \in Nat /\ n >= 1 /\ Len(Line'[t]) = n - 1 /\ Others(t)
      /\ \A k \in 1 .. n - 1 : Line'[t][k] = Line[t][k + 1]
  BY LineIs, Zenon DEF Inv, Shrunk, ShrunkTo
<1>2. /\ \A k \in 1 .. n - 1 : k + 1 \in 1 .. n /\ k + 1 # 1
      /\ \A k \in 1 .. n : k = 1 \/ (k - 1 \in 1 .. n - 1 /\ (k - 1) + 1 = k)
  BY <1>1
<1> HIDE DEF n
<1>3. \A u \in Thread : u # t => Line'[u] = Line[u]
  BY <1>1, Zenon DEF Others
<1>4. r0 \in Report /\ WaitsAt(r0, t, 1) /\ 1 \in 1 .. Len(Line[t]) /\ ~NotYet(r0)
  BY Zenon DEF AtRequest
<1>10. ASSUME NEW u \in Thread, NEW l \in 1 .. Len(Line[u]), WaitsAt(r0, u, l)
       PROVE  u = t /\ l = 1
  BY <1>10, OnlyPlace, Zenon
<1>5. \A r \in Report : NotYet(r)' <=> NotYet(r)
  BY Zenon DEF NotYet, HandedOver
<1>6. ASSUME NEW r \in Report, r # r0
      PROVE  /\ Untried(r)' <=> Untried(r)
             /\ Done(r)' <=> Done(r)
  <2>1. tries'[r] = tries[r]
    BY <1>6, Zenon
  <2> QED
    BY <2>1, Zenon DEF Untried, Done
<1>7. ASSUME NEW r \in Report, NotYet(r)' PROVE Untried(r)'
  BY <1>4, <1>5, <1>6, <1>7, Zenon DEF Inv, Tried
<1>8. ASSUME NEW u \in Thread, NEW k \in 1 .. Len(Line'[u]), NEW r \in Report, WaitsAt(r, u, k)'
      PROVE  TriedUpto(r, IF k = 1 THEN stored[u] ELSE 0)'
  <2>1. CASE u = t
    <3>1. /\ k \in 1 .. n - 1 /\ k + 1 \in 1 .. Len(Line[t]) /\ k + 1 # 1
          /\ Line'[u][k] = Line[t][k + 1]
      BY <1>1, <1>2, <2>1, Zenon DEF n
    <3>2. WaitsAt(r, t, k + 1)
      BY <1>8, <3>1, Zenon DEF WaitsAt
    <3>3. r # r0
      <4>1. ASSUME r = r0 PROVE k + 1 = 1
        <5>1. WaitsAt(r0, t, k + 1)
          BY <3>2, <4>1, Zenon
        <5> QED
          BY <1>10, <3>1, <5>1, Zenon
      <4> QED
        BY <3>1, <4>1, Zenon
    <3>4. TriedUpto(r, IF k + 1 = 1 THEN stored[t] ELSE 0)
      BY <3>1, <3>2, Zenon DEF Inv, Tried
    <3>5. (IF k + 1 = 1 THEN stored[t] ELSE 0) = 0 /\ (IF k = 1 THEN stored'[u] ELSE 0) = 0
      BY <2>1, <3>1, Zenon
    <3>6. TriedUpto(r, 0)
      BY <3>4, <3>5, Zenon
    <3> QED
      BY <3>3, <3>5, <3>6, Zenon DEF TriedUpto
  <2>2. CASE u # t
    <3>1. k \in 1 .. Len(Line[u]) /\ WaitsAt(r, u, k)
      BY <1>3, <1>8, <2>2, Zenon DEF WaitsAt
    <3>2. r # r0
      <4>1. ASSUME r = r0 PROVE u = t
        <5>1. WaitsAt(r0, u, k)
          BY <3>1, <4>1, Zenon
        <5> QED
          BY <1>10, <3>1, <5>1, Zenon
      <4> QED
        BY <2>2, <4>1, Zenon
    <3>3. TriedUpto(r, IF k = 1 THEN stored[u] ELSE 0)
      BY <3>1, Zenon DEF Inv, Tried
    <3> QED
      BY <2>2, <3>2, <3>3, Zenon DEF TriedUpto
  <2> QED
    BY <2>1, <2>2, Zenon
<1>9. ASSUME NEW r \in Report
      PROVE  \/ NotYet(r)' \/ Done(r)'
             \/ \E u \in Thread : \E k \in 1 .. Len(Line'[u]) : WaitsAt(r, u, k)'
  <2>1. CASE r = r0
    BY <2>1, Zenon
  <2>2. ASSUME r # r0, NEW u \in Thread, NEW k \in 1 .. Len(Line[u]), WaitsAt(r, u, k)
        PROVE  \E l \in 1 .. Len(Line'[u]) : WaitsAt(r, u, l)'
    <3>1. CASE u = t
      <4>1. k # 1
        <5>1. ASSUME k = 1 PROVE r = r0
          <6>1. r = <<r[1], r[2]>> /\ r0 = <<r0[1], r0[2]>>
            BY <1>4 DEF Report
          <6> QED
            BY <1>4, <2>2, <3>1, <5>1, <6>1, Zenon DEF WaitsAt
        <5> QED
          BY <2>2, <5>1, Zenon
      <4>2. k - 1 \in 1 .. n - 1 /\ (k - 1) + 1 = k
        BY <1>2, <3>1, <4>1, Zenon DEF n
      <4>3. Line'[u][k - 1] = Line[u][k] /\ k - 1 \in 1 .. Len(Line'[u])
        BY <1>1, <3>1, <4>2, Zenon
      <4> QED
        BY <2>2, <4>3, Zenon DEF WaitsAt
    <3>2. CASE u # t
      BY <1>3, <2>2, <3>2, Zenon DEF WaitsAt
    <3> QED
      BY <3>1, <3>2, Zenon
  <2>3. \/ NotYet(r) \/ Done(r)
        \/ \E u \in Thread : \E k \in 1 .. Len(Line[u]) : WaitsAt(r, u, k)
    BY Zenon DEF Inv, Tried
  <2> QED
    BY <1>5, <1>6, <2>1, <2>2, <2>3, Zenon
<1> QED
  BY <1>7, <1>8, <1>9, Zenon DEF Tried

\* A statement is made for a result that is not the last of its request.
LEMMA CountTries ==
    ASSUME Inv, NEW t \in Thread, NEW x, NEW r0, AtRequest(t, x, r0), Line' = Line,
           received' = received, pc' = pc,
           NEW k, k = stored[t] + 1,
           \A u \in Thread : u # t => stored'[u] = stored[u], stored'[t] = k,
           \A r \in Report : r # r0 => tries'[r] = tries[r], TriedUpto(r0, k)'
    PROVE  Tried'
<1>1. r0 \in Report /\ WaitsAt(r0, t, 1) /\ 1 \in 1 .. Len(Line[t]) /\ ~NotYet(r0)
  BY Zenon DEF AtRequest
<1>2. ASSUME NEW u \in Thread, NEW l \in 1 .. Len(Line[u]), WaitsAt(r0, u, l)
      PROVE  u = t /\ l = 1
  BY <1>2, OnlyPlace, Zenon
<1>3. \A r \in Report : NotYet(r)' <=> NotYet(r)
  BY Zenon DEF NotYet, HandedOver
<1>4. ASSUME NEW r \in Report, r # r0
      PROVE  /\ Untried(r)' <=> Untried(r)
             /\ Done(r)' <=> Done(r)
  <2>1. tries'[r] = tries[r]
    BY <1>4, Zenon
  <2> QED
    BY <2>1, Zenon DEF Untried, Done
<1>5. \A r, u, l : WaitsAt(r, u, l)' <=> WaitsAt(r, u, l)
  BY Zenon DEF WaitsAt
<1>6. ASSUME NEW r \in Report, NotYet(r)' PROVE Untried(r)'
  BY <1>1, <1>3, <1>4, <1>6, Zenon DEF Inv, Tried
<1>7. ASSUME NEW u \in Thread, NEW l \in 1 .. Len(Line'[u]), NEW r \in Report, WaitsAt(r, u, l)'
      PROVE  TriedUpto(r, IF l = 1 THEN stored[u] ELSE 0)'
  <2>1. l \in 1 .. Len(Line[u]) /\ WaitsAt(r, u, l)
    BY <1>5, <1>7, Zenon
  <2>2. CASE r = r0
    <3>1. u = t /\ l = 1
      BY <1>2, <2>1, <2>2, Zenon
    <3>2. (IF l = 1 THEN stored'[u] ELSE 0) = k
      BY <3>1, Zenon
    <3> QED
      BY <2>2, <3>2, Zenon DEF TriedUpto
  <2>3. CASE r # r0
    <3>1. TriedUpto(r, IF l = 1 THEN stored[u] ELSE 0)
      BY <2>1, Zenon DEF Inv, Tried
    <3>2. (IF l = 1 THEN stored'[u] ELSE 0) = (IF l = 1 THEN stored[u] ELSE 0)
      <4>1. ASSUME l = 1 PROVE u # t
        <5>1. ASSUME u = t PROVE r = r0
          <6>1. r = <<r[1], r[2]>> /\ r0 = <<r0[1], r0[2]>>
            BY <1>1 DEF Report
          <6> QED
            BY <1>1, <2>1, <4>1, <5>1, <6>1, Zenon DEF WaitsAt
        <5> QED
          BY <2>3, <5>1, Zenon
      <4> QED
        BY <4>1, Zenon
    <3>3. tries'[r] = tries[r]
      BY <2>3, Zenon
    <3> QED
      BY <3>1, <3>2, <3>3, Zenon DEF TriedUpto
  <2> QED
    BY <2>2, <2>3, Zenon
<1>8. ASSUME NEW r \in Report
      PROVE  \/ NotYet(r)' \/ Done(r)'
             \/ \E u \in Thread : \E l \in 1 .. Len(Line'[u]) : WaitsAt(r, u, l)'
  <2>1. CASE r = r0
    BY <1>1, <1>5, <2>1, Zenon
  <2>2. CASE r # r0
    <3>1. \/ NotYet(r) \/ Done(r)
          \/ \E u \in Thread : \E l \in 1 .. Len(Line[u]) : WaitsAt(r, u, l)
      BY Zenon DEF Inv, Tried
    <3> QED
      BY <1>3, <1>4, <1>5, <2>2, <3>1, Zenon
  <2> QED
    BY <2>1, <2>2, Zenon
<1> QED
  BY <1>6, <1>7, <1>8, Zenon DEF Tried

\* The counts of one report, one more for result k.
OneMore(r, k) == tries' = [tries EXCEPT ![r][k] = @ + 1]

\* One more statement is counted once, for its own result (store_report.cpp:29-50).
LEMMA TryCounts ==
    ASSUME Inv, NEW t \in Thread, NEW x, NEW r, AtRequest(t, x, r),
           Len(Results(Lb[r])) # 0, NEW k, k = stored[t] + 1, OneMore(r, k)
    PROVE  /\ k \in 1 .. Len(Results(Lb[r]))
           /\ tries' \in [Report -> Seq(Nat)]
           /\ \A s \in Report : s # r => tries'[s] = tries[s]
           /\ \A s \in Report : DOMAIN tries'[s] = DOMAIN tries[s]
           /\ TriedUpto(r, k)'
           /\ k = Len(Results(Lb[r])) => Done(r)'
<1> DEFINE end == Len(Results(Lb[r]))
           f == tries[r]
           g == [f EXCEPT ![k] = @ + 1]
<1>1. /\ r \in Report /\ DOMAIN f = 1 .. end /\ end \in Nat /\ stored[t] \in Nat
      /\ stored[t] = 0 \/ stored[t] < end
      /\ TriedUpto(r, stored[t])
  BY Zenon DEF AtRequest
<1>2. end # 0
  OBVIOUS
<1>3. tries \in [Report -> Seq(Nat)]
  BY Zenon DEF Inv, Types
<1>4. f \in Seq(Nat)
  BY <1>1, <1>3, Zenon
<1>5. \A m \in 1 .. end : f[m] = IF m <= stored[t] THEN 1 ELSE 0
  BY <1>1, Zenon DEF TriedUpto
<1>6. tries' = [tries EXCEPT ![r] = g]
  BY Zenon DEF OneMore
<1> HIDE DEF end, f
<1>7. k \in 1 .. end
  BY <1>1, <1>2
<1>8. g \in Seq(Nat) /\ DOMAIN g = DOMAIN f
  <2>1. f \in [1 .. Len(f) -> Nat] /\ Len(f) \in Nat /\ DOMAIN f = 1 .. Len(f)
    BY <1>4
  <2>2. f[k] + 1 \in Nat
    BY <1>1, <1>7, <2>1
  <2>3. g \in [1 .. Len(f) -> Nat]
    BY <2>1, <2>2, Zenon
  <2> QED
    BY <2>1, <2>3
<1>9. \A m \in 1 .. end : g[m] = IF m <= k THEN 1 ELSE 0
  <2>1. ASSUME NEW m \in 1 .. end, m = k PROVE g[m] = IF m <= k THEN 1 ELSE 0
    <3>1. f[k] = 0
      BY <1>1, <1>5, <1>7
    <3> QED
      BY <1>1, <1>7, <2>1, <3>1
  <2>2. ASSUME NEW m \in 1 .. end, m # k PROVE g[m] = IF m <= k THEN 1 ELSE 0
    <3>1. g[m] = f[m]
      BY <1>1, <2>2, Zenon
    <3>2. (m <= k) <=> (m <= stored[t])
      BY <1>1, <2>2
    <3> QED
      BY <1>5, <3>1, <3>2, Zenon
  <2>4. ASSUME NEW m \in 1 .. end PROVE g[m] = IF m <= k THEN 1 ELSE 0
    <3>1. CASE m = k
      BY <2>1, <3>1, Zenon
    <3>2. CASE m # k
      BY <2>2, <3>2, Zenon
    <3> QED
      BY <3>1, <3>2, Zenon
  <2> QED
    BY <2>4, Zenon
<1> HIDE DEF g
<1>10. /\ tries' \in [Report -> Seq(Nat)] /\ tries'[r] = g
       /\ \A s \in Report : s # r => tries'[s] = tries[s]
  BY <1>1, <1>3, <1>6, <1>8, Zenon
<1>11. \A s \in Report : DOMAIN tries'[s] = DOMAIN tries[s]
  BY <1>8, <1>10, Zenon DEF f
<1>12. \A m \in DOMAIN tries'[r] : m \in 1 .. end /\ tries'[r][m] = g[m]
  BY <1>1, <1>8, <1>10, Zenon
<1>13. TriedUpto(r, k)'
  <2>1. \A m \in DOMAIN tries'[r] : tries'[r][m] = IF m <= k THEN 1 ELSE 0
    BY <1>9, <1>12, Zenon
  <2> QED
    BY <2>1, Zenon DEF TriedUpto
<1>14. ASSUME k = end PROVE Done(r)'
  <2>1. \A m \in 1 .. end : m <= k
    BY <1>1, <1>14
  <2> QED
    BY <1>9, <1>12, <2>1, Zenon DEF Done
<1> QED
  BY <1>7, <1>10, <1>11, <1>13, <1>14, Zenon DEF end

\* The batch without its first request.
LEMMA PopBatch ==
    ASSUME Types, NEW t \in Thread, batch[t] # <<>>, batch' = [batch EXCEPT ![t] = Tail(@)]
    PROVE  /\ batch' \in [Thread -> Seq(Items)]
           /\ \A u \in Thread : u # t => batch'[u] = batch[u]
<1>1. batch \in [Thread -> Seq(Items)]
  BY Zenon DEF Types
<1>2. batch[t] \in Seq(Items)
  BY <1>1, Zenon
<1>3. Tail(batch[t]) \in Seq(Items)
  BY <1>2, SeqOps, Zenon
<1> QED
  BY <1>1, <1>3, Zenon

\* What the table says after a statement, made or failed.
Statement(t, x, k, done) ==
    IF done THEN Written(t, x, x.req.results[k]) ELSE UNCHANGED <<table, source, last>>

\* A statement writes a row that says what its report said, and goes back to no
\* older report of the same thread (store_report.cpp:38-46).
LEMMA StatementKeeps ==
    ASSUME Inv, NEW t \in Thread, NEW x, NEW r, AtRequest(t, x, r), batch[t] # <<>>, Kept,
           received' = received, NEW k \in 1 .. Len(Results(Lb[r])), NEW done,
           Statement(t, x, k, done)
    PROVE  RowHoldsReport' /\ Newest'
<1>1. x \in Items /\ x = Head(batch[t]) /\ r = <<x.from, x.no>>
  BY Zenon DEF AtRequest
<1>2. CASE ~done
  <2>1. table' = table /\ source' = source /\ last' = last
    BY <1>2, Zenon DEF Statement
  <2> QED
    BY <1>1, <2>1, SameTable, WritesInOrder, Zenon
<1>3. CASE done
  <2> DEFINE key == Key(x.req, x.req.results[k])
  <2>1. /\ table' = Put(table, key, Columns(x.req, x.req.results[k]))
        /\ source' = Put(source, key, <<x.from, x.no>>)
        /\ last' = Put(last, <<x.from, key>>, [no |-> x.no, by |-> t])
    BY <1>3, Zenon DEF Statement, Written
  <2>2. k \in 1 .. Len(Results(Lb[<<x.from, x.no>>]))
    BY <1>1, Zenon
  <2>3. RowHoldsReport'
    BY <1>1, <2>1, <2>2, WritesSaid, Zenon
  <2> HIDE DEF key
  <2>4. Newest'
    BY <1>1, <2>1, WritesInOrder, Zenon
  <2> QED
    BY <2>3, <2>4, Zenon
<1> QED
  BY <1>2, <1>3, Zenon

\* A statement is made for a result of a request.
LEMMA Stores == ASSUME Inv, NEW t \in Thread, NEW done, store(t, done) PROVE Inv'
<1> SUFFICES ASSUME NEW x, x = Head(batch[t]), NEW k, k = stored[t] + 1,
                    NEW r, r = <<x.from, x.no>>, NEW end, end = Len(x.req.results)
             PROVE  Inv'
  BY Zenon
<1>1. /\ batch[t] # <<>> /\ end # 0
      /\ Statement(t, x, k, done)
      /\ OneMore(r, k)
      /\ stored' = [stored EXCEPT ![t] = IF k = end THEN 0 ELSE k]
      /\ batch' = [batch EXCEPT ![t] = IF k = end THEN Tail(@) ELSE @]
      /\ index' = index /\ received' = received /\ pc' = pc /\ i' = i
      /\ reportQueues' = reportQueues
  BY Zenon DEF store, Statement, OneMore
<1>2. Types
  BY Zenon DEF Inv
<1>3. AtRequest(t, x, r)
  BY <1>1, StoresAt, Zenon
<1>4. k = stored[t] + 1
  OBVIOUS
<1>5. end = Len(Results(Lb[r])) /\ stored[t] \in Nat /\ x = Head(batch[t])
  BY <1>3, Zenon DEF AtRequest
<1>6. /\ k \in 1 .. Len(Results(Lb[r])) /\ tries' \in [Report -> Seq(Nat)]
      /\ \A s \in Report : s # r => tries'[s] = tries[s]
      /\ \A s \in Report : DOMAIN tries'[s] = DOMAIN tries[s]
      /\ TriedUpto(r, k)'
      /\ k = Len(Results(Lb[r])) => Done(r)'
  BY <1>1, <1>3, <1>4, <1>5, TryCounts, Zenon
<1>7. end \in Nat
  BY <1>3, <1>5, Zenon DEF AtRequest
<1>8. k \in Nat /\ 0 \in Nat
  BY <1>6
<1>9. stored \in [Thread -> Nat] /\ batch \in [Thread -> Seq(Items)]
  BY <1>2, Zenon DEF Types
<1>10. \A u \in Thread : u # t => stored'[u] = stored[u]
  BY <1>1, <1>9, Zenon
<1>11. ASSUME k = end PROVE Inv'
  <2>1. batch' = [batch EXCEPT ![t] = Tail(@)]
    BY <1>1, <1>11, Zenon
  <2>2. stored'[t] = 0 /\ stored' \in [Thread -> Nat]
    BY <1>1, <1>8, <1>9, <1>11, Zenon
  <2>3. batch' \in [Thread -> Seq(Items)] /\ \A u \in Thread : u # t => batch'[u] = batch[u]
    BY <1>1, <1>2, <2>1, PopBatch, Zenon
  <2>4. Types'
    BY <1>1, <1>2, <1>6, <2>2, <2>3, Zenon DEF Types
  <2>5. Shrunk(t)
    BY <1>1, <1>2, <2>1, LinePop, Zenon
  <2>6. Kept /\ Arrived' /\ InOrder' /\ OneThread'
    BY <1>1, <2>5, PopLines, Zenon
  <2>7. Begun'
    BY <1>10, <2>2, <2>3, Zenon DEF Inv, Begun
  <2>8. Done(r)'
    BY <1>5, <1>6, <1>11, Zenon
  <2>9. Tried'
    BY <1>1, <1>3, <1>6, <1>10, <2>2, <2>5, <2>8, PopTries, Zenon
  <2>10. RowHoldsReport' /\ Newest'
    BY <1>1, <1>3, <1>6, <2>6, StatementKeeps, Zenon
  <2>11. IndexNamesQueue'
    BY <1>1, SameIndex, Zenon
  <2> QED
    BY <2>4, <2>6, <2>7, <2>9, <2>10, <2>11, Zenon DEF Inv
<1>12. ASSUME k # end PROVE Inv'
  <2>1. batch' = batch
    BY <1>1, <1>9, <1>12, Zenon
  <2>2. stored'[t] = k /\ stored' \in [Thread -> Nat]
    BY <1>1, <1>8, <1>9, <1>12, Zenon
  <2>3. Types'
    BY <1>1, <1>2, <1>6, <2>1, <2>2, Zenon DEF Types
  <2>4. Line' = Line
    BY <1>1, <2>1, Zenon DEF Line
  <2>5. Kept
    BY <2>4, Zenon DEF Kept
  <2>6. Arrived'
    BY <1>1, <2>4, Zenon DEF Inv, Arrived
  <2>7. InOrder' /\ OneThread'
    BY <2>4, SameLines, Zenon
  <2>8. k < end
    BY <1>5, <1>6, <1>7, <1>12
  <2>9. Begun'
    <3>1. k < Len(Head(batch[t]).req.results)
      BY <1>5, <2>8, Zenon
    <3> QED
      BY <1>1, <1>10, <2>1, <2>2, <3>1, Zenon DEF Inv, Begun
  <2>10. Tried'
    BY <1>1, <1>3, <1>4, <1>6, <1>10, <2>2, <2>4, CountTries, Zenon
  <2>11. RowHoldsReport' /\ Newest'
    BY <1>1, <1>3, <1>6, <2>5, StatementKeeps, Zenon
  <2>12. IndexNamesQueue'
    BY <1>1, SameIndex, Zenon
  <2> QED
    BY <2>3, <2>6, <2>7, <2>9, <2>10, <2>11, <2>12, Zenon DEF Inv
<1> QED
  BY <1>11, <1>12, Zenon

\* A request of no results leaves its batch.
LEMMA StoresNothing == ASSUME Inv, NEW t \in Thread, store_nothing(t) PROVE Inv'
<1> SUFFICES ASSUME NEW x, x = Head(batch[t]), NEW r, r = <<x.from, x.no>> PROVE Inv'
  BY Zenon
<1>1. /\ batch[t] # <<>> /\ Len(x.req.results) = 0
      /\ batch' = [batch EXCEPT ![t] = Tail(@)]
      /\ index' = index /\ received' = received /\ pc' = pc /\ i' = i
      /\ reportQueues' = reportQueues /\ stored' = stored
      /\ table' = table /\ source' = source /\ last' = last /\ tries' = tries
  BY Zenon DEF store_nothing, written
<1>2. Types
  BY Zenon DEF Inv
<1>3. AtRequest(t, x, r)
  BY <1>1, StoresAt, Zenon
<1>4. x = Head(batch[t])
  OBVIOUS
<1>5. stored[t] = 0 /\ DOMAIN tries[r] = {}
  <2>1. /\ Len(Results(Lb[r])) = 0 /\ DOMAIN tries[r] = 1 .. Len(Results(Lb[r]))
        /\ stored[t] \in Nat /\ (stored[t] = 0 \/ stored[t] < Len(Results(Lb[r])))
    BY <1>1, <1>3, Zenon DEF AtRequest
  <2> QED
    BY <2>1
<1>6. Done(r)'
  BY <1>1, <1>5, Zenon DEF Done
<1>7. batch' \in [Thread -> Seq(Items)] /\ \A u \in Thread : u # t => batch'[u] = batch[u]
  BY <1>1, <1>2, PopBatch, Zenon
<1>8. Types'
  BY <1>1, <1>2, <1>7, Zenon DEF Types
<1>9. Shrunk(t)
  BY <1>1, <1>2, LinePop, Zenon
<1>10. Kept /\ Arrived' /\ InOrder' /\ OneThread'
  BY <1>1, <1>9, PopLines, Zenon
<1>11. Begun'
  BY <1>1, <1>5, <1>7, Zenon DEF Inv, Begun
<1>12. Tried'
  BY <1>1, <1>3, <1>5, <1>6, <1>9, PopTries, Zenon
<1>13. RowHoldsReport' /\ IndexNamesQueue'
  BY <1>1, SameTable, SameIndex, Zenon
<1>14. Newest'
  BY <1>1, <1>4, <1>10, WritesInOrder, Zenon
<1> QED
  BY <1>8, <1>10, <1>11, <1>12, <1>13, <1>14, Zenon DEF Inv

-----------------------------------------------------------------------------
(* The invariant                                                           *)

\* Nothing has been received, nothing waits and the table is empty.
LEMMA InitInv == Init => Inv
<1> SUFFICES ASSUME Init PROVE Inv
  OBVIOUS
<1>1. /\ index = 0 /\ received = [a \in Agent |-> 0] /\ pc = [a \in Agent |-> "epoll"]
      /\ i = [a \in Agent |-> 0] /\ reportQueues = [t \in Thread |-> <<>>]
      /\ batch = [t \in Thread |-> <<>>] /\ stored = [t \in Thread |-> 0]
      /\ table = [key \in {} |-> 0] /\ source = [key \in {} |-> 0] /\ last = [r \in {} |-> 0]
      /\ tries = [r \in Report |-> [k \in 1 .. Len(Results(Lb[r])) |-> 0]]
  BY Zenon DEF Init
<1>2. 0 \in Thread /\ 0 \in 0 .. MaxReports /\ 0 \in Nat /\ <<>> \in Seq(Items)
  BY ReporterAssumption DEF Thread
<1>3. ASSUME NEW r \in Report
      PROVE  /\ tries[r] \in Seq(Nat) /\ DOMAIN tries[r] = 1 .. Len(Results(Lb[r]))
             /\ \A k \in DOMAIN tries[r] : tries[r][k] = 0
             /\ r[1] \in Agent /\ r[2] \in 1 .. MaxReports
  <2>1. Lb[r] \in LbType /\ r[1] \in Agent /\ r[2] \in 1 .. MaxReports
    BY ReporterAssumption DEF Report
  <2>2. Results(Lb[r]) \in Seq(HostCallResults)
    BY <2>1, ResultsAre, Zenon
  <2>3. ASSUME NEW n \in Nat PROVE [k \in 1 .. n |-> 0] \in Seq(Nat)
    OBVIOUS
  <2>4. Len(Results(Lb[r])) \in Nat
    BY <2>2, SeqPlaces, Zenon
  <2>5. tries[r] = [k \in 1 .. Len(Results(Lb[r])) |-> 0]
    BY <1>1, Zenon
  <2> QED
    BY <2>1, <2>3, <2>4, <2>5, Zenon
<1>4. Types
  <2>1. tries \in [Report -> Seq(Nat)]
    BY <1>1, <1>3, Zenon
  <2>2. \A a \in Agent : pc[a] # "send"
    BY <1>1
  <2>3. pc \in [Agent -> Steps]
    BY <1>1, Zenon DEF Steps
  <2>4. /\ received \in [Agent -> 0 .. MaxReports] /\ i \in [Agent -> Nat]
        /\ reportQueues \in [Thread -> Seq(Items)] /\ batch \in [Thread -> Seq(Items)]
        /\ stored \in [Thread -> Nat]
    BY <1>1, <1>2, Zenon
  <2> QED
    BY <1>1, <1>2, <1>3, <2>1, <2>2, <2>3, <2>4, Zenon DEF Types
<1>5. \A t \in Thread : 1 .. Len(Line[t]) = {}
  <2>1. ASSUME NEW t \in Thread PROVE Line[t] = <<>> \o <<>>
    BY <1>1, Zenon DEF Line
  <2>2. Len(<<>> \o <<>>) = 0
    OBVIOUS
  <2> QED
    BY <2>1, <2>2
<1>6. Arrived /\ InOrder /\ OneThread
  BY <1>5, Zenon DEF Arrived, InOrder, OneThread
<1>7. Begun
  BY <1>1, Zenon DEF Begun
<1>8. Tried
  <2>1. ASSUME NEW r \in Report PROVE Untried(r) /\ NotYet(r)
    <3>1. received[r[1]] < r[2]
      BY <1>1, <1>3, ReporterAssumption
    <3> QED
      BY <1>3, <3>1, Zenon DEF Untried, NotYet
  <2> QED
    BY <1>5, <2>1, Zenon DEF Tried
<1>9. DOMAIN last = {} /\ DOMAIN table = {} /\ DOMAIN source = {}
  BY <1>1, Zenon
<1>10. Newest /\ RowHoldsReport /\ IndexNamesQueue
  BY <1>1, <1>2, <1>9, Zenon DEF Newest, RowHoldsReport, IndexNamesQueue
<1> QED
  BY <1>4, <1>6, <1>7, <1>8, <1>10, Zenon DEF Inv

\* Every step of get_report_status and of the storing threads keeps the
\* invariant.
LEMMA NextInv == ASSUME Faithful, Inv, [Next]_vars PROVE Inv'
<1>1. ASSUME NEW a \in Agent, Receive(a) PROVE Inv'
  <2>1. CASE get_report_status(a)
    BY <2>1, Receives, Zenon
  <2>2. CASE send(a)
    BY <2>2, Sends, Zenon
  <2>3. CASE read_index(a) \/ count_index(a) \/ wrap_index(a)
    BY <2>3, Counts, Zenon
  <2>4. CASE send_nowhere(a)
    BY <2>4, SendsNowhere, Zenon
  <2> QED
    BY <1>1, <2>1, <2>2, <2>3, <2>4, Zenon DEF Receive
<1>2. ASSUME NEW t \in Thread, Save(t) PROVE Inv'
  <2>1. CASE thread_report(t)
    BY <2>1, Takes, Zenon
  <2>2. CASE store_nothing(t)
    BY <2>2, StoresNothing, Zenon
  <2>3. ASSUME NEW done \in BOOLEAN, store(t, done) PROVE Inv'
    BY <2>3, Stores, Zenon
  <2> QED
    BY <1>2, <2>1, <2>2, <2>3, Zenon DEF Save
<1>3. CASE UNCHANGED vars
  <2>1. /\ index' = index /\ received' = received /\ pc' = pc /\ i' = i
        /\ reportQueues' = reportQueues /\ batch' = batch /\ stored' = stored
        /\ table' = table /\ source' = source /\ last' = last /\ tries' = tries
    BY <1>3, Zenon DEF vars, written
  <2> QED
    BY <2>1, NothingChanged, Zenon
<1> QED
  BY <1>1, <1>2, <1>3, Zenon DEF Next

\* A report in a line is in one place, and has not all been tried.
LEMMA InvStoredOnce == Inv => StoredOnce
<1>0. Inv => IndexNamesQueue
  BY Zenon DEF Inv
<1> SUFFICES ASSUME Inv, NEW a \in Agent, NEW n \in 1 .. received[a]
             PROVE  /\ \A k \in DOMAIN tries[<<a, n>>] : tries[<<a, n>>][k] <= 1
                    /\ \A p, q \in Places(a, n) : p = q
                    /\ Places(a, n) = {} =>
                          \A k \in DOMAIN tries[<<a, n>>] : tries[<<a, n>>][k] = 1
                    /\ Places(a, n) # {} /\ tries[<<a, n>>] # <<>> =>
                          \E k \in DOMAIN tries[<<a, n>>] : tries[<<a, n>>][k] = 0
  BY <1>0, Zenon DEF StoredOnce
<1> DEFINE r == <<a, n>>
<1>1. Types /\ Begun /\ Arrived /\ Tried
  BY Zenon DEF Inv
<1>2. received[a] \in 0 .. MaxReports
  BY <1>1, Zenon DEF Types
<1>3. n \in 1 .. MaxReports /\ ~(received[a] < n)
  BY <1>2, ReporterAssumption
<1>4. r \in Report /\ r[1] = a /\ r[2] = n
  BY <1>3 DEF Report
<1> HIDE DEF r
<1>5. NotYet(r) <=> HandedOver(a, n)
  BY <1>3, <1>4, Zenon DEF NotYet
<1>6. ASSUME NEW p
      PROVE  p \in Places(a, n) <=>
                \/ p = <<a, 0>> /\ HandedOver(a, n)
                \/ \E t \in Thread : \E k \in DOMAIN Line[t] : p = <<t, k>> /\ WaitsAt(r, t, k)
  <2>1. p \in {q \in {a} \X {0} : HandedOver(a, n)} <=> p = <<a, 0>> /\ HandedOver(a, n)
    OBVIOUS
  <2>2. ASSUME NEW t \in Thread
        PROVE  p \in {q \in {t} \X DOMAIN Line[t] : Waits(a, n, t, q[2])} <=>
                  \E k \in DOMAIN Line[t] : p = <<t, k>> /\ WaitsAt(r, t, k)
    <3>1. ASSUME NEW k PROVE Waits(a, n, t, k) <=> WaitsAt(r, t, k)
      BY <1>4, Zenon DEF Waits, WaitsAt
    <3>2. p \in {t} \X DOMAIN Line[t] <=> \E k \in DOMAIN Line[t] : p = <<t, k>>
      OBVIOUS
    <3>3. \A k : <<t, k>>[2] = k
      OBVIOUS
    <3> QED
      BY <3>1, <3>2, <3>3, Zenon
  <2> DEFINE A == {q \in {a} \X {0} : HandedOver(a, n)}
             B(t) == {q \in {t} \X DOMAIN Line[t] : Waits(a, n, t, q[2])}
  <2>3. Places(a, n) = A \cup UNION {B(t) : t \in Thread}
    BY Zenon DEF Places
  <2>4. p \in A <=> p = <<a, 0>> /\ HandedOver(a, n)
    BY <2>1, Zenon
  <2>5. \A t \in Thread : p \in B(t) <=> \E k \in DOMAIN Line[t] : p = <<t, k>> /\ WaitsAt(r, t, k)
    BY <2>2, Zenon
  <2> HIDE DEF A, B
  <2>6. p \in Places(a, n) <=> p \in A \/ \E t \in Thread : p \in B(t)
    BY <2>3, Zenon
  <2> QED
    BY <2>4, <2>5, <2>6, Zenon
<1>7. \A t \in Thread : DOMAIN Line[t] = 1 .. Len(Line[t]) /\ Len(Line[t]) \in Nat
  <2>1. ASSUME NEW t \in Thread PROVE DOMAIN Line[t] = 1 .. Len(Line[t]) /\ Len(Line[t]) \in Nat
    <3>1. Line[t] \in Seq(Items)
      BY <1>1, LineIs, Zenon
    <3> QED
      BY <3>1, SeqPlaces, Zenon
  <2> QED
    BY <2>1, Zenon
<1>8. ASSUME NEW t \in Thread, NEW k \in DOMAIN Line[t], WaitsAt(r, t, k) PROVE ~HandedOver(a, n)
  <2>1. Line[t][k].from = a /\ Line[t][k].no = n
    BY <1>4, <1>8, Zenon DEF WaitsAt
  <2>2. pc[a] = "send" => n < received[a]
    BY <1>1, <1>7, <2>1, Zenon DEF Arrived
  <2> QED
    BY <1>2, <1>3, <2>2 DEF HandedOver
<1>9. ASSUME NEW p \in Places(a, n), NEW q \in Places(a, n) PROVE p = q
  <2>1. \/ p = <<a, 0>> /\ HandedOver(a, n)
        \/ \E t \in Thread : \E k \in DOMAIN Line[t] : p = <<t, k>> /\ WaitsAt(r, t, k)
    BY <1>6, Zenon
  <2>2. \/ q = <<a, 0>> /\ HandedOver(a, n)
        \/ \E t \in Thread : \E k \in DOMAIN Line[t] : q = <<t, k>> /\ WaitsAt(r, t, k)
    BY <1>6, Zenon
  <2>3. ASSUME NEW t \in Thread, NEW k \in DOMAIN Line[t], p = <<t, k>>, WaitsAt(r, t, k),
               NEW u \in Thread, NEW l \in DOMAIN Line[u], q = <<u, l>>, WaitsAt(r, u, l)
        PROVE  p = q
    <3>1. t = u /\ k = l
      BY <1>7, <2>3, OnePlace, Zenon
    <3> QED
      BY <2>3, <3>1, Zenon
  <2> QED
    BY <1>8, <2>1, <2>2, <2>3, Zenon
<1>10. ASSUME Places(a, n) = {} PROVE Done(r)
  <2>1. ~NotYet(r) /\ ~\E t \in Thread : \E k \in 1 .. Len(Line[t]) : WaitsAt(r, t, k)
    BY <1>5, <1>6, <1>7, <1>10, Zenon
  <2> QED
    BY <1>1, <1>4, <2>1, Zenon DEF Tried
<1>11. tries[r] \in Seq(Nat) /\ DOMAIN tries[r] = 1 .. Len(Results(Lb[r]))
  BY <1>1, <1>4, Zenon DEF Types
<1>12. ASSUME Places(a, n) # {}
       PROVE  \/ Untried(r)
              \/ \E c \in Nat : TriedUpto(r, c) /\ (c = 0 \/ c < Len(Results(Lb[r])))
  <2>1. CASE HandedOver(a, n)
    BY <1>1, <1>4, <1>5, <2>1, Zenon DEF Tried
  <2>2. CASE \E t \in Thread : \E k \in DOMAIN Line[t] : WaitsAt(r, t, k)
    <3>0. PICK t \in Thread : \E k \in 1 .. Len(Line[t]) : WaitsAt(r, t, k)
      BY <1>7, <2>2, Zenon
    <3>1. PICK k \in 1 .. Len(Line[t]) : WaitsAt(r, t, k)
      BY <3>0, Zenon
    <3>2. TriedUpto(r, IF k = 1 THEN stored[t] ELSE 0)
      BY <1>1, <1>4, <3>1, Zenon DEF Tried
    <3>3. CASE k = 1 /\ stored[t] # 0
      <4> DEFINE x == Head(batch[t])
      <4>1. batch[t] # <<>> /\ stored[t] < Len(x.req.results) /\ stored[t] \in Nat
        BY <1>1, <3>3, Zenon DEF Begun, Types
      <4>2. Line[t][1] = x /\ x \in Items
        BY <1>1, <4>1, FirstOf, Zenon
      <4>3. <<x.from, x.no>> = r
        BY <3>1, <3>3, <4>2, Zenon DEF WaitsAt, r
      <4>4. x.req.results = Results(Lb[r])
        BY <4>2, <4>3, ItemIs, Zenon
      <4>5. TriedUpto(r, stored[t])
        BY <3>2, <3>3, Zenon
      <4> QED
        BY <4>1, <4>4, <4>5, Zenon
    <3>4. CASE ~(k = 1 /\ stored[t] # 0)
      <4>1. TriedUpto(r, 0)
        BY <3>2, <3>4, Zenon
      <4>2. 0 \in Nat
        OBVIOUS
      <4> QED
        BY <4>1, <4>2, Zenon
    <3> QED
      BY <3>3, <3>4, Zenon
  <2> QED
    BY <1>6, <1>12, <2>1, <2>2, Zenon
<1>13. ASSUME Places(a, n) # {}, tries[r] # <<>>
       PROVE  \E k \in DOMAIN tries[r] : tries[r][k] = 0
  <2> DEFINE end == Len(Results(Lb[r]))
  <2>1. DOMAIN tries[r] = 1 .. Len(tries[r]) /\ Len(tries[r]) \in Nat /\ Len(tries[r]) # 0
    BY <1>11, <1>13
  <2>2. end \in Nat
    <3>1. Lb[r] \in LbType
      BY <1>4, ReporterAssumption DEF Report
    <3>2. Results(Lb[r]) \in Seq(HostCallResults)
      BY <3>1, ResultsAre, Zenon
    <3> QED
      BY <3>2, SeqPlaces, Zenon
  <2> HIDE DEF end
  <2>3. DOMAIN tries[r] = 1 .. end
    BY <1>11, Zenon DEF end
  <2>4. end \in DOMAIN tries[r]
    BY <2>1, <2>2, <2>3
  <2>5. CASE Untried(r)
    BY <2>4, <2>5, Zenon DEF Untried
  <2>6. ASSUME NEW c \in Nat, TriedUpto(r, c), c = 0 \/ c < end PROVE tries[r][end] = 0
    <3>1. tries[r][end] = IF end <= c THEN 1 ELSE 0
      BY <2>4, <2>6, Zenon DEF TriedUpto
    <3> QED
      BY <2>2, <2>3, <2>4, <2>6, <3>1
  <2> QED
    BY <1>12, <1>13, <2>4, <2>5, <2>6, Zenon DEF end
<1>14. \A k \in DOMAIN tries[r] : tries[r][k] <= 1
  <2>1. CASE Places(a, n) = {}
    BY <1>10, <2>1 DEF Done
  <2>2. CASE Places(a, n) # {}
    <3>1. \/ \A k \in DOMAIN tries[r] : tries[r][k] = 0
          \/ \E c \in Nat : \A k \in DOMAIN tries[r] : tries[r][k] = IF k <= c THEN 1 ELSE 0
      BY <1>12, <2>2, Zenon DEF Untried, TriedUpto
    <3>2. \A k \in DOMAIN tries[r] : tries[r][k] = 0 \/ tries[r][k] = 1
      BY <3>1, Zenon
    <3> QED
      BY <3>2
  <2> QED
    BY <2>1, <2>2, Zenon
<1> QED
  BY <1>9, <1>10, <1>13, <1>14, Zenon DEF r, Done

-----------------------------------------------------------------------------
(* The theorems                                                            *)

\* The invariant of the reporter holds if the encoding is faithful.
THEOREM SpecInv == Faithful => (Spec => []Inv)
<1> SUFFICES ASSUME Faithful PROVE Spec => []Inv
  OBVIOUS
<1>1. Init => Inv
  BY InitInv
<1>2. Inv /\ [Next]_vars => Inv'
  BY NextInv, Zenon
<1> QED
  BY <1>1, <1>2, PTL DEF Spec

\* Whatever the agents report, however the receiving threads share the index
\* and whichever statements fail, every row holds what the report it was
\* written from said of the host its key names: the message an agent makes is
\* parsed to the same numbers, and a row is overwritten as a whole
\* (load_balance.cpp:334-372, store_report.cpp:27-44).
THEOREM SpecRowHoldsReport == Faithful => (Spec => []RowHoldsReport)
<1> SUFFICES ASSUME Faithful PROVE Spec => []RowHoldsReport
  OBVIOUS
<1>1. Inv => RowHoldsReport
  BY Zenon DEF Inv
<1> QED
  BY <1>1, SpecInv, PTL

\* For any number of agents, threads and reports, no report is lost between
\* the queues or stored twice, and the unlocked index names no queue only while
\* a thread has counted and not wrapped (reporter_service.cpp:19-22,
\* thread_queue.h:33-70, store_thread.cpp:21-32).
THEOREM SpecStoredOnce == Faithful => (Spec => []StoredOnce)
<1> SUFFICES ASSUME Faithful PROVE Spec => []StoredOnce
  OBVIOUS
<1>1. Inv => StoredOnce
  BY InvStoredOnce, Zenon
<1> QED
  BY <1>1, SpecInv, PTL

\* A write keeps the order of what its own thread wrote before.
LEMMA WriteNotBack ==
    ASSUME Inv, NEW t \in Thread, batch[t] # <<>>, NEW x, x = Head(batch[t]), NEW key,
           last' = Put(last, <<x.from, key>>, [no |-> x.no, by |-> t]),
           NEW r \in DOMAIN last, last'[r].no < last[r].no
    PROVE  last'[r].by # last[r].by
<1>1. Types /\ Newest
  BY Zenon DEF Inv
<1>2. 1 \in 1 .. Len(Line[t]) /\ Line[t][1] = x /\ x \in Items
  BY <1>1, FirstOf, Zenon
<1>3. x.no \in 1 .. MaxReports
  BY <1>2, ItemIs, Zenon
<1>4. /\ last[r].no \in Nat
      /\ \A k \in 1 .. Len(Line[last[r].by]) :
            Line[last[r].by][k].from = r[1] => last[r].no <= Line[last[r].by][k].no
  BY <1>1, Zenon DEF Newest
<1> DEFINE at == <<x.from, key>>
           e == [no |-> x.no, by |-> t]
<1>5. at[1] = x.from /\ e.no = x.no /\ e.by = t /\ last' = Put(last, at, e)
  OBVIOUS
<1> HIDE DEF at, e
<1>6. last'[r] = IF r = at THEN e ELSE last[r]
  BY <1>5, Zenon DEF Put
<1>7. r = at
  <2>1. ASSUME r # at PROVE FALSE
    <3>1. last'[r] = last[r]
      BY <1>6, <2>1, Zenon
    <3> QED
      BY <1>4, <3>1
  <2> QED
    BY <2>1, Zenon
<1>8. last'[r].no = x.no /\ last'[r].by = t
  BY <1>5, <1>6, <1>7, Zenon
<1>9. ASSUME last[r].by = t PROVE last[r].no <= x.no
  BY <1>2, <1>4, <1>5, <1>7, <1>9, Zenon
<1>10. ~(last[r].no <= x.no)
  BY <1>3, <1>4, <1>8, ReporterAssumption
<1> QED
  BY <1>8, <1>9, <1>10, Zenon

\* What a thread has written of an agent's host it never sets back to an older
\* report of that agent, for any number of agents, threads and reports: only
\* another thread's statement can (store_report.cpp:38-44).
THEOREM SpecBackOnlyAcrossThreads == Faithful => (Spec => BackOnlyAcrossThreads)
<1> SUFFICES ASSUME Faithful PROVE Spec => BackOnlyAcrossThreads
  OBVIOUS
<1> DEFINE Back == \A r \in DOMAIN last : last'[r].no < last[r].no => last'[r].by # last[r].by
<1>1. ASSUME Inv, Next PROVE Back
  <2>1. CASE last' = last
    <3>1. \A r \in DOMAIN last : last[r].no \in Nat
      BY <1>1, Zenon DEF Inv, Newest
    <3> QED
      BY <2>1, <3>1
  <2>2. CASE last' # last
    <3>1. PICK t \in Thread : \E done \in BOOLEAN : store(t, done)
      <4>1. ~\E a \in Agent : Receive(a)
        BY <2>2, Zenon DEF Receive, get_report_status, send, send_nowhere, read_index,
                            count_index, wrap_index, written
      <4>2. \A t \in Thread : ~thread_report(t) /\ ~store_nothing(t)
        BY <2>2, Zenon DEF thread_report, store_nothing, written
      <4> QED
        BY <1>1, <4>1, <4>2, Zenon DEF Next, Save
    <3> DEFINE x == Head(batch[t])
               key == Key(x.req, x.req.results[stored[t] + 1])
    <3>2. batch[t] # <<>> /\ last' = Put(last, <<x.from, key>>, [no |-> x.no, by |-> t])
      BY <2>2, <3>1, Zenon DEF store, Written
    <3>3. x = Head(batch[t])
      OBVIOUS
    <3> HIDE DEF x, key
    <3> QED
      BY <1>1, <3>2, <3>3, WriteNotBack, Zenon
  <2> QED
    BY <2>1, <2>2, Zenon
<1>2. Inv /\ [Next]_vars => [Back]_vars
  BY <1>1, Zenon
<1> QED
  BY <1>2, SpecInv, PTL DEF Spec, BackOnlyAcrossThreads
=============================================================================
