----------------------------- MODULE LarsProto -----------------------------
(***************************************************************************)
(* The messages of lars.proto as lars.pb.cc encodes and decodes them.      *)
(*                                                                         *)
(* A message type has one table for each generated function, translated    *)
(* from that function: the fields of a new object, the fields Clear        *)
(* resets, the fields by tag that parsing knows, the fields serializing    *)
(* writes, those ByteSizeLong counts and those MergeFrom takes over.       *)
(* Nothing but the generator keeps them in step.  The operators after the  *)
(* tables run them; they are the protobuf library.                         *)
(*                                                                         *)
(* A message is a record.  A field of a message type is the sequence of    *)
(* its messages, at most one unless the field is repeated.  An int32 is an *)
(* integer from -2^31 on; a uint32 is taken to be below 2^31.  No program  *)
(* here sends a field another does not know, so unknown fields are skipped *)
(* and not kept.                                                           *)
(***************************************************************************)
EXTENDS Integers, Sequences

\* MessageId and LarsRetCode.
ID_GetHostRequest == 4
ID_GetHostResponse == 5
ID_ReportRequest == 6
ID_API_GetRouteRequest == 7
ID_API_GetRouteResponse == 8
RET_SUCC == 0
RET_OVERLOAD == 1
RET_SYSTEM_ERROR == 2
RET_NOEXIST == 3

-----------------------------------------------------------------------------
(* The tables                                                              *)

HostInfo_new == [ip |-> 0, port |-> 0]
HostInfo_clear == {"ip", "port"}
HostInfo_parse == {<<8, "ip", "int32">>, <<16, "port", "int32">>}
HostInfo_write == << <<1, "ip", "int32">>, <<2, "port", "int32">> >>
HostInfo_size == << <<"ip", "int32">>, <<"port", "int32">> >>
HostInfo_merge == {"ip", "port"}
HostInfo ==
    [new |-> HostInfo_new, clear |-> HostInfo_clear, parse |-> HostInfo_parse,
     write |-> HostInfo_write, size |-> HostInfo_size, merge |-> HostInfo_merge]

GetRouteRequest_new == [modid |-> 0, cmdid |-> 0]
GetRouteRequest_clear == {"modid", "cmdid"}
GetRouteRequest_parse == {<<8, "modid", "int32">>, <<16, "cmdid", "int32">>}
GetRouteRequest_write == << <<1, "modid", "int32">>, <<2, "cmdid", "int32">> >>
GetRouteRequest_size == << <<"modid", "int32">>, <<"cmdid", "int32">> >>
GetRouteRequest ==
    [new |-> GetRouteRequest_new, clear |-> GetRouteRequest_clear,
     parse |-> GetRouteRequest_parse, write |-> GetRouteRequest_write,
     size |-> GetRouteRequest_size]

GetRouteResponse_new == [modid |-> 0, cmdid |-> 0, host |-> <<>>]
GetRouteResponse_clear == {"host", "modid", "cmdid"}
GetRouteResponse_parse ==
    {<<8, "modid", "int32">>, <<16, "cmdid", "int32">>, <<26, "host", "repeated">>}
GetRouteResponse_write ==
    << <<1, "modid", "int32">>, <<2, "cmdid", "int32">>, <<3, "host", "repeated">> >>
GetRouteResponse_size ==
    << <<"host", "repeated">>, <<"modid", "int32">>, <<"cmdid", "int32">> >>
GetRouteResponse ==
    [new |-> GetRouteResponse_new, clear |-> GetRouteResponse_clear,
     parse |-> GetRouteResponse_parse, write |-> GetRouteResponse_write,
     size |-> GetRouteResponse_size, of |-> HostInfo]

HostCallResult_new == [ip |-> 0, port |-> 0, succ |-> 0, err |-> 0, overload |-> FALSE]
HostCallResult_clear == {"ip", "port", "succ", "err", "overload"}
HostCallResult_parse ==
    {<<8, "ip", "int32">>, <<16, "port", "int32">>, <<24, "succ", "uint32">>,
     <<32, "err", "uint32">>, <<40, "overload", "bool">>}
HostCallResult_write ==
    << <<1, "ip", "int32">>, <<2, "port", "int32">>, <<3, "succ", "uint32">>,
       <<4, "err", "uint32">>, <<5, "overload", "bool">> >>

\* Mutant: the flag is not counted.
HostCallResult_size_NoOverload ==
    << <<"ip", "int32">>, <<"port", "int32">>, <<"succ", "uint32">>, <<"err", "uint32">> >>

HostCallResult_size ==
    << <<"ip", "int32">>, <<"port", "int32">>, <<"succ", "uint32">>, <<"err", "uint32">>,
       <<"overload", "bool">> >>
HostCallResult_merge == {"ip", "port", "succ", "err", "overload"}
HostCallResult ==
    [new |-> HostCallResult_new, clear |-> HostCallResult_clear,
     parse |-> HostCallResult_parse, write |-> HostCallResult_write,
     size |-> HostCallResult_size, merge |-> HostCallResult_merge]

ReportStatusRequest_new == [modid |-> 0, cmdid |-> 0, caller |-> 0, results |-> <<>>, ts |-> 0]
ReportStatusRequest_clear == {"results", "modid", "cmdid", "caller", "ts"}
ReportStatusRequest_parse ==
    {<<8, "modid", "int32">>, <<16, "cmdid", "int32">>, <<24, "caller", "int32">>,
     <<34, "results", "repeated">>, <<40, "ts", "uint32">>}
ReportStatusRequest_write ==
    << <<1, "modid", "int32">>, <<2, "cmdid", "int32">>, <<3, "caller", "int32">>,
       <<4, "results", "repeated">>, <<5, "ts", "uint32">> >>
ReportStatusRequest_size ==
    << <<"results", "repeated">>, <<"modid", "int32">>, <<"cmdid", "int32">>,
       <<"caller", "int32">>, <<"ts", "uint32">> >>
ReportStatusRequest ==
    [new |-> ReportStatusRequest_new, clear |-> ReportStatusRequest_clear,
     parse |-> ReportStatusRequest_parse, write |-> ReportStatusRequest_write,
     size |-> ReportStatusRequest_size, of |-> HostCallResult]

GetHostRequest_new == [seq |-> 0, modid |-> 0, cmdid |-> 0]
GetHostRequest_clear == {"seq", "modid", "cmdid"}
GetHostRequest_parse ==
    {<<8, "seq", "uint32">>, <<16, "modid", "int32">>, <<24, "cmdid", "int32">>}
GetHostRequest_write ==
    << <<1, "seq", "uint32">>, <<2, "modid", "int32">>, <<3, "cmdid", "int32">> >>
GetHostRequest_size == << <<"seq", "uint32">>, <<"modid", "int32">>, <<"cmdid", "int32">> >>
GetHostRequest ==
    [new |-> GetHostRequest_new, clear |-> GetHostRequest_clear,
     parse |-> GetHostRequest_parse, write |-> GetHostRequest_write,
     size |-> GetHostRequest_size]

GetHostResponse_new == [seq |-> 0, modid |-> 0, cmdid |-> 0, retcode |-> 0, host |-> <<>>]

\* Mutant: the return code is not cleared.
GetHostResponse_clear_NoRetcode == {"host", "seq", "modid", "cmdid"}

GetHostResponse_clear == {"host", "seq", "modid", "cmdid", "retcode"}
GetHostResponse_parse ==
    {<<8, "seq", "uint32">>, <<16, "modid", "int32">>, <<24, "cmdid", "int32">>,
     <<32, "retcode", "int32">>, <<42, "host", "message">>}
GetHostResponse_write ==
    << <<1, "seq", "uint32">>, <<2, "modid", "int32">>, <<3, "cmdid", "int32">>,
       <<4, "retcode", "int32">>, <<5, "host", "message">> >>
GetHostResponse_size ==
    << <<"host", "message">>, <<"seq", "uint32">>, <<"modid", "int32">>, <<"cmdid", "int32">>,
       <<"retcode", "int32">> >>
GetHostResponse ==
    [new |-> GetHostResponse_new, clear |-> GetHostResponse_clear,
     parse |-> GetHostResponse_parse, write |-> GetHostResponse_write,
     size |-> GetHostResponse_size, of |-> HostInfo]

ReportRequest_new == [modid |-> 0, cmdid |-> 0, host |-> <<>>, retcode |-> 0]
ReportRequest_clear == {"host", "modid", "cmdid", "retcode"}
ReportRequest_parse ==
    {<<8, "modid", "int32">>, <<16, "cmdid", "int32">>, <<26, "host", "message">>,
     <<32, "retcode", "int32">>}
ReportRequest_write ==
    << <<1, "modid", "int32">>, <<2, "cmdid", "int32">>, <<3, "host", "message">>,
       <<4, "retcode", "int32">> >>
ReportRequest_size ==
    << <<"host", "message">>, <<"modid", "int32">>, <<"cmdid", "int32">>, <<"retcode", "int32">> >>
ReportRequest ==
    [new |-> ReportRequest_new, clear |-> ReportRequest_clear,
     parse |-> ReportRequest_parse, write |-> ReportRequest_write,
     size |-> ReportRequest_size, of |-> HostInfo]

-----------------------------------------------------------------------------
(* The messages a program here sends: what a field of each type can hold.  *)

INT32 == {n \in Int : -2147483647 - 1 <= n /\ n <= 2147483647}
UINT31 == {n \in Nat : n <= 2147483647}

HostInfos == [ip : INT32, port : INT32]
MaybeHostInfo == {<<>>} \cup {<<h>> : h \in HostInfos}
HostCallResults == [ip : INT32, port : INT32, succ : UINT31, err : UINT31, overload : BOOLEAN]
GetRouteRequests == [modid : INT32, cmdid : INT32]
GetRouteResponses == [modid : INT32, cmdid : INT32, host : Seq(HostInfos)]
ReportStatusRequests ==
    [modid : INT32, cmdid : INT32, caller : INT32, results : Seq(HostCallResults), ts : UINT31]
GetHostRequests == [seq : UINT31, modid : INT32, cmdid : INT32]
GetHostResponses ==
    [seq : UINT31, modid : INT32, cmdid : INT32, retcode : INT32, host : MaybeHostInfo]
ReportRequests == [modid : INT32, cmdid : INT32, host : MaybeHostInfo, retcode : INT32]

-----------------------------------------------------------------------------
(* Varints: groups of 7 bits, the lowest first, each but the last with its *)
(* top bit set.  A negative int32 is extended to 64 bits, ten groups.      *)

Power == <<1, 128, 16384, 2097152, 268435456>>      \* of 128

Group(n, k) == (IF k <= 5 THEN n \div Power[k] ELSE IF n < 0 THEN -1 ELSE 0) % 128

VarintSize(n) ==
    IF n < 0 THEN 10 ELSE IF n < Power[2] THEN 1 ELSE IF n < Power[3] THEN 2
    ELSE IF n < Power[4] THEN 3 ELSE IF n < Power[5] THEN 4 ELSE 5

Varint(n) ==
    [k \in 1 .. VarintSize(n) |->
        IF k = 10 THEN 1 ELSE Group(n, k) + (IF k < VarintSize(n) THEN 128 ELSE 0)]

\* The bytes of the varint b begins with, 0 if it is cut off; its low 32 bits.
EndsAt(b, k) == b[k] < 128 /\ \A j \in 1 .. k - 1 : b[j] >= 128
VarintLength(b) ==
    IF \E k \in 1 .. Len(b) : EndsAt(b, k) THEN CHOOSE k \in 1 .. Len(b) : EndsAt(b, k) ELSE 0

Int32(b) ==
    LET n == VarintLength(b)
        at(k) == IF k <= n THEN b[k] % 128 ELSE 0
        top == ((at(5) + 8) % 16) - 8       \* four bits with their sign
    IN  at(1) + Power[2] * at(2) + Power[3] * at(3) + Power[4] * at(4) + Power[5] * top

-----------------------------------------------------------------------------
(* Serializing.  Only a message that is not inside another has fields of a *)
(* message type, so the functions of a type come in two forms.             *)

\* What the fields of a table, or the messages of a field, give in turn.
Join(n, ss) ==
    LET from[i \in 1 .. n + 1] == IF i > n THEN <<>> ELSE ss[i] \o from[i + 1] IN from[1]
Total(n, ns) ==
    LET from[i \in 1 .. n + 1] == IF i > n THEN 0 ELSE ns[i] + from[i + 1] IN from[1]

IsMessage(type) == type \in {"message", "repeated"}

\* Nothing is written for 0 and FALSE.
Number(v, type) == IF type = "bool" THEN (IF v THEN 1 ELSE 0) ELSE v
ScalarSize(v, type) ==
    LET n == Number(v, type) IN IF n = 0 THEN 0 ELSE 1 + VarintSize(n)
ScalarArray(no, v, type) ==
    LET n == Number(v, type) IN IF n = 0 THEN <<>> ELSE <<8 * no>> \o Varint(n)

InnerSize(T, msg) ==
    Total(Len(T.size), [i \in 1 .. Len(T.size) |-> ScalarSize(msg[T.size[i][1]], T.size[i][2])])
InnerArray(T, msg) ==
    Join(Len(T.write), [i \in 1 .. Len(T.write) |->
             ScalarArray(T.write[i][1], msg[T.write[i][2]], T.write[i][3])])

\* A message after its size, which is that of the other function.
MessageSize(T, msg) == 1 + VarintSize(InnerSize(T, msg)) + InnerSize(T, msg)
MessageArray(T, no, msg) ==
    <<8 * no + 2>> \o (Varint(InnerSize(T, msg)) \o InnerArray(T, msg))

FieldSize(T, v, type) ==
    IF IsMessage(type) THEN Total(Len(v), [k \in 1 .. Len(v) |-> MessageSize(T.of, v[k])])
    ELSE ScalarSize(v, type)
FieldArray(T, no, v, type) ==
    IF IsMessage(type) THEN Join(Len(v), [k \in 1 .. Len(v) |-> MessageArray(T.of, no, v[k])])
    ELSE ScalarArray(no, v, type)

ByteSizeLong(T, msg) ==
    Total(Len(T.size), [i \in 1 .. Len(T.size) |-> FieldSize(T, msg[T.size[i][1]], T.size[i][2])])
ToArray(T, msg) ==
    Join(Len(T.write), [i \in 1 .. Len(T.write) |->
             FieldArray(T, T.write[i][1], msg[T.write[i][2]], T.write[i][3])])

-----------------------------------------------------------------------------
(* Parsing: fields are read until the bytes end or one is cut off; what    *)
(* has been read by then is in the message.                                *)

\* The field b begins with: its tag, its number, how long the number is and
\* where the field ends.
Field(b) ==
    LET n == Int32(Tail(b))
        len == VarintLength(Tail(b))
    IN  [tag |-> b[1], n |-> n, len |-> len,
         last |-> 1 + len + (IF b[1] % 8 = 2 THEN n ELSE 0)]

\* Its row in the table of a type.
Known(T, tag) == \E r \in T.parse : r[1] = tag
Row(T, tag) == CHOOSE r \in T.parse : r[1] = tag

\* One turn of the loop, rest being what is left of the bytes.
CutOff(s, f) == f.len = 0 \/ f.last > Len(s.rest)
Behind(s, f) == SubSeq(s.rest, f.last + 1, Len(s.rest))

InnerTurn(T, s, f) ==
    IF CutOff(s, f) THEN [rest |-> s.rest, msg |-> s.msg, ok |-> FALSE]
    ELSE IF ~Known(T, f.tag) THEN [rest |-> Behind(s, f), msg |-> s.msg, ok |-> TRUE]
    ELSE LET r == Row(T, f.tag)
         IN  [rest |-> Behind(s, f), ok |-> TRUE,
              msg |-> [s.msg EXCEPT ![r[2]] = IF r[3] = "bool" THEN f.n # 0 ELSE f.n]]

Start(b, msg) == [rest |-> b, msg |-> msg, ok |-> TRUE]
Ended(s) == s.rest = <<>> \/ ~s.ok

InnerPartial(T, b, msg) ==
    LET at[k \in 0 .. Len(b)] ==
            IF k = 0 THEN Start(b, msg)
            ELSE LET s == at[k - 1] IN IF Ended(s) THEN s ELSE InnerTurn(T, s, Field(s.rest))
    IN  at[CHOOSE k \in 0 .. Len(b) : Ended(at[k])]

\* A message is parsed into the one that is there, or into one more.
Sub(T, s, f, r) ==
    InnerPartial(T.of, SubSeq(s.rest, f.len + 2, f.last),
                 IF r[3] = "message" /\ s.msg[r[2]] # <<>> THEN s.msg[r[2]][1] ELSE T.of.new)

Turn(T, s, f) ==
    IF CutOff(s, f) \/ ~Known(T, f.tag) \/ ~IsMessage(Row(T, f.tag)[3])
    THEN InnerTurn(T, s, f)
    ELSE LET r == Row(T, f.tag)
             sub == Sub(T, s, f, r)
         IN  [rest |-> Behind(s, f), ok |-> sub.ok,
              msg |-> [s.msg EXCEPT ![r[2]] =
                          IF r[3] = "message" THEN <<sub.msg>> ELSE Append(@, sub.msg)]]

MergePartial(T, b, msg) ==
    LET at[k \in 0 .. Len(b)] ==
            IF k = 0 THEN Start(b, msg)
            ELSE LET s == at[k - 1] IN IF Ended(s) THEN s ELSE Turn(T, s, Field(s.rest))
    IN  at[CHOOSE k \in 0 .. Len(b) : Ended(at[k])]

Clear(T, msg) == [f \in DOMAIN msg |-> IF f \in T.clear THEN T.new[f] ELSE msg[f]]

\* The message is cleared, then parsed into.
ParseFromArray(T, b, msg) == MergePartial(T, b, Clear(T, msg))

\* The message is cleared and takes what is set in the other.
CopyFrom(T, msg, from) ==
    [f \in DOMAIN msg |->
        IF f \in T.merge /\ from[f] # T.new[f] THEN from[f] ELSE Clear(T, msg)[f]]
=============================================================================
