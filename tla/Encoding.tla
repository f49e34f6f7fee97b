------------------------------ MODULE Encoding ------------------------------
(* What the programs rely on of the encoding of their messages (LarsProto).  *)
(* LarsProtoProofs proves it; the proofs about the programs start from it.   *)
EXTENDS LarsProto

\* A message of type T crosses the network as it is: its bytes are as many as
\* the head says, and parsing them, into whatever an object held before, is
\* successful and gives the message.
Survives(T, m) ==
    /\ ToArray(T, m) \in Seq(Int)
    /\ Len(ToArray(T, m)) = ByteSizeLong(T, m)
    /\ \A old : DOMAIN old = DOMAIN T.new =>
          /\ ParseFromArray(T, ToArray(T, m), old).ok = TRUE
          /\ ParseFromArray(T, ToArray(T, m), old).msg = m

\* Every message the programs exchange survives, and a ReportRequest is far
\* below the length that udp_server::do_read refuses.
Faithful ==
    /\ \A m \in GetRouteRequests : Survives(GetRouteRequest, m)
    /\ \A m \in GetRouteResponses : Survives(GetRouteResponse, m)
    /\ \A m \in ReportStatusRequests : Survives(ReportStatusRequest, m)
    /\ \A m \in GetHostRequests : Survives(GetHostRequest, m)
    /\ \A m \in GetHostResponses : Survives(GetHostResponse, m)
    /\ \A m \in ReportRequests : Survives(ReportRequest, m)
    /\ \A m \in ReportRequests :
          ByteSizeLong(ReportRequest, m) \in Nat /\ ByteSizeLong(ReportRequest, m) <= 61
=============================================================================
