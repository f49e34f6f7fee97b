----------------------------- MODULE LarsProofs -----------------------------
(***************************************************************************)
(* What holds of the api and of the reporter, with nothing assumed of the  *)
(* encoding: LarsProtoProofs shows that lars.pb.cc carries every message,  *)
(* ExchangeProofs what follows from that for the programs that exchange    *)
(* them.  The two are proved apart and put together here.                  *)
(***************************************************************************)
EXTENDS LarsProtoProofs, ExchangeProofs

\* What get_host returns is the answer to the request it has just sent,
\* whatever came late or was lost before (lars_api.cpp:93-123).
THEOREM HostAnswersOwn == ApiSpec => []HostAnswersAreOwn
BY MessagesFaithful, SpecHostAnswersAreOwn, Zenon

\* A call returns the code and the hosts of the answer it takes, as the agent
\* said them: get_route with the addresses the numbers of the database stand
\* for, get_host with their octets reversed
\* (lars_api.cpp:111-136,226-254, utils.go:9-12).
THEOREM ReturnsSaid == ApiSpec => []ReturnsWhatWasSaid
BY MessagesFaithful, SpecReturnsWhatWasSaid, Zenon

\* A report about a host of get_host names the number and the port the agent
\* holds, one about a host of get_route the number with its bytes reversed
\* (lars_api.cpp:140-170, route_lb.cpp:100-119).
THEOREM ReportNames == ApiSpec => []ReportNamesHost
BY MessagesFaithful, SpecReportNamesHost, Zenon

\* A row of ServerCallStatus holds what the report that wrote it said of the
\* host, column by column (store_report.cpp:27-44).
THEOREM RowHolds == Spec => []RowHoldsReport
BY MessagesFaithful, SpecRowHoldsReport, Zenon

\* The shared index names a queue except while a thread has counted and not
\* wrapped.  Up to a send with an index that names none, a report is in the
\* hands of one thread at a time until there was one statement for each of its
\* hosts (reporter_service.cpp:19-22,
\* thread_queue.h:33-70, store_thread.cpp:21-32).
THEOREM Stored == Spec => []StoredOnce
BY MessagesFaithful, SpecStoredOnce, Zenon

\* A row goes back to an older report only when another thread than the one
\* that wrote it writes (store_report.cpp:38-44).
THEOREM BackAcrossThreads == Spec => BackOnlyAcrossThreads
BY MessagesFaithful, SpecBackOnlyAcrossThreads, Zenon

=============================================================================
