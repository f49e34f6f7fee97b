---------------------------- MODULE LoadBalance ----------------------------
(***************************************************************************)
(* The load balancer the agent keeps for one modid/cmdid: class            *)
(* load_balance with its host_info objects (load_balance.cpp,              *)
(* host_info.cpp) and the route_lb methods through which every thread      *)
(* reaches it (route_lb.cpp).  Each of these methods runs from end to end  *)
(* under route_lb::_mutex, so each is one action; the actors are the UDP   *)
(* server thread (get_host, get_route, report_host), the dns client thread *)
(* (update_host, reset_lb_status) and the clock.  Modules are independent  *)
(* of one another, so one of them is modelled.                             *)
(*                                                                         *)
(* A host is its ip+port key.  The host_info a key points to is `info`; a  *)
(* key whose object was deleted but that is still in _host_map is          *)
(* dangling.  get_route only reads such an object and answers with what it *)
(* finds in the freed memory.  A step that would change one (or take the   *)
(* front of an empty list) has no defined outcome: it sets `ub`, after     *)
(* which the handlers are no longer described.                             *)
(***************************************************************************)
EXTENDS Naturals, Sequences, FiniteSets, Functions

CONSTANTS
    Host,               \* the ip+port keys
    probe_num,          \* struct load_balance_config
    init_succ_cnt, init_err_cnt,
    ErrNum, ErrDen,     \* err_rate  = ErrNum / ErrDen
    SuccNum, SuccDen,   \* succ_rate = SuccNum / SuccDen
    contin_err_limit, contin_succ_limit,
    idle_timeout, overload_timeout, update_timeout,
    MaxReports          \* bound: reports counted in one window of a host

ASSUME HostAssumption == IsFiniteSet(Host)

ASSUME ConfigAssumption ==
    /\ probe_num \in Nat \ {0}
    /\ init_succ_cnt \in Nat /\ init_err_cnt \in Nat
    /\ ErrNum \in Nat /\ ErrDen \in Nat \ {0}
    /\ SuccNum \in Nat /\ SuccDen \in Nat \ {0}
    /\ contin_err_limit \in Nat \ {0} /\ contin_succ_limit \in Nat \ {0}
    /\ idle_timeout \in Nat /\ overload_timeout \in Nat
    /\ update_timeout \in Nat /\ MaxReports \in Nat

VARIABLES
    exists,         \* the mod has a load_balance in _route_lb_map
    host_map,       \* keys of _host_map
    allocated,      \* keys whose host_info has not been deleted
    info,           \* the host_info objects
    idle_list, overload_list,
    access_cnt,
    status,
    update_age,     \* time(NULL) - last_update_time, saturating
    rsp,            \* answer of the last get_host or get_route, with its history
    reported,       \* results of the last ReportStatusRequest committed
    unsent,         \* history: hosts that no commit has sent since they were made
    remote,         \* history: the hosts of the last DNS answer applied
    ub              \* a step with no defined outcome was taken

objects == <<host_map, allocated, info>>
lists == <<idle_list, overload_list>>
pulling == <<status, update_age>>
committed == <<reported, unsent>>
vars == <<exists, objects, lists, access_cnt, pulling, rsp, committed, remote, ub>>

RetCode == {"RET_SUCC", "RET_OVERLOAD", "RET_NOEXIST"}

\* `age` is the time since idle_ts, or since overload_ts when overloaded.
HostInfo == [vsucc : Nat, verr : Nat, rsucc : Nat, rerr : Nat,
             contin_succ : Nat, contin_err : Nat,
             overload : BOOLEAN, age : Nat]

HostCallResult == [host : Host, succ : Nat, err : Nat, overload : BOOLEAN]

-----------------------------------------------------------------------------
(* host_info                                                               *)

set_idle == [vsucc |-> init_succ_cnt, verr |-> 0, rsucc |-> 0, rerr |-> 0,
             contin_succ |-> 0, contin_err |-> 0,
             overload |-> FALSE, age |-> 0]

set_overload == [vsucc |-> 0, verr |-> init_err_cnt, rsucc |-> 0, rerr |-> 0,
                 contin_succ |-> 0, contin_err |-> 0,
                 overload |-> TRUE, age |-> 0]

\* A new host_info has the fields set_idle would give it.
new_host_info == set_idle

-----------------------------------------------------------------------------
(* The std::list operations the handlers use                               *)

\* The sequences that hold each element of S once.
Orders(S) == Bijection(1 .. Cardinality(S), S)

\* Mutant: deleted hosts stay in the list.
Survivors_All(l, S) == {l}

\* The list l without the hosts outside S, in the order of l.
Survivors(l, S) ==
    {t \in Orders(Range(l) \cap S) :
        \A m, n \in DOMAIN t : m < n =>
            \E a, b \in DOMAIN l : a < b /\ l[a] = t[m] /\ l[b] = t[n]}

-----------------------------------------------------------------------------
(* load_balance::report and load_balance::commit                           *)

ErrRateHigh(i) == i.verr * ErrDen > ErrNum * (i.vsucc + i.verr)
SuccRateHigh(i) == i.vsucc * SuccDen > SuccNum * (i.vsucc + i.verr)

TurnsOverload(i) == ErrRateHigh(i) \/ i.contin_err >= contin_err_limit
TurnsIdle(i) == SuccRateHigh(i) \/ i.contin_succ >= contin_succ_limit

\* Mutant: an overloaded host is never forced back by the timeout.
WindowOver_IdleOnly(i) == ~i.overload /\ i.age >= idle_timeout

WindowOver(i) == i.age >= IF i.overload THEN overload_timeout ELSE idle_timeout

\* Mutant: a failure is not added to the count that is reported.
Counted_NoRealErr(i, succ) ==
    IF succ
    THEN [i EXCEPT !.vsucc = @ + 1, !.rsucc = @ + 1,
                   !.contin_succ = @ + 1, !.contin_err = 0]
    ELSE [i EXCEPT !.verr = @ + 1, !.contin_err = @ + 1, !.contin_succ = 0]

Counted(i, succ) ==
    IF succ
    THEN [i EXCEPT !.vsucc = @ + 1, !.rsucc = @ + 1,
                   !.contin_succ = @ + 1, !.contin_err = 0]
    ELSE [i EXCEPT !.verr = @ + 1, !.rerr = @ + 1,
                   !.contin_err = @ + 1, !.contin_succ = 0]

\* Mutant: consecutive errors are not looked at.
Judged_RateOnly(i, succ) ==
    IF ~i.overload /\ ~succ /\ ErrRateHigh(i) THEN set_overload
    ELSE IF i.overload /\ succ /\ TurnsIdle(i) THEN set_idle
    ELSE IF WindowOver(i) THEN set_idle
    ELSE i

Judged(i, succ) ==
    IF ~i.overload /\ ~succ /\ TurnsOverload(i) THEN set_overload
    ELSE IF i.overload /\ succ /\ TurnsIdle(i) THEN set_idle
    ELSE IF WindowOver(i) THEN set_idle
    ELSE i

Result(h, i, flag) == [host |-> h, succ |-> i.rsucc, err |-> i.rerr, overload |-> flag]
Results(h_info, idle, overload) ==
    {Result(h, h_info[h], FALSE) : h \in Range(idle)}
        \cup {Result(h, h_info[h], TRUE) : h \in Range(overload)}

\* Mutant: the results are collected before the report is applied.
commit_Early ==
    IF host_map = {} THEN UNCHANGED committed
    ELSE reported' = Results(info, idle_list, overload_list) /\ unsent' = {}

commit ==
    IF host_map = {} THEN UNCHANGED committed
    ELSE reported' = Results(info', idle_list', overload_list') /\ unsent' = {}

\* The handler changes a deleted host_info, or takes an empty list's front.
Undefined == ub' = TRUE /\ UNCHANGED <<exists, objects, lists, access_cnt,
                                       pulling, rsp, committed, remote>>

report_host(h, succ) ==
    LET i == Counted(info[h], succ)
        j == Judged(i, succ)
    IN  /\ exists /\ ~ub /\ h \in allocated
        /\ info[h].rsucc + info[h].rerr < MaxReports \/ WindowOver(info[h])
        /\ info' = [info EXCEPT ![h] = j]
        /\ idle_list' \in IF j.overload = i.overload THEN {idle_list}
                          ELSE IF j.overload THEN Survivors(idle_list, Host \ {h})
                          ELSE {Append(idle_list, h)}
        /\ overload_list' \in IF j.overload = i.overload THEN {overload_list}
                              ELSE IF j.overload THEN {Append(overload_list, h)}
                              ELSE Survivors(overload_list, Host \ {h})
        /\ commit
        /\ UNCHANGED <<exists, host_map, allocated, access_cnt, pulling, rsp,
                       remote, ub>>

report_unknown(h) ==
    /\ exists /\ ~ub /\ h \notin host_map
    /\ UNCHANGED <<exists, objects, lists, access_cnt, pulling, rsp, remote, ub>>
    /\ commit

report_deleted(h) ==
    /\ exists /\ ~ub /\ h \in host_map \ allocated
    /\ Undefined

-----------------------------------------------------------------------------
(* load_balance::pull and load_balance::update                             *)

\* The request itself travels through dns_queue.
pull == status' = "PULLING" /\ UNCHANGED update_age

update(hosts) ==
    LET added == hosts \ host_map
        need_delete == host_map \ hosts
    IN  /\ need_delete \subseteq allocated
        /\ host_map' = host_map \cup added
        /\ allocated' = (allocated \cup added) \ need_delete
        /\ info' = [h \in Host |-> IF h \in added \cup need_delete
                                   THEN new_host_info ELSE info[h]]
        /\ \E kept \in Survivors(idle_list, hosts), new \in Orders(added) :
                idle_list' = kept \o new
        /\ overload_list' \in Survivors(overload_list, hosts)
        /\ update_age' = 0
        /\ status' = "NEW"
        /\ unsent' = (unsent \cup added) \cap hosts
        /\ UNCHANGED <<reported, ub>>

update_host(hosts) ==
    /\ exists /\ ~ub /\ hosts # {}
    /\ update(hosts)
    /\ remote' = hosts
    /\ UNCHANGED <<exists, access_cnt, rsp>>

\* need_delete holds a key whose object an earlier update already deleted.
update_deleted(hosts) ==
    /\ exists /\ ~ub /\ hosts # {}
    /\ ~(host_map \ hosts \subseteq allocated)
    /\ Undefined

\* The state without a load_balance; also the one a new object starts from.
\* The reporter is told of neither.
NoObject ==
    /\ host_map' = {} /\ allocated' = {} /\ info' = [h \in Host |-> new_host_info]
    /\ idle_list' = <<>> /\ overload_list' = <<>>
    /\ access_cnt' = 0 /\ update_age' = 0
    /\ unsent' = {} /\ remote' = {}
    /\ UNCHANGED reported

\* Mutant: an empty answer leaves the old hosts in service.
update_host_empty_Keep ==
    /\ exists /\ ~ub
    /\ remote' = {}
    /\ UNCHANGED <<exists, objects, lists, access_cnt, pulling, rsp, committed, ub>>

\* The DNS answer has no host: the load_balance is deleted and erased.
update_host_empty ==
    /\ exists /\ ~ub
    /\ exists' = FALSE
    /\ NoObject
    /\ status' = "NEW"
    /\ UNCHANGED <<rsp, ub>>

reset_lb_status ==
    /\ exists /\ ~ub
    /\ status' = "NEW"
    /\ UNCHANGED <<exists, objects, lists, access_cnt, update_age, rsp,
                   committed, remote, ub>>

-----------------------------------------------------------------------------
(* route_lb::get_host and route_lb::get_route                              *)

refresh == IF status = "NEW" /\ update_age > update_timeout
           THEN pull ELSE UNCHANGED pulling

\* asked, of and freed are history: the call, the DNS answer in force and
\* whether deleted objects were read.
Answer(f, ret, hosts) ==
    rsp' = [asked |-> f, retcode |-> ret, hosts |-> hosts, of |-> remote, freed |-> FALSE]

\* Mutant: the chosen host is pushed to the back but not popped.
Rotated_NoPop(l) == Append(l, Head(l))

\* Mutant: the chosen host stays at the front.
Rotated_Fixed(l) == l

Rotated(l) == Append(Tail(l), Head(l))

\* get_host or get_route of a mod that is not in the map yet.
get_new ==
    /\ ~exists /\ ~ub
    /\ exists' = TRUE
    /\ NoObject
    /\ status' = "PULLING"
    /\ Answer("get_host", "RET_NOEXIST", {})
    /\ UNCHANGED ub

get_host_empty ==
    /\ exists /\ ~ub /\ host_map = {}
    /\ Answer("get_host", "RET_NOEXIST", {})
    /\ UNCHANGED <<exists, objects, lists, access_cnt, pulling, committed, remote, ub>>

\* Mutant: a request served by an idle host does not count towards a probe.
choose_idle_NoCount ==
    /\ idle_list # <<>>
    /\ overload_list = <<>> \/ access_cnt < probe_num
    /\ idle_list' = Rotated(idle_list)
    /\ Answer("get_host", "RET_SUCC", {Head(idle_list)})
    /\ UNCHANGED <<access_cnt, overload_list>>

choose_idle ==
    /\ idle_list # <<>>
    /\ overload_list = <<>> \/ access_cnt < probe_num
    /\ access_cnt' = IF overload_list = <<>> THEN access_cnt ELSE access_cnt + 1
    /\ idle_list' = Rotated(idle_list)
    /\ Answer("get_host", "RET_SUCC", {Head(idle_list)})
    /\ UNCHANGED overload_list

choose_overload ==
    /\ overload_list # <<>> /\ access_cnt >= probe_num
    /\ access_cnt' = 0
    /\ overload_list' = Rotated(overload_list)
    /\ Answer("get_host", "RET_SUCC", {Head(overload_list)})
    /\ UNCHANGED idle_list

choose_none ==
    /\ idle_list = <<>> /\ access_cnt < probe_num
    /\ access_cnt' = access_cnt + 1
    /\ Answer("get_host", "RET_OVERLOAD", {})
    /\ UNCHANGED lists

choice_one_host == choose_idle \/ choose_overload \/ choose_none

get_host ==
    /\ exists /\ ~ub /\ host_map # {}
    /\ choice_one_host
    /\ refresh
    /\ UNCHANGED <<exists, objects, committed, remote, ub>>

\* choice_one_host takes the front of an empty _overload_list.
get_host_undefined ==
    /\ exists /\ ~ub /\ host_map # {}
    /\ idle_list = <<>> /\ overload_list = <<>> /\ access_cnt >= probe_num
    /\ Undefined

get_route ==
    /\ exists /\ ~ub /\ host_map = allocated
    /\ Answer("get_route", "RET_SUCC", host_map)
    /\ refresh
    /\ UNCHANGED <<exists, objects, lists, access_cnt, committed, remote, ub>>

\* get_all_hosts hands out deleted objects too, and what is in the memory of
\* each is put into the answer: a host that was deleted, one that was made
\* there since, or no host at all.
get_route_deleted ==
    /\ exists /\ ~ub /\ host_map # allocated
    /\ \E found \in SUBSET (host_map \ allocated) :
           rsp' = [asked |-> "get_route", retcode |-> "RET_SUCC", hosts |-> allocated \cup found,
                   of |-> remote, freed |-> TRUE]
    /\ refresh
    /\ UNCHANGED <<exists, objects, lists, access_cnt, committed, remote, ub>>

-----------------------------------------------------------------------------

\* One second passes.  Ages stop where no comparison can tell them apart.
AgeCap == IF idle_timeout > overload_timeout THEN idle_timeout ELSE overload_timeout

Tick ==
    /\ info' = [h \in Host |-> IF h \in allocated /\ info[h].age < AgeCap
                               THEN [info[h] EXCEPT !.age = @ + 1] ELSE info[h]]
    /\ update_age' = IF exists /\ update_age <= update_timeout
                     THEN update_age + 1 ELSE update_age
    /\ UNCHANGED <<exists, host_map, allocated, lists, access_cnt, status, rsp,
                   committed, remote, ub>>

Init ==
    /\ exists = FALSE
    /\ host_map = {} /\ allocated = {} /\ info = [h \in Host |-> new_host_info]
    /\ idle_list = <<>> /\ overload_list = <<>>
    /\ access_cnt = 0
    /\ status = "NEW" /\ update_age = 0
    /\ rsp = [asked |-> "get_host", retcode |-> "RET_NOEXIST", hosts |-> {}, of |-> {},
              freed |-> FALSE]
    /\ reported = {} /\ unsent = {}
    /\ remote = {}
    /\ ub = FALSE

Next ==
    \/ get_new \/ get_host_empty \/ get_host \/ get_host_undefined
    \/ get_route \/ get_route_deleted
    \/ \E h \in Host : report_unknown(h) \/ report_deleted(h)
    \/ \E h \in Host, succ \in BOOLEAN : report_host(h, succ)
    \/ \E hosts \in SUBSET Host : update_host(hosts) \/ update_deleted(hosts)
    \/ update_host_empty
    \/ reset_lb_status
    \/ Tick

Spec == Init /\ [][Next]_vars

\* Clients keep asking for hosts, and time passes.
AskedSpec == Spec /\ WF_vars(get_host) /\ WF_vars(Tick)

-----------------------------------------------------------------------------
(* Properties                                                              *)

\* Every variable has the type its declaration in load_balance.h,
\* host_info.h and route_lb.h gives it.
TypeOK ==
    /\ exists \in BOOLEAN
    /\ host_map \subseteq Host /\ allocated \subseteq host_map
    /\ info \in [Host -> HostInfo]
    /\ idle_list \in Seq(Host) /\ overload_list \in Seq(Host)
    /\ access_cnt \in Nat
    /\ status \in {"NEW", "PULLING"} /\ update_age \in Nat
    /\ rsp \in [asked : {"get_host", "get_route"}, retcode : RetCode, hosts : SUBSET Host,
                of : SUBSET Host, freed : BOOLEAN]
    /\ reported \in SUBSET HostCallResult /\ unsent \subseteq allocated
    /\ remote \subseteq Host
    /\ ub \in BOOLEAN

\* The idle and the overload list together hold every allocated host exactly
\* once, and the host's overload flag says which list it is in: update,
\* report and choice_one_host never lose, duplicate or misfile a host.
ListsPartitionHosts ==
    /\ IsInjective(idle_list) /\ IsInjective(overload_list)
    /\ Range(idle_list) = {h \in allocated : ~info[h].overload}
    /\ Range(overload_list) = {h \in allocated : info[h].overload}

\* Between handlers no idle host has an error rate above err_rate or
\* contin_err_limit consecutive errors, and no overloaded host satisfies the
\* conditions on which report makes it idle: a report never leaves a host in
\* the wrong state.
ThresholdsRespected ==
    \A h \in allocated :
        IF info[h].overload THEN ~TurnsIdle(info[h]) ELSE ~TurnsOverload(info[h])

\* The counters report judges by (vsucc, verr) are the counters commit sends
\* (rsucc, rerr) plus the head start set_idle or set_overload gave: the two
\* pairs describe the same window.
WindowsAgree ==
    \A h \in allocated :
        LET i == info[h]
        IN  IF i.overload
            THEN i.vsucc = i.rsucc /\ i.verr = init_err_cnt + i.rerr
            ELSE i.vsucc = init_succ_cnt + i.rsucc /\ i.verr = i.rerr

\* A host the balancer can hand out is one of the last DNS answer, and a host
\* of that answer that it cannot hand out is one an earlier update deleted
\* without erasing its key: update never loses a host in another way.
ServedHostsMatchDns ==
    /\ allocated \subseteq remote
    /\ remote \subseteq host_map

\* The last message to the reporter says of every managed host what it is now,
\* its counters and its list, unless the host was made after that message, and
\* then nothing has been counted for it yet: whatever changes a host commits
\* afterwards (route_lb.cpp:116-122).  A load_balance that is deleted or made
\* anew tells the reporter nothing, so what it held of such hosts is old.
ReporterUpToDate ==
    \A h \in allocated :
        IF h \in unsent THEN Result(h, info[h], info[h].overload) = Result(h, new_host_info, FALSE)
        ELSE {r \in reported : r.host = h} = {Result(h, info[h], info[h].overload)}

\* get_host answers with a host of the DNS answer in force and get_route with
\* all of them and no other, unless it has read deleted objects: once an update
\* has removed a host, get_route goes through its key (load_balance.cpp:171-178,
\* route_lb.cpp:161-172).
AnswersAreCurrent ==
    ~rsp.freed =>
        /\ rsp.hosts \subseteq rsp.of
        /\ rsp.asked = "get_route" => rsp.hosts = rsp.of

\* While clients keep asking, a host that stays in the idle list is handed
\* out again and again: get_host_from_list takes the front and rotates.
IdleHostsTakeTurns ==
    \A h \in Host : <>[](h \in Range(idle_list) /\ ~ub) => []<>(rsp.hosts = {h})

\* While clients keep asking, a host that stays overloaded is probed again and
\* again: access_cnt reaches probe_num whichever list serves the requests.
OverloadedHostsProbed ==
    \A h \in Host : <>[](h \in Range(overload_list) /\ ~ub) => []<>(rsp.hosts = {h})

\* overload_timeout is "the longest time a host waits in the overload queue"
\* (main_server.h:37): a host callers keep reporting on, be it failures only,
\* does not stay overloaded for ever, because report forces it back after that
\* time.  Nothing else looks at overload_ts, so it needs the reports.
OverloadWaitEnds ==
    \A h \in Host :
        WF_vars(\E succ \in BOOLEAN : report_host(h, succ)) =>
            (h \in Range(overload_list) ~> (h \notin Range(overload_list) \/ ub))

\* "add the new host to the idle list" (load_balance.cpp:55): every host of the
\* DNS answer is in one of the lists once update has run.
DnsHostsServed == remote \subseteq Range(idle_list) \cup Range(overload_list)
=============================================================================
