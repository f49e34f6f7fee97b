---------------------------- MODULE RouteProofs -----------------------------
(***************************************************************************)
(* The hosts of a route: the table of lars_dns they are read from, and the *)
(* load balancer that chooses among them.                                  *)
(*                                                                         *)
(* The double buffer of DnsRoute implements RouteTable, for any number of  *)
(* readers, sessions, edits and restarts and any reload period.            *)
(*                                                                         *)
(* The theorems about LoadBalance hold for every set of hosts and every    *)
(* configuration that satisfies ConfigAssumption.                          *)
(***************************************************************************)
EXTENDS LoadBalance, DnsRoute, FiniteSetTheorems, TLAPS

-----------------------------------------------------------------------------
(* DnsRoute                                                                *)

\* What the refinement rests on: the served map is complete and no newer than
\* the database, a reader that holds the read lock reads the served map, and
\* the map about to be swapped in is complete and no older than the served one.
DnsInv ==
    /\ edits \in Nat
    /\ map \in [Buffer -> Int] /\ data_pointer \in Buffer
    /\ reading \in [Reader -> Buffer \cup {None}]
    /\ map[data_pointer] \in 0 .. edits
    /\ \A r \in Reader : reading[r] # None => reading[r] = data_pointer
    /\ pc = "swap" => map[temp_pointer] \in map[data_pointer] .. edits

\* Each of the two maps has the other one: swap exchanges _data_pointer and
\* _temp_pointer (dns_route.cpp:178-180).
LEMMA OtherBuffer == \A b \in Buffer : Other(b) \in Buffer /\ Other(b) # b
<1> SUFFICES ASSUME NEW b \in Buffer PROVE Other(b) \in Buffer /\ Other(b) # b
  OBVIOUS
<1>1. \E x \in Buffer : x # b
  BY DEF Buffer
<1> QED
  BY <1>1 DEF Other

\* build_maps fills the served map before lars_dns answers anybody.
LEMMA DnsInitInv == DnsInit => DnsInv
BY SMTT(40) DEF DnsInit, DnsInv, Buffer, None

\* Every step of the console, the poller and the readers keeps DnsInv.
LEMMA DnsNextInv == DnsInv /\ [DnsNext]_dnsVars => DnsInv'
<1> SUFFICES ASSUME DnsInv, [DnsNext]_dnsVars PROVE DnsInv'
  OBVIOUS
<1> USE OtherBuffer DEF DnsInv, temp_pointer
<1>1. ASSUME NEW s \in Session, EditRoute(s) \/ HandlerDelete(s) PROVE DnsInv'
  <2>1. /\ edits' = edits + 1
        /\ UNCHANGED <<map, data_pointer, reading, pc>>
    BY <1>1 DEF EditRoute, HandlerDelete, table, pollerVars
  <2> QED
    BY <2>1
<1>2. ASSUME NEW s \in Session,
             InsertRouteChange(s) \/ UpdateVersion(s) \/ StatementFails(s)
      PROVE DnsInv'
  <2>1. UNCHANGED <<edits, map, data_pointer, reading, pc>>
    BY <1>2 DEF InsertRouteChange, UpdateVersion, StatementFails, db, table, pollerVars
  <2> QED
    BY <2>1
<1>3. CASE load_version \/ reload_timeout
  <2>1. /\ map' = [map EXCEPT ![temp_pointer] = Partial] /\ pc' = "select"
        /\ UNCHANGED <<edits, data_pointer, reading>>
    BY <1>3 DEF load_version, reload_timeout, db
  <2>2. map' \in [Buffer -> Int] /\ map'[data_pointer] = map[data_pointer]
    BY <2>1 DEF Partial
  <2> QED
    BY <2>1, <2>2
<1>4. CASE load_route_data
  <2>1. /\ map' = [map EXCEPT ![temp_pointer] = edits]
        /\ UNCHANGED <<edits, data_pointer, reading>>
    BY <1>4 DEF load_route_data, db
  <2>2. /\ map' \in [Buffer -> Int] /\ map'[data_pointer] = map[data_pointer]
        /\ map'[temp_pointer] = edits
    BY <2>1
  <2> QED
    BY <2>1, <2>2
<1>5. CASE Route_swap
  <2>1. /\ pc = "swap" /\ \A r \in Reader : reading[r] = None
        /\ data_pointer' = temp_pointer /\ pc' # "swap"
        /\ UNCHANGED <<edits, map, reading>>
    BY <1>5 DEF Route_swap, db
  <2> QED
    BY <2>1
<1>6. CASE load_changes \/ SubscribeList_publish
  <2>1. /\ pc' # "swap"
        /\ UNCHANGED <<edits, map, data_pointer, reading>>
    BY <1>6 DEF load_changes, SubscribeList_publish, db, table
  <2> QED
    BY <2>1
<1>7. CASE exit
  <2>1. /\ map' = [map EXCEPT ![data_pointer] = edits, ![temp_pointer] = 0]
        /\ reading' = [r \in Reader |-> None] /\ pc' = "sleep"
        /\ UNCHANGED <<edits, data_pointer>>
    BY <1>7 DEF exit, db
  <2>2. map' \in [Buffer -> Int] /\ map'[data_pointer] = edits
    BY <2>1
  <2> QED
    BY <2>1, <2>2
<1>8. ASSUME NEW r \in Reader, rdlock(r) PROVE DnsInv'
  <2>1. /\ reading' = [reading EXCEPT ![r] = data_pointer]
        /\ UNCHANGED <<edits, map, data_pointer, pc>>
    BY <1>8 DEF rdlock, db, table, pollerVars
  <2> QED
    BY <2>1
<1>9. ASSUME NEW r \in Reader, get_hosts(r) PROVE DnsInv'
  <2>1. /\ reading[r] # None
        /\ reading' = [reading EXCEPT ![r] = None]
        /\ UNCHANGED <<edits, map, data_pointer, pc>>
    BY <1>9 DEF get_hosts, db, table, pollerVars
  <2> QED
    BY <2>1
<1>10. CASE TickWeb \/ TickDns \/ UNCHANGED dnsVars
  <2>1. UNCHANGED <<edits, map, data_pointer, reading, pc>>
    BY <1>10 DEF TickWeb, TickDns, dnsVars, db, table, pollerVars
  <2> QED
    BY <2>1
<1> QED
  BY <1>1, <1>2, <1>3, <1>4, <1>5, <1>6, <1>7, <1>8, <1>9, <1>10
  DEF DnsNext, check_route_changes

\* Every step of lars_dns and of the console is a step of RouteTable or leaves
\* the served table, the edits and the copies alone.
LEMMA StepRefines ==
    DnsInv /\ DnsInv' /\ [DnsNext]_dnsVars
        => [Table!Next]_<<edits, map[data_pointer], copied>>
<1> SUFFICES ASSUME DnsInv, DnsInv', [DnsNext]_dnsVars
             PROVE  [Table!Next]_<<edits, map[data_pointer], copied>>
  OBVIOUS
<1> DEFINE view == [r \in Reader |-> IF reading[r] = None THEN NoHosts ELSE map[data_pointer]]
<1>0. copied = view /\ copied' = view'
  BY DEF DnsInv, copied
<1> USE OtherBuffer DEF DnsInv, temp_pointer
<1>1. ASSUME NEW s \in Session, EditRoute(s) \/ HandlerDelete(s) PROVE Table!Edit
  BY <1>0, <1>1 DEF EditRoute, HandlerDelete, table, Table!Edit
<1>2. ASSUME NEW s \in Session,
             InsertRouteChange(s) \/ UpdateVersion(s) \/ StatementFails(s)
      PROVE UNCHANGED <<edits, map[data_pointer], copied>>
  BY <1>0, <1>2 DEF InsertRouteChange, UpdateVersion, StatementFails, db, table
<1>3. CASE load_version \/ reload_timeout \/ load_route_data
  <2>1. PICK n : /\ map' = [map EXCEPT ![temp_pointer] = n]
                 /\ UNCHANGED <<edits, data_pointer, reading>>
    BY <1>3 DEF load_version, reload_timeout, load_route_data, db
  <2>2. map'[data_pointer'] = map[data_pointer]
    BY <2>1
  <2> QED
    BY <1>0, <2>1, <2>2
<1>4. CASE Route_swap
  <2>1. /\ map'[data_pointer'] \in map[data_pointer] .. edits
        /\ UNCHANGED <<edits, reading>> /\ \A r \in Reader : reading[r] = None
    BY <1>4 DEF Route_swap, db
  <2>2. view' = view
    BY <2>1
  <2>3. Table!Reload
    BY <1>0, <2>1, <2>2 DEF Table!Reload
  <2> QED
    BY <2>3 DEF Table!Next
<1>5. CASE load_changes \/ SubscribeList_publish
  BY <1>0, <1>5 DEF load_changes, SubscribeList_publish, db, table
<1>6. CASE exit
  <2>1. /\ map' = [map EXCEPT ![data_pointer] = edits, ![temp_pointer] = 0]
        /\ reading' = [r \in Reader |-> None]
        /\ UNCHANGED <<edits, data_pointer>>
    BY <1>6 DEF exit, db
  <2>2. map'[data_pointer'] = edits
    BY <2>1
  <2>3. view' = [r \in Reader |-> Table!NoHosts]
    BY <2>1 DEF NoHosts, Table!NoHosts
  <2>4. Table!Restart
    BY <1>0, <2>1, <2>2, <2>3 DEF Table!Restart
  <2> QED
    BY <2>4 DEF Table!Next
<1>7. ASSUME NEW r \in Reader, rdlock(r) PROVE Table!Read(r)
  <2>1. /\ reading' = [reading EXCEPT ![r] = data_pointer]
        /\ UNCHANGED <<edits, map, data_pointer>>
    BY <1>7 DEF rdlock, db, table
  <2>2. data_pointer # None
    BY DEF Buffer, None
  <2>3. view' = [view EXCEPT ![r] = map[data_pointer]]
    BY <2>1, <2>2, Zenon
  <2> QED
    BY <1>0, <2>1, <2>3, Zenon DEF Table!Read
<1>8. ASSUME NEW r \in Reader, get_hosts(r) PROVE Table!Return(r)
  <2>1. /\ reading' = [reading EXCEPT ![r] = None]
        /\ UNCHANGED <<edits, map, data_pointer>>
    BY <1>8 DEF get_hosts, db, table
  <2>2. view' = [view EXCEPT ![r] = Table!NoHosts]
    BY <2>1, Zenon DEF NoHosts, Table!NoHosts
  <2> QED
    BY <1>0, <2>1, <2>2, Zenon DEF Table!Return
<1>9. CASE TickWeb \/ TickDns \/ UNCHANGED dnsVars
  BY <1>0, <1>9 DEF TickWeb, TickDns, dnsVars, db, table
<1> QED
  BY <1>1, <1>2, <1>3, <1>4, <1>5, <1>6, <1>7, <1>8, <1>9, SMTT(40)
  DEF DnsNext, check_route_changes, Table!Next

\* get_hosts copies from one table that is replaced as a whole and never by an
\* older one, although load_route_data clears and fills a map that was read
\* before (dns_route.cpp:108-183).
THEOREM Refinement == DnsSpec => ServesSnapshots
<1>1. DnsInit => Table!Init
  BY DEF DnsInit, Table!Init, Buffer, copied, NoHosts, Table!NoHosts
<1> QED
  BY <1>1, DnsInitInv, DnsNextInv, StepRefines, PTL DEF DnsSpec, ServesSnapshots, Table!Spec

-----------------------------------------------------------------------------
(* LoadBalance                                                             *)

USE SMTT(60), ZenonT(60)

-----------------------------------------------------------------------------
(* Lists without duplicates, as load_balance.cpp uses them                 *)

\* push_back of a host that is not in the list (load_balance.cpp:56, 251, 288).
LEMMA AppendToList ==
    ASSUME NEW S, NEW l \in Seq(S), IsInjective(l), NEW h \in S, h \notin Range(l)
    PROVE  /\ Append(l, h) \in Seq(S)
           /\ IsInjective(Append(l, h))
           /\ Range(Append(l, h)) = Range(l) \cup {h}
BY DEF IsInjective, Range

\* update appends the new hosts to those that stay (load_balance.cpp:46-90).
LEMMA ConcatLists ==
    ASSUME NEW S, NEW k \in Seq(S), NEW l \in Seq(S),
           IsInjective(k), IsInjective(l), Range(k) \cap Range(l) = {}
    PROVE  /\ k \o l \in Seq(S)
           /\ IsInjective(k \o l)
           /\ Range(k \o l) = Range(k) \cup Range(l)
<1>1. /\ k \o l \in Seq(S)
      /\ DOMAIN (k \o l) = 1 .. Len(k) + Len(l)
      /\ \A i \in 1 .. Len(k) + Len(l) :
            (k \o l)[i] = IF i <= Len(k) THEN k[i] ELSE l[i - Len(k)]
      /\ Len(k) \in Nat /\ Len(l) \in Nat
      /\ DOMAIN k = 1 .. Len(k) /\ DOMAIN l = 1 .. Len(l)
  OBVIOUS
<1>2. IsInjective(k \o l)
  <2> SUFFICES ASSUME NEW i \in 1 .. Len(k) + Len(l), NEW j \in 1 .. Len(k) + Len(l),
                      (k \o l)[i] = (k \o l)[j]
               PROVE  i = j
    BY <1>1 DEF IsInjective
  <2>1. CASE i <= Len(k) /\ j <= Len(k)
    BY <1>1, <2>1 DEF IsInjective
  <2>2. CASE i > Len(k) /\ j > Len(k)
    <3>1. i - Len(k) \in DOMAIN l /\ j - Len(k) \in DOMAIN l
      BY <1>1, <2>2
    <3> QED BY <1>1, <2>2, <3>1 DEF IsInjective
  <2>3. ASSUME NEW m \in 1 .. Len(k), NEW n \in 1 .. Len(l) PROVE k[m] # l[n]
    BY <1>1, Zenon DEF Range
  <2>4. CASE i <= Len(k) /\ j > Len(k)
    <3>1. i \in 1 .. Len(k) /\ j - Len(k) \in 1 .. Len(l)
      BY <1>1, <2>4
    <3> QED BY <1>1, <2>3, <2>4, <3>1
  <2>5. CASE i > Len(k) /\ j <= Len(k)
    <3>1. j \in 1 .. Len(k) /\ i - Len(k) \in 1 .. Len(l)
      BY <1>1, <2>5
    <3> QED BY <1>1, <2>3, <2>5, <3>1
  <2> QED BY <1>1, <2>1, <2>2, <2>4, <2>5
<1>3. Range(k \o l) = Range(k) \cup Range(l)
  <2>1. Range(k \o l) \subseteq Range(k) \cup Range(l)
    BY <1>1 DEF Range
  <2>2. Range(k) \subseteq Range(k \o l)
    BY <1>1 DEF Range
  <2>3. ASSUME NEW i \in DOMAIN l PROVE l[i] \in Range(k \o l)
    <3>1. i + Len(k) \in DOMAIN (k \o l) /\ (k \o l)[i + Len(k)] = l[i]
      BY <1>1
    <3> QED BY <3>1 DEF Range
  <2> QED BY <2>1, <2>2, <2>3, Zenon DEF Range
<1> QED BY <1>1, <1>2, <1>3

\* pop_front and push_back of the front (load_balance.cpp:101-113).
LEMMA RotateList ==
    ASSUME NEW S, NEW l \in Seq(S), IsInjective(l), l # <<>>
    PROVE  /\ Append(Tail(l), Head(l)) \in Seq(S)
           /\ IsInjective(Append(Tail(l), Head(l)))
           /\ Range(Append(Tail(l), Head(l))) = Range(l)
           /\ Head(l) \in Range(l)
<1> DEFINE t == Tail(l)
           h == Head(l)
<1>1. /\ Len(l) \in Nat \ {0} /\ DOMAIN l = 1 .. Len(l)
      /\ h \in S /\ h = l[1]
      /\ t \in Seq(S) /\ DOMAIN t = 1 .. Len(l) - 1
      /\ \A i \in 1 .. Len(l) - 1 : t[i] = l[i + 1]
  OBVIOUS
<1> HIDE DEF t, h
<1>2. IsInjective(t) /\ h \notin Range(t)
  <2>1. ASSUME NEW i \in DOMAIN t
        PROVE  i + 1 \in DOMAIN l /\ i + 1 # 1 /\ t[i] = l[i + 1]
    BY <1>1
  <2>2. h \notin Range(t)
    BY <1>1, <2>1 DEF IsInjective, Range
  <2>3. ASSUME NEW i \in DOMAIN t, NEW j \in DOMAIN t, t[i] = t[j] PROVE i = j
    <3>1. i + 1 = j + 1
      BY <2>1, <2>3 DEF IsInjective
    <3> QED BY <3>1, <1>1
  <2> QED BY <2>2, <2>3 DEF IsInjective
<1>3. Range(l) = Range(t) \cup {h}
  <2>1. ASSUME NEW i \in 1 .. Len(l), i # 1 PROVE l[i] \in Range(t)
    <3>1. i - 1 \in 1 .. Len(l) - 1 /\ (i - 1) + 1 = i
      BY <1>1, <2>1
    <3>2. i - 1 \in DOMAIN t /\ t[i - 1] = l[i]
      BY <1>1, <3>1
    <3> QED BY <3>2 DEF Range
  <2>2. ASSUME NEW i \in DOMAIN t PROVE t[i] \in Range(l)
    <3>1. i + 1 \in DOMAIN l /\ t[i] = l[i + 1]
      BY <1>1
    <3> QED BY <3>1 DEF Range
  <2>3. h \in Range(l)
    BY <1>1 DEF Range
  <2> QED BY <1>1, <2>1, <2>2, <2>3 DEF Range
<1>4. /\ Append(t, h) \in Seq(S)
      /\ IsInjective(Append(t, h))
      /\ Range(Append(t, h)) = Range(t) \cup {h}
  BY <1>1, <1>2, AppendToList
<1> QED BY <1>3, <1>4, Zenon DEF t, h

\* The hosts of a set in some order, as update adds them to the idle list.
LEMMA OrdersOf ==
    ASSUME NEW S, IsFiniteSet(S), NEW T, S \subseteq T, NEW t \in Orders(S)
    PROVE  t \in Seq(T) /\ IsInjective(t) /\ Range(t) = S
<1> DEFINE n == Cardinality(S)
<1>1. n \in Nat
  BY FS_CardinalityType
<1>2. /\ t \in [1 .. n -> S] /\ IsInjective(t)
      /\ \A s \in S : \E i \in 1 .. n : t[i] = s
  BY DEF Orders, Bijection, Injection, Surjection
<1> HIDE DEF n
<1>3. Range(t) = S
  BY <1>2 DEF Range
<1>4. t \in Seq(T)
  BY <1>1, <1>2
<1> QED BY <1>2, <1>3, <1>4

\* Deleting hosts from a list leaves the others, each once.
LEMMA SurvivorsOfList ==
    ASSUME NEW l \in Seq(Host), NEW S, NEW t \in Survivors(l, S)
    PROVE  t \in Seq(Host) /\ IsInjective(t) /\ Range(t) = Range(l) \cap S
<1>1. Range(l) \cap S \subseteq Host
  BY DEF Range
<1>2. IsFiniteSet(Range(l) \cap S)
  BY <1>1, HostAssumption, FS_Subset
<1>3. t \in Orders(Range(l) \cap S)
  BY DEF Survivors
<1> QED BY <1>1, <1>2, <1>3, OrdersOf

-----------------------------------------------------------------------------
(* The inductive invariant                                                 *)

\* The answers TypeOK allows.
Rsp == [asked : {"get_host", "get_route"}, retcode : RetCode, hosts : SUBSET Host,
        of : SUBSET Host, freed : BOOLEAN]

\* What AnswersAreCurrent says of one answer.
Current(a) == ~a.freed => /\ a.hosts \subseteq a.of
                          /\ a.asked = "get_route" => a.hosts = a.of

\* The inductive invariant: the properties support one another.  The lists
\* stay a partition because a report moves a host out of the list its flag
\* names, what is committed is read off the lists, and answers are current
\* because the lists hold only hosts of the DNS answer.
Inv ==
    /\ TypeOK
    /\ ListsPartitionHosts
    /\ ThresholdsRespected
    /\ WindowsAgree
    /\ ServedHostsMatchDns
    /\ ReporterUpToDate
    /\ AnswersAreCurrent

\* What ThresholdsRespected and WindowsAgree say of one host.
InRightState(i) == IF i.overload THEN ~TurnsIdle(i) ELSE ~TurnsOverload(i)
OneWindow(i) ==
    IF i.overload
    THEN i.vsucc = i.rsucc /\ i.verr = init_err_cnt + i.rerr
    ELSE i.vsucc = init_succ_cnt + i.rsucc /\ i.verr = i.rerr

\* A rate that is within its limit stays so when the total grows.
LEMMA LargerTotal ==
    \A x, n, s \in Nat : x <= n * s => x <= n * (s + 1)
OBVIOUS

\* set_idle and set_overload start a window that respects the thresholds.
LEMMA FreshInfo ==
    /\ set_idle \in HostInfo /\ ~set_idle.overload
    /\ InRightState(set_idle) /\ OneWindow(set_idle)
    /\ set_overload \in HostInfo /\ set_overload.overload
    /\ InRightState(set_overload) /\ OneWindow(set_overload)
<1> USE ConfigAssumption
<1>1. set_idle \in HostInfo /\ ~set_idle.overload /\ OneWindow(set_idle)
  BY DEF set_idle, HostInfo, OneWindow
<1>2. set_overload \in HostInfo /\ set_overload.overload /\ OneWindow(set_overload)
  BY DEF set_overload, HostInfo, OneWindow
<1>3. InRightState(set_idle)
  BY DEF set_idle, InRightState, TurnsOverload, ErrRateHigh
<1>4. InRightState(set_overload)
  BY DEF set_overload, InRightState, TurnsIdle, SuccRateHigh
<1> QED BY <1>1, <1>2, <1>3, <1>4

\* Counting one more call keeps the two pairs of counters in step.
LEMMA CountedInfo ==
    ASSUME NEW i \in HostInfo, NEW succ \in BOOLEAN, OneWindow(i)
    PROVE  /\ Counted(i, succ) \in HostInfo
           /\ Counted(i, succ).overload = i.overload
           /\ OneWindow(Counted(i, succ))
<1>1. CASE succ
  <2>1. Counted(i, succ) = [i EXCEPT !.vsucc = @ + 1, !.rsucc = @ + 1,
                                     !.contin_succ = @ + 1, !.contin_err = 0]
    BY <1>1 DEF Counted
  <2>2. Counted(i, succ) \in HostInfo
    <3>1. Counted(i, succ) = [vsucc |-> i.vsucc + 1, verr |-> i.verr, rsucc |-> i.rsucc + 1, rerr |-> i.rerr,
                              contin_succ |-> i.contin_succ + 1, contin_err |-> 0,
                              overload |-> i.overload, age |-> i.age]
      BY <2>1, Zenon DEF HostInfo
    <3> QED BY <3>1 DEF HostInfo
  <2>3. /\ Counted(i, succ).overload = i.overload
        /\ Counted(i, succ).vsucc = i.vsucc + 1 /\ Counted(i, succ).rsucc = i.rsucc + 1
        /\ Counted(i, succ).verr = i.verr /\ Counted(i, succ).rerr = i.rerr
    BY <2>1 DEF HostInfo
  <2> QED BY <2>2, <2>3, ConfigAssumption DEF OneWindow, HostInfo
<1>2. CASE ~succ
  <2>1. Counted(i, succ) = [i EXCEPT !.verr = @ + 1, !.rerr = @ + 1,
                                     !.contin_err = @ + 1, !.contin_succ = 0]
    BY <1>2 DEF Counted
  <2>2. Counted(i, succ) \in HostInfo
    <3>1. Counted(i, succ) = [vsucc |-> i.vsucc, verr |-> i.verr + 1, rsucc |-> i.rsucc, rerr |-> i.rerr + 1,
                              contin_succ |-> 0, contin_err |-> i.contin_err + 1,
                              overload |-> i.overload, age |-> i.age]
      BY <2>1, Zenon DEF HostInfo
    <3> QED BY <3>1 DEF HostInfo
  <2>3. /\ Counted(i, succ).overload = i.overload
        /\ Counted(i, succ).vsucc = i.vsucc /\ Counted(i, succ).rsucc = i.rsucc
        /\ Counted(i, succ).verr = i.verr + 1 /\ Counted(i, succ).rerr = i.rerr + 1
    BY <2>1 DEF HostInfo
  <2> QED BY <2>2, <2>3, ConfigAssumption DEF OneWindow, HostInfo
<1> QED BY <1>1, <1>2

\* The judgement of report leaves the host in the state its counters call for.
LEMMA JudgedInfo ==
    ASSUME NEW i \in HostInfo, NEW succ \in BOOLEAN, OneWindow(i), InRightState(i)
    PROVE  LET j == Judged(Counted(i, succ), succ)
           IN  j \in HostInfo /\ OneWindow(j) /\ InRightState(j)
<1> DEFINE c == Counted(i, succ)
           j == Judged(c, succ)
<1>1. c \in HostInfo /\ c.overload = i.overload /\ OneWindow(c)
  BY CountedInfo
<1>2. j \in {c, set_idle, set_overload}
  BY DEF Judged
<1> SUFFICES j \in HostInfo /\ OneWindow(j) /\ InRightState(j)
  OBVIOUS
<1> HIDE DEF c, j
<1>3. CASE j \in {set_idle, set_overload}
  BY <1>3, FreshInfo
<1>4. CASE j = c
  <2>1. CASE succ /\ ~i.overload
    <3>1. /\ c.verr = i.verr /\ c.vsucc = i.vsucc + 1 /\ c.contin_err = 0
          /\ i.verr \in Nat /\ i.vsucc \in Nat
      BY <2>1 DEF c, Counted, HostInfo
    <3>2. i.verr * ErrDen <= ErrNum * (i.vsucc + i.verr)
      BY <2>1, <3>1, ConfigAssumption DEF InRightState, TurnsOverload, ErrRateHigh
    <3>3. i.verr * ErrDen <= ErrNum * ((i.vsucc + i.verr) + 1)
      BY <3>1, <3>2, LargerTotal, ConfigAssumption
    <3>4. ~ErrRateHigh(c)
      <4>1. (i.vsucc + i.verr) + 1 = c.vsucc + c.verr
        BY <3>1
      <4>2. c.verr * ErrDen <= ErrNum * (c.vsucc + c.verr)
        BY <3>1, <3>3, <4>1
      <4> QED BY <4>2, <3>1, ConfigAssumption DEF ErrRateHigh
    <3>5. InRightState(c)
      BY <1>1, <2>1, <3>1, <3>4, ConfigAssumption DEF InRightState, TurnsOverload
    <3> QED BY <1>1, <1>4, <3>5
  <2>2. CASE ~succ /\ i.overload
    <3>1. /\ c.vsucc = i.vsucc /\ c.verr = i.verr + 1 /\ c.contin_succ = 0
          /\ i.verr \in Nat /\ i.vsucc \in Nat
      BY <2>2 DEF c, Counted, HostInfo
    <3>2. i.vsucc * SuccDen <= SuccNum * (i.vsucc + i.verr)
      BY <2>2, <3>1, ConfigAssumption DEF InRightState, TurnsIdle, SuccRateHigh
    <3>3. i.vsucc * SuccDen <= SuccNum * ((i.vsucc + i.verr) + 1)
      BY <3>1, <3>2, LargerTotal, ConfigAssumption
    <3>4. ~SuccRateHigh(c)
      BY <3>1, <3>3, ConfigAssumption DEF SuccRateHigh
    <3>5. InRightState(c)
      BY <1>1, <2>2, <3>1, <3>4, ConfigAssumption DEF InRightState, TurnsIdle
    <3> QED BY <1>1, <1>4, <3>5
  <2>3. CASE succ = i.overload
    <3>1. InRightState(c)
      BY <1>1, <1>4, <2>3, FreshInfo DEF j, Judged, InRightState
    <3> QED BY <1>1, <1>4, <3>1
  <2> QED BY <2>1, <2>2, <2>3 DEF HostInfo
<1> QED BY <1>2, <1>3, <1>4

-----------------------------------------------------------------------------
(* One lemma per action                                                    *)

\* The agent starts without a load_balance for the module.
LEMMA InitInv == Init => Inv
<1> SUFFICES ASSUME Init PROVE Inv
  OBVIOUS
<1> USE FreshInfo DEF Init, new_host_info
<1>1. TypeOK
  <2>1. idle_list \in Seq(Host) /\ overload_list \in Seq(Host)
    OBVIOUS
  <2>2. info \in [Host -> HostInfo]
    OBVIOUS
  <2>3. rsp \in Rsp
    BY DEF RetCode, Rsp
  <2> QED BY <2>1, <2>2, <2>3, Zenon DEF TypeOK, Rsp
<1>2. Range(idle_list) = {} /\ Range(overload_list) = {}
  BY DEF Range
<1>3. ListsPartitionHosts
  BY <1>2 DEF ListsPartitionHosts, IsInjective
<1>4. AnswersAreCurrent
  BY DEF AnswersAreCurrent
<1> QED
  BY <1>1, <1>3, <1>4 DEF Inv, ThresholdsRespected, WindowsAgree, ServedHostsMatchDns,
                          ReporterUpToDate

\* commit sends, for every managed host, the state the handler leaves.
LEMMA CommitFresh ==
    ASSUME reported \in SUBSET HostCallResult, unsent \subseteq allocated, commit,
           allocated' = allocated, allocated \subseteq host_map, host_map \subseteq Host,
           info' \in [Host -> HostInfo], ListsPartitionHosts'
    PROVE  /\ reported' \in SUBSET HostCallResult /\ unsent' \subseteq allocated'
           /\ ReporterUpToDate'
<1>1. CASE host_map = {}
  BY <1>1, Zenon DEF commit, committed, ReporterUpToDate
<1>2. CASE host_map # {}
  <2>1. reported' = Results(info', idle_list', overload_list') /\ unsent' = {}
    BY <1>2 DEF commit
  <2>2. /\ allocated' \subseteq Host
        /\ \A h \in allocated' : info'[h] \in HostInfo /\ info'[h].overload \in BOOLEAN
    BY DEF HostInfo
  <2>3. reported' = {Result(h, info'[h], info'[h].overload) : h \in allocated'}
    <3>1. /\ Range(idle_list)' = {h \in allocated' : ~info'[h].overload}
          /\ Range(overload_list)' = {h \in allocated' : info'[h].overload}
      BY DEF ListsPartitionHosts
    <3>2. ASSUME NEW r \in reported'
          PROVE  \E h \in allocated' : r = Result(h, info'[h], info'[h].overload)
      <4>1. CASE \E h \in Range(idle_list') : r = Result(h, info'[h], FALSE)
        <5>1. PICK h \in Range(idle_list') : r = Result(h, info'[h], FALSE)
          BY <4>1, Zenon
        <5>2. h \in allocated' /\ info'[h].overload = FALSE
          BY <2>2, <3>1
        <5> QED BY <5>1, <5>2, Zenon
      <4>2. CASE \E h \in Range(overload_list') : r = Result(h, info'[h], TRUE)
        <5>1. PICK h \in Range(overload_list') : r = Result(h, info'[h], TRUE)
          BY <4>2, Zenon
        <5>2. h \in allocated' /\ info'[h].overload = TRUE
          BY <2>2, <3>1
        <5> QED BY <5>1, <5>2, Zenon
      <4> QED BY <2>1, <3>2, <4>1, <4>2, Zenon DEF Results
    <3>3. ASSUME NEW h \in allocated'
          PROVE  Result(h, info'[h], info'[h].overload) \in reported'
      <4>1. CASE info'[h].overload = TRUE
        BY <2>1, <3>1, <4>1, Zenon DEF Results
      <4>2. CASE info'[h].overload = FALSE
        BY <2>1, <3>1, <4>2, Zenon DEF Results
      <4> QED BY <2>2, <4>1, <4>2, Zenon
    <3> QED BY <3>2, <3>3, Zenon
  <2>4. ReporterUpToDate'
    <3> SUFFICES ASSUME NEW h \in allocated'
                 PROVE  {r \in reported' : r.host = h}
                            = {Result(h, info'[h], info'[h].overload)}
      BY <2>1 DEF ReporterUpToDate
    <3>1. \A g \in allocated' : Result(g, info'[g], info'[g].overload).host = g
      BY DEF Result
    <3> QED BY <2>3, <3>1, Zenon
  <2>5. \A h \in allocated' : Result(h, info'[h], info'[h].overload) \in HostCallResult
    BY <2>2 DEF Result, HostCallResult, HostInfo
  <2> QED BY <2>1, <2>3, <2>4, <2>5, Zenon
<1> QED BY <1>1, <1>2

\* A report changes one host, moves it between the lists when its flag
\* changes, and commits the new state.
LEMMA ReportInv ==
    ASSUME Inv, NEW h \in Host, NEW succ \in BOOLEAN, report_host(h, succ)
    PROVE  Inv'
<1> DEFINE i == Counted(info[h], succ)
           j == Judged(i, succ)
<1>1. /\ TypeOK /\ ListsPartitionHosts /\ ThresholdsRespected /\ WindowsAgree
      /\ ServedHostsMatchDns /\ ReporterUpToDate /\ AnswersAreCurrent
  BY SMTT(40) DEF Inv
<1>2. h \in allocated /\ info[h] \in HostInfo
  BY <1>1 DEF report_host, TypeOK
<1>3. OneWindow(info[h]) /\ InRightState(info[h])
  BY <1>1, <1>2 DEF ThresholdsRespected, WindowsAgree, OneWindow, InRightState
<1>4. i.overload = info[h].overload
  BY <1>2, <1>3, CountedInfo
<1>5. j \in HostInfo /\ OneWindow(j) /\ InRightState(j)
  BY <1>2, <1>3, JudgedInfo, SMTT(40)
<1>6. /\ info' = [info EXCEPT ![h] = j]
      /\ idle_list' \in IF j.overload = i.overload THEN {idle_list}
                        ELSE IF j.overload THEN Survivors(idle_list, Host \ {h})
                        ELSE {Append(idle_list, h)}
      /\ overload_list' \in IF j.overload = i.overload THEN {overload_list}
                            ELSE IF j.overload THEN {Append(overload_list, h)}
                            ELSE Survivors(overload_list, Host \ {h})
      /\ UNCHANGED <<exists, host_map, allocated, access_cnt, status, update_age,
                     rsp, remote, ub>>
      /\ commit
  BY Zenon DEF report_host, pulling
<1> HIDE DEF i, j
<1>7. info' \in [Host -> HostInfo] /\ info'[h] = j
      /\ \A g \in Host \ {h} : info'[g] = info[g]
  BY <1>1, <1>5, <1>6, Zenon DEF TypeOK
<1>8. j.overload \in BOOLEAN /\ i.overload \in BOOLEAN
  BY <1>2, <1>4, <1>5 DEF HostInfo
<1>9. /\ idle_list' \in Seq(Host) /\ overload_list' \in Seq(Host)
      /\ ListsPartitionHosts'
  <2>0. /\ allocated \subseteq Host /\ allocated' = allocated
        /\ idle_list \in Seq(Host) /\ overload_list \in Seq(Host)
    BY <1>1, <1>6, Zenon DEF TypeOK
  <2>1. CASE j.overload = i.overload
    BY <2>0, <2>1, <1>1, <1>2, <1>4, <1>6, <1>7, Zenon DEF ListsPartitionHosts
  <2>2. CASE j.overload /\ ~i.overload
    <3>1. h \in Range(idle_list) /\ h \notin Range(overload_list)
      BY <2>2, <1>1, <1>2, <1>4 DEF ListsPartitionHosts
    <3>2. /\ idle_list' \in Seq(Host) /\ IsInjective(idle_list')
          /\ Range(idle_list') = Range(idle_list) \ {h}
      <4>1. idle_list' \in Survivors(idle_list, Host \ {h})
        BY <2>2, <1>6, Zenon
      <4>2. idle_list \in Seq(Host) /\ Range(idle_list) \subseteq Host
        BY <1>1 DEF TypeOK, Range
      <4> QED BY <4>1, <4>2, SurvivorsOfList
    <3>3. /\ overload_list' \in Seq(Host) /\ IsInjective(overload_list')
          /\ Range(overload_list') = Range(overload_list) \cup {h}
      <4>1. overload_list' = Append(overload_list, h)
        BY <2>2, <1>6, Zenon
      <4>2. overload_list \in Seq(Host) /\ IsInjective(overload_list)
        BY <1>1 DEF ListsPartitionHosts, TypeOK
      <4>3. /\ Append(overload_list, h) \in Seq(Host) /\ IsInjective(Append(overload_list, h))
            /\ Range(Append(overload_list, h)) = Range(overload_list) \cup {h}
        BY <3>1, <4>2, AppendToList
      <4> QED BY <4>1, <4>3, Zenon
    <3>4. Range(idle_list') = {g \in allocated' : ~info'[g].overload}
      BY <2>0, <2>2, <3>2, <1>1, <1>2, <1>7 DEF ListsPartitionHosts
    <3>5. Range(overload_list') = {g \in allocated' : info'[g].overload}
      BY <2>0, <2>2, <3>3, <1>1, <1>2, <1>7 DEF ListsPartitionHosts
    <3> QED BY <3>2, <3>3, <3>4, <3>5, Zenon DEF ListsPartitionHosts, IsInjective, Range
  <2>3. CASE ~j.overload /\ i.overload
    <3>1. h \in Range(overload_list) /\ h \notin Range(idle_list)
      BY <2>3, <1>1, <1>2, <1>4 DEF ListsPartitionHosts
    <3>2. /\ overload_list' \in Seq(Host) /\ IsInjective(overload_list')
          /\ Range(overload_list') = Range(overload_list) \ {h}
      <4>1. overload_list' \in Survivors(overload_list, Host \ {h})
        BY <2>3, <1>6, Zenon
      <4>2. overload_list \in Seq(Host) /\ Range(overload_list) \subseteq Host
        BY <1>1 DEF TypeOK, Range
      <4> QED BY <4>1, <4>2, SurvivorsOfList
    <3>3. /\ idle_list' \in Seq(Host) /\ IsInjective(idle_list')
          /\ Range(idle_list') = Range(idle_list) \cup {h}
      <4>1. idle_list' = Append(idle_list, h)
        BY <2>3, <1>6, Zenon
      <4>2. idle_list \in Seq(Host) /\ IsInjective(idle_list)
        BY <1>1 DEF ListsPartitionHosts, TypeOK
      <4>3. /\ Append(idle_list, h) \in Seq(Host) /\ IsInjective(Append(idle_list, h))
            /\ Range(Append(idle_list, h)) = Range(idle_list) \cup {h}
        BY <3>1, <4>2, AppendToList
      <4> QED BY <4>1, <4>3, Zenon
    <3>4. Range(idle_list') = {g \in allocated' : ~info'[g].overload}
      BY <2>0, <2>3, <3>3, <1>1, <1>2, <1>7, Zenon DEF ListsPartitionHosts
    <3>5. Range(overload_list') = {g \in allocated' : info'[g].overload}
      BY <2>0, <2>3, <3>2, <1>1, <1>2, <1>7, Zenon DEF ListsPartitionHosts
    <3> QED BY <3>2, <3>3, <3>4, <3>5, SMTT(40) DEF ListsPartitionHosts, IsInjective, Range
  <2> QED BY <2>1, <2>2, <2>3, <1>8, SMTT(40)
<1>10. /\ reported' \in SUBSET HostCallResult /\ unsent' \subseteq allocated'
       /\ ReporterUpToDate'
  BY <1>1, <1>2, <1>6, <1>7, <1>9, CommitFresh, Zenon DEF TypeOK
<1>11. TypeOK'
  BY <1>1, <1>6, <1>7, <1>9, <1>10, Zenon DEF TypeOK
<1>12. ThresholdsRespected' /\ WindowsAgree'
  BY <1>1, <1>5, <1>6, <1>7, Zenon DEF ThresholdsRespected, WindowsAgree, OneWindow,
                                InRightState, TypeOK
<1>13. ServedHostsMatchDns' /\ AnswersAreCurrent'
  BY <1>1, <1>6, Zenon DEF ServedHostsMatchDns, AnswersAreCurrent
<1> QED BY <1>9, <1>10, <1>11, <1>12, <1>13 DEF Inv

\* Reports about hosts the module does not know only commit.
LEMMA ReportUnknownInv ==
    ASSUME Inv, NEW h \in Host, report_unknown(h)
    PROVE  Inv'
<1> USE DEF Inv, report_unknown, objects, lists, pulling
<1>0. /\ allocated' = allocated /\ info' = info
      /\ idle_list' = idle_list /\ overload_list' = overload_list
  BY Zenon
<1>1. ListsPartitionHosts'
  BY <1>0, Zenon DEF ListsPartitionHosts
<1>2. /\ reported' \in SUBSET HostCallResult /\ unsent' \subseteq allocated'
      /\ ReporterUpToDate'
  BY <1>1, CommitFresh DEF TypeOK
<1>3. TypeOK'
  BY <1>2, SMTT(40) DEF TypeOK
<1>4. ThresholdsRespected' /\ WindowsAgree' /\ ServedHostsMatchDns' /\ AnswersAreCurrent'
  BY Zenon DEF ThresholdsRespected, WindowsAgree, ServedHostsMatchDns, AnswersAreCurrent
<1> QED BY <1>1, <1>2, <1>3, <1>4

\* The steps with no defined outcome change nothing but ub.
LEMMA UndefinedInv ==
    ASSUME Inv, Undefined
    PROVE  Inv'
<1> USE DEF Inv, Undefined, objects, lists, pulling, committed
<1>1. TypeOK'
  BY DEF TypeOK
<1>0. /\ allocated' = allocated /\ info' = info
      /\ idle_list' = idle_list /\ overload_list' = overload_list
  BY Zenon
<1>2. ListsPartitionHosts'
  BY <1>0, Zenon DEF ListsPartitionHosts
<1>3. ThresholdsRespected' /\ WindowsAgree' /\ ServedHostsMatchDns'
  BY DEF ThresholdsRespected, WindowsAgree, ServedHostsMatchDns
<1>4. ReporterUpToDate' /\ AnswersAreCurrent'
  BY Zenon DEF ReporterUpToDate, AnswersAreCurrent
<1> QED BY <1>1, <1>2, <1>3, <1>4

\* A load_balance is created or deleted.
LEMMA NoObjectInv ==
    ASSUME Inv, NoObject, exists' \in BOOLEAN, status' \in {"NEW", "PULLING"},
           rsp' \in Rsp, Current(rsp'), ub' \in BOOLEAN
    PROVE  Inv'
<1> USE FreshInfo DEF NoObject, new_host_info
<1>1. TypeOK'
  <2>1. idle_list' \in Seq(Host) /\ overload_list' \in Seq(Host)
    OBVIOUS
  <2>2. info' \in [Host -> HostInfo]
    OBVIOUS
  <2> QED BY <2>1, <2>2 DEF TypeOK, Inv, Rsp
<1>2. ListsPartitionHosts'
  <2>1. Range(idle_list') = {} /\ Range(overload_list') = {}
    BY DEF Range
  <2> QED BY <2>1 DEF ListsPartitionHosts, IsInjective, Range
<1> QED
  BY <1>1, <1>2, Zenon DEF Inv, ThresholdsRespected, WindowsAgree, ServedHostsMatchDns,
                    ReporterUpToDate, AnswersAreCurrent, Current

\* Requests rotate at most one of the lists.
LEMMA ChoiceInv ==
    ASSUME Inv, get_host
    PROVE  Inv'
<1>1. /\ TypeOK /\ ListsPartitionHosts
      /\ UNCHANGED <<exists, host_map, allocated, info, reported, unsent, remote, ub>>
      /\ refresh /\ choice_one_host
  BY DEF Inv, get_host, objects, committed
<1>2. status' \in {"NEW", "PULLING"} /\ update_age' \in Nat
  BY <1>1 DEF TypeOK, refresh, pull, pulling
<1>3. /\ idle_list' \in Seq(Host) /\ IsInjective(idle_list')
      /\ Range(idle_list') = Range(idle_list)
      /\ overload_list' \in Seq(Host) /\ IsInjective(overload_list')
      /\ Range(overload_list') = Range(overload_list)
      /\ access_cnt' \in Nat
      /\ rsp' \in Rsp
      /\ Current(rsp')
  <2>1. CASE choose_idle
    <3>1. /\ Rotated(idle_list) \in Seq(Host) /\ IsInjective(Rotated(idle_list))
          /\ Range(Rotated(idle_list)) = Range(idle_list)
          /\ Head(idle_list) \in Range(idle_list)
      BY <1>1, <2>1, RotateList DEF choose_idle, TypeOK, ListsPartitionHosts, Rotated
    <3>2. Head(idle_list) \in allocated
      BY <1>1, <3>1, SMTT(40) DEF ListsPartitionHosts
    <3>3. /\ rsp' \in Rsp
          /\ Current(rsp')
      <4>1. rsp' = [asked |-> "get_host", retcode |-> "RET_SUCC", hosts |-> {Head(idle_list)},
                    of |-> remote, freed |-> FALSE]
        BY <2>1, SMTT(40) DEF choose_idle, Answer
      <4> QED BY <1>1, <3>2, <4>1, SMTT(40) DEF Current, RetCode, TypeOK, Rsp, Inv, ServedHostsMatchDns
    <3> QED BY <1>1, <2>1, <3>1, <3>3 DEF choose_idle, TypeOK, ListsPartitionHosts
  <2>2. CASE choose_overload
    <3>1. /\ Rotated(overload_list) \in Seq(Host) /\ IsInjective(Rotated(overload_list))
          /\ Range(Rotated(overload_list)) = Range(overload_list)
          /\ Head(overload_list) \in Range(overload_list)
      BY <1>1, <2>2, RotateList DEF choose_overload, TypeOK, ListsPartitionHosts, Rotated
    <3>2. Head(overload_list) \in allocated
      BY <1>1, <3>1, SMTT(40) DEF ListsPartitionHosts
    <3>3. /\ rsp' \in Rsp
          /\ Current(rsp')
      <4>1. rsp' = [asked |-> "get_host", retcode |-> "RET_SUCC", hosts |-> {Head(overload_list)},
                    of |-> remote, freed |-> FALSE]
        BY <2>2, SMTT(40) DEF choose_overload, Answer
      <4> QED BY <1>1, <3>2, <4>1, SMTT(40) DEF Current, RetCode, TypeOK, Rsp, Inv, ServedHostsMatchDns
    <3> QED BY <1>1, <2>2, <3>1, <3>3, SMTT(40) DEF choose_overload, TypeOK, ListsPartitionHosts
  <2>3. CASE choose_none
    BY <1>1, <2>3, SMTT(40) DEF choose_none, Answer, RetCode, TypeOK, ListsPartitionHosts, lists, Rsp, Current
  <2> QED BY <1>1, <2>1, <2>2, <2>3, SMTT(40) DEF choice_one_host
<1>4. TypeOK'
  BY <1>1, <1>2, <1>3 DEF TypeOK, Rsp
<1>5. ListsPartitionHosts'
  BY <1>1, <1>3, Zenon DEF ListsPartitionHosts, IsInjective, Range
<1>6. ThresholdsRespected' /\ WindowsAgree' /\ ServedHostsMatchDns'
  BY <1>1, Zenon DEF Inv, ThresholdsRespected, WindowsAgree, ServedHostsMatchDns
<1>7. ReporterUpToDate'
  BY <1>1, Zenon DEF Inv, ReporterUpToDate
<1>8. AnswersAreCurrent'
  BY <1>3, Zenon DEF AnswersAreCurrent, Current
<1> QED BY <1>4, <1>5, <1>6, <1>7, <1>8 DEF Inv

\* An update keeps the surviving hosts as they are and adds new idle ones.
LEMMA UpdateInv ==
    ASSUME Inv, NEW hosts \in SUBSET Host, update_host(hosts)
    PROVE  Inv'
<1> DEFINE added == hosts \ host_map
           need_delete == host_map \ hosts
<1>1. /\ TypeOK /\ ListsPartitionHosts /\ ThresholdsRespected /\ WindowsAgree
      /\ ServedHostsMatchDns /\ ReporterUpToDate /\ AnswersAreCurrent
  BY DEF Inv
<1>2. /\ host_map' = host_map \cup added
      /\ allocated' = (allocated \cup added) \ need_delete
      /\ info' = [h \in Host |-> IF h \in added \cup need_delete
                                 THEN set_idle ELSE info[h]]
      /\ \E kept \in Survivors(idle_list, hosts), new \in Orders(added) :
                idle_list' = kept \o new
      /\ overload_list' \in Survivors(overload_list, hosts)
      /\ update_age' = 0 /\ status' = "NEW" /\ remote' = hosts
      /\ unsent' = (unsent \cup added) \cap hosts
      /\ UNCHANGED <<exists, access_cnt, rsp, reported, ub>>
  BY SMTT(40) DEF update_host, update, new_host_info
<1>3. PICK kept \in Survivors(idle_list, hosts), new \in Orders(added) :
            idle_list' = kept \o new
  BY <1>2, Zenon
<1>4. added \subseteq Host /\ allocated \subseteq host_map /\ allocated' \subseteq Host
  BY <1>1, <1>2 DEF TypeOK
<1>5. kept \in Seq(Host) /\ IsInjective(kept) /\ Range(kept) = Range(idle_list) \cap hosts
  BY <1>1, SurvivorsOfList DEF TypeOK
<1>6. IsFiniteSet(added)
  BY <1>4, HostAssumption, FS_Subset
<1>7. new \in Seq(Host) /\ IsInjective(new) /\ Range(new) = added
  BY <1>4, <1>6, OrdersOf, Zenon
<1>8. Range(kept) \cap Range(new) = {}
  BY <1>1, <1>4, <1>5, <1>7 DEF ListsPartitionHosts
<1>9. /\ idle_list' \in Seq(Host) /\ IsInjective(idle_list')
      /\ Range(idle_list') = (Range(idle_list) \cap hosts) \cup added
  <2>1. /\ kept \o new \in Seq(Host) /\ IsInjective(kept \o new)
        /\ Range(kept \o new) = Range(kept) \cup Range(new)
    BY <1>5, <1>7, <1>8, ConcatLists, SMTT(40)
  <2> QED BY <1>3, <1>5, <1>7, <2>1
<1>10. /\ overload_list' \in Seq(Host) /\ IsInjective(overload_list')
       /\ Range(overload_list') = Range(overload_list) \cap hosts
  BY <1>1, <1>2, SurvivorsOfList, SMTT(40) DEF TypeOK
<1>11. /\ info' \in [Host -> HostInfo]
       /\ \A h \in allocated' : IF h \in added THEN info'[h] = set_idle
                                ELSE h \in allocated \cap hosts /\ info'[h] = info[h]
  BY <1>1, <1>2, <1>4, FreshInfo, SMTT(40) DEF TypeOK
<1>12. TypeOK'
  BY <1>1, <1>2, <1>4, <1>9, <1>10, <1>11 DEF TypeOK
<1>13. ListsPartitionHosts'
  <2>1. allocated' = (allocated \cap hosts) \cup added
    BY <1>2, <1>4
  <2>2. Range(idle_list') = {h \in allocated' : ~info'[h].overload}
    BY <2>1, <1>1, <1>4, <1>9, <1>11, FreshInfo DEF ListsPartitionHosts
  <2>3. Range(overload_list') = {h \in allocated' : info'[h].overload}
    BY <2>1, <1>1, <1>4, <1>10, <1>11, FreshInfo, Zenon DEF ListsPartitionHosts
  <2> QED BY <2>2, <2>3, <1>9, <1>10, Zenon DEF ListsPartitionHosts, IsInjective, Range
<1>14. ThresholdsRespected' /\ WindowsAgree'
  BY <1>1, <1>11, FreshInfo, Zenon DEF ThresholdsRespected, WindowsAgree, OneWindow, InRightState
<1>15. ServedHostsMatchDns' /\ AnswersAreCurrent'
  BY <1>1, <1>2, <1>4, <1>11, Zenon DEF ServedHostsMatchDns, AnswersAreCurrent
<1>16. ReporterUpToDate'
  <2> SUFFICES ASSUME NEW h \in allocated'
               PROVE  IF h \in unsent'
                      THEN Result(h, info'[h], info'[h].overload) = Result(h, set_idle, FALSE)
                      ELSE {r \in reported' : r.host = h} = {Result(h, info'[h], info'[h].overload)}
    BY Zenon DEF ReporterUpToDate, new_host_info
  <2>1. CASE h \in added
    <3>1. h \in unsent' /\ info'[h] = set_idle
      BY <1>2, <1>11, <2>1, Zenon
    <3>2. set_idle.overload = FALSE
      BY DEF set_idle
    <3> QED BY <3>1, <3>2, Zenon
  <2>2. CASE h \notin added
    <3>1. /\ h \in allocated /\ info'[h] = info[h] /\ reported' = reported
          /\ h \in unsent' <=> h \in unsent
      BY <1>2, <1>11, <2>2, Zenon
    <3> QED BY <1>1, <3>1, Zenon DEF ReporterUpToDate, new_host_info
  <2> QED BY <2>1, <2>2, Zenon
<1> QED BY <1>12, <1>13, <1>14, <1>15, <1>16 DEF Inv

\* Handlers that only answer, refresh or reset the status, and the clock.
LEMMA OtherInv ==
    ASSUME Inv,
           UNCHANGED <<host_map, allocated, lists, access_cnt, reported, unsent, remote>>,
           exists' \in BOOLEAN, ub' \in BOOLEAN,
           status' \in {"NEW", "PULLING"}, update_age' \in Nat,
           rsp' \in Rsp, Current(rsp'),
           info' \in [Host -> HostInfo],
           \A h \in Host : info'[h] = [info[h] EXCEPT !.age = info'[h].age]
    PROVE  Inv'
<1> USE DEF Inv, lists
<1>1. TypeOK'
  BY DEF TypeOK, Rsp
<1>2. \A h \in Host :
        /\ info'[h].vsucc = info[h].vsucc /\ info'[h].verr = info[h].verr
        /\ info'[h].rsucc = info[h].rsucc /\ info'[h].rerr = info[h].rerr
        /\ info'[h].contin_succ = info[h].contin_succ
        /\ info'[h].contin_err = info[h].contin_err
        /\ info'[h].overload = info[h].overload
  <2>1. \A h \in Host : info[h] \in HostInfo
    BY SMTT(40) DEF TypeOK
  <2> TAKE h \in Host
  <2>2. info[h] \in HostInfo /\ info'[h] = [info[h] EXCEPT !.age = info'[h].age]
    BY <2>1
  <2> HIDE DEF Inv, lists
  <2>3. info[h] = [vsucc |-> info[h].vsucc, verr |-> info[h].verr,
                   rsucc |-> info[h].rsucc, rerr |-> info[h].rerr,
                   contin_succ |-> info[h].contin_succ, contin_err |-> info[h].contin_err,
                   overload |-> info[h].overload, age |-> info[h].age]
    BY <2>2 DEF HostInfo
  <2> QED
    BY <2>2, <2>3
<1>3. allocated \subseteq Host
  BY DEF TypeOK
<1>4. ListsPartitionHosts'
  <2>1. IsInjective(idle_list') /\ IsInjective(overload_list')
    BY DEF ListsPartitionHosts
  <2> QED BY <1>2, <1>3, <2>1 DEF ListsPartitionHosts, Range, IsInjective
<1>5. ThresholdsRespected'
  BY <1>2, <1>3 DEF ThresholdsRespected, TurnsIdle, TurnsOverload, SuccRateHigh, ErrRateHigh
<1>6. WindowsAgree'
  BY <1>2, <1>3 DEF WindowsAgree
<1>7. ServedHostsMatchDns' /\ AnswersAreCurrent'
  BY DEF ServedHostsMatchDns, AnswersAreCurrent, Current
<1>8. ReporterUpToDate'
  <2>1. \A h \in allocated : /\ Result(h, info'[h], info'[h].overload)
                                  = Result(h, info[h], info[h].overload)
    BY <1>2, <1>3 DEF Result
  <2> QED BY <2>1, Zenon DEF ReporterUpToDate
<1> QED BY <1>1, <1>4, <1>5, <1>6, <1>7, <1>8

\* The clock changes ages only.
LEMMA TickInv ==
    ASSUME Inv, Tick
    PROVE  Inv'
<1>1. info \in [Host -> HostInfo]
  BY DEF Inv, TypeOK
<1>2. info' \in [Host -> HostInfo]
  BY <1>1 DEF Tick, HostInfo
<1>3. \A h \in Host : info'[h] = [info[h] EXCEPT !.age = info'[h].age]
  BY <1>1 DEF Tick, HostInfo
<1> QED BY <1>2, <1>3, OtherInv DEF Tick, Inv, TypeOK, lists, committed, Rsp,
                                             AnswersAreCurrent, Current

\* get_host and get_route change the lists' order, the counter and the status.
LEMMA AnswerInv ==
    ASSUME Inv, get_host_empty \/ get_route \/ get_route_deleted \/ reset_lb_status
    PROVE  Inv'
<1> DEFINE A(f, ret, hosts, freed) ==
        [asked |-> f, retcode |-> ret, hosts |-> hosts, of |-> remote, freed |-> freed]
<1>1. info \in [Host -> HostInfo] /\ info' = info
  BY DEF Inv, TypeOK, get_host_empty, get_route, get_route_deleted,
         reset_lb_status, objects
<1>2. \A h \in Host : info'[h] = [info[h] EXCEPT !.age = info'[h].age]
  BY <1>1, SMTT(40) DEF HostInfo
<1>3. /\ UNCHANGED <<host_map, allocated, lists, access_cnt, reported, unsent, remote,
                     exists, ub>>
      /\ status' \in {"NEW", "PULLING"} /\ update_age' \in Nat
  BY Zenon DEF Inv, TypeOK, get_host_empty, get_route, get_route_deleted, reset_lb_status,
         objects, lists, committed, pulling, refresh, pull
<1>4. rsp' \in Rsp /\ Current(rsp')
  <2>1. /\ allocated \subseteq remote /\ remote \subseteq host_map /\ host_map \subseteq Host
        /\ allocated \subseteq Host /\ remote \subseteq Host
    BY DEF Inv, TypeOK, ServedHostsMatchDns
  <2>2. CASE get_host_empty
    <3>1. rsp' = A("get_host", "RET_NOEXIST", {}, FALSE)
      BY <2>2 DEF get_host_empty, Answer
    <3> QED BY <2>1, <3>1, SMTT(40) DEF Rsp, RetCode, Current
  <2>3. CASE get_route
    <3>1. rsp' = A("get_route", "RET_SUCC", host_map, FALSE) /\ host_map = remote
      BY <2>1, <2>3 DEF get_route, Answer
    <3> QED BY <2>1, <3>1, SMTT(40) DEF Rsp, RetCode, Current
  <2>4. CASE get_route_deleted
    <3>1. PICK found \in SUBSET (host_map \ allocated) :
              rsp' = A("get_route", "RET_SUCC", allocated \cup found, TRUE)
      BY <2>4, Zenon DEF get_route_deleted
    <3> QED BY <2>1, <3>1 DEF Rsp, RetCode, Current
  <2>5. CASE reset_lb_status
    BY <2>5 DEF reset_lb_status, Inv, TypeOK, Rsp, AnswersAreCurrent, Current
  <2> QED BY <2>2, <2>3, <2>4, <2>5
<1>5. exists' \in BOOLEAN /\ ub' \in BOOLEAN
  BY <1>3 DEF Inv, TypeOK
<1> QED BY <1>1, <1>2, <1>3, <1>4, <1>5, OtherInv, Zenon

\* Every handler preserves the inductive invariant.
LEMMA StepInv ==
    ASSUME Inv, [Next]_vars
    PROVE  Inv'
<1>0. rsp \in Rsp /\ Current(rsp)
  BY SMTT(40) DEF Inv, TypeOK, Rsp, AnswersAreCurrent, Current
<1>1. CASE get_new
  <2>1. rsp' = [asked |-> "get_host", retcode |-> "RET_NOEXIST", hosts |-> {}, of |-> remote,
                freed |-> FALSE]
    BY <1>1, Zenon DEF get_new, Answer
  <2>2. rsp' \in Rsp /\ Current(rsp')
    BY <2>1 DEF Rsp, RetCode, Current, Inv, TypeOK
  <2> QED BY <1>1, <2>2, NoObjectInv DEF get_new, Inv, TypeOK
<1>2. CASE get_host
  BY <1>2, ChoiceInv
<1>3. CASE get_host_empty \/ get_route \/ get_route_deleted \/ reset_lb_status
  BY <1>3, AnswerInv
<1>4. CASE Undefined
  BY <1>4, UndefinedInv DEF Undefined
<1>5. ASSUME NEW h \in Host, report_unknown(h) PROVE Inv'
  BY <1>5, ReportUnknownInv
<1>6. ASSUME NEW h \in Host, NEW succ \in BOOLEAN, report_host(h, succ) PROVE Inv'
  BY <1>6, ReportInv, Zenon
<1>7. ASSUME NEW hosts \in SUBSET Host, update_host(hosts) PROVE Inv'
  BY <1>7, UpdateInv, SMTT(40)
<1>8. CASE update_host_empty
  <2>1. rsp' = rsp /\ exists' \in BOOLEAN /\ NoObject /\ status' = "NEW" /\ ub' = ub
    BY <1>8, Zenon DEF update_host_empty
  <2> QED BY <1>0, <2>1, NoObjectInv DEF Inv, TypeOK
<1>9. CASE Tick
  BY <1>9, TickInv
<1>10. CASE UNCHANGED vars
  <2>1. info \in [Host -> HostInfo] /\ info' = info
    BY <1>10 DEF Inv, TypeOK, vars, objects
  <2>2. \A h \in Host : info'[h] = [info[h] EXCEPT !.age = info'[h].age]
    BY <2>1 DEF HostInfo
  <2> QED BY <1>0, <1>10, <2>1, <2>2, OtherInv
          DEF vars, objects, lists, pulling, committed, Inv, TypeOK
<1> QED
  BY <1>1, <1>2, <1>3, <1>4, <1>5, <1>6, <1>7, <1>8, <1>9, <1>10, Zenon
  DEF Next, get_host_undefined, report_deleted, update_deleted

-----------------------------------------------------------------------------

\* Every reachable state of the balancer satisfies the inductive invariant.
THEOREM InvHolds == Spec => []Inv
<1>1. Inv /\ [Next]_vars => Inv'
  BY StepInv
<1> QED BY InitInv, <1>1, PTL DEF Spec

\* The variables keep the types of load_balance.h and host_info.h.
THEOREM Types == Spec => []TypeOK
BY InvHolds, PTL DEF Inv

\* update, report and choice_one_host never lose, duplicate or misfile a host,
\* whatever the hosts and the configuration.
THEOREM ListsPartition == Spec => []ListsPartitionHosts
BY InvHolds, PTL DEF Inv

\* report never leaves a host in a state its own thresholds forbid.
THEOREM Thresholds == Spec => []ThresholdsRespected
BY InvHolds, PTL DEF Inv

\* The judged and the reported counters always describe the same window.
THEOREM Windows == Spec => []WindowsAgree
BY InvHolds, PTL DEF Inv

\* Only hosts of the last DNS answer are managed, and none of them is unknown.
THEOREM ServedMatchDns == Spec => []ServedHostsMatchDns
BY InvHolds, PTL DEF Inv

\* The last message to the reporter says of every managed host what it is now,
\* or the host is newer than the message and nothing is counted for it yet
\* (route_lb.cpp:116-122).
THEOREM ReporterCurrent == Spec => []ReporterUpToDate
BY InvHolds, PTL DEF Inv

\* get_host answers with a host of the DNS answer in force and get_route with
\* exactly its hosts, unless it read deleted objects (load_balance.cpp:171-178).
THEOREM CurrentAnswers == Spec => []AnswersAreCurrent
BY InvHolds, PTL DEF Inv
=============================================================================
