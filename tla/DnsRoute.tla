------------------------------ MODULE DnsRoute ------------------------------
(***************************************************************************)
(* The route table of lars_dns (dns_route.cpp) and the database it is      *)
(* loaded from, which the web console edits (controllers/default.go,       *)
(* models/modelFunc.go).                                                   *)
(*                                                                         *)
(* Actors: the web sessions, whose requests are three separate SQL         *)
(* statements; the thread of check_route_changes, which polls RouteVersion *)
(* and reloads; the threads that call get_hosts; two clocks, because the   *)
(* versions are seconds of the web host and the reload timeout is counted  *)
(* on the dns host.                                                        *)
(*                                                                         *)
(* RouteData's contents are named by the number of edits that made them    *)
(* (edit n turns contents n-1 into contents n), a row of RouteChange by    *)
(* the edit it records and its version.  A map of Route holds the number   *)
(* of the contents loaded into it, or Partial while it is being filled.    *)
(*                                                                         *)
(* A reader of the clock (time.Now().Unix()) may be delayed before it uses *)
(* what it read: since is when the handler came to the call, and the value *)
(* its statement writes is of any moment from then on.                     *)
(***************************************************************************)
EXTENDS Integers

CONSTANTS
    Reader,         \* threads that call get_hosts
    Session,        \* requests the web console serves at a time
    wait_time,      \* seconds between two unconditional reloads
    MaxEdits,       \* bound: edits of RouteData
    MaxTime,        \* bound: seconds of the web host's clock
    MaxRestarts,    \* bound: exits of lars_dns
    FirstVersion    \* the version the database is set up with

ASSUME DnsAssumption ==
    /\ wait_time \in Nat /\ MaxEdits \in Nat
    /\ MaxTime \in Nat \ {0} /\ MaxRestarts \in Nat
    /\ FirstVersion \in {0, 1}

VARIABLES
    edits, RouteChange, RouteVersion,   \* the database
    now,                                \* time.Now().Unix() on the web host
    web,                                \* the requests being served
    map, data_pointer,                  \* RouteDataMap_A, _B and which is read
    version,                            \* Route::_version
    pc, forced, changes,                \* check_route_changes
    age,                                \* time since last_load_time, saturating
    reading,                            \* the map get_hosts is copying from
    restarts,
    withdrawn,      \* history: the last version written took back one not yet loaded
    delivered       \* history: edits the last round published with their data

db == <<edits, RouteChange, RouteVersion>>
console == <<now, web>>
table == <<map, data_pointer>>
pollerVars == <<version, pc, forced, changes, age>>
history == <<restarts, withdrawn, delivered>>
dnsVars == <<db, console, table, pollerVars, reading, history>>

Buffer == {"RouteDataMap_A", "RouteDataMap_B"}
Partial == -2
None == "none"
Other(b) == CHOOSE x \in Buffer : x # b
temp_pointer == Other(data_pointer)

-----------------------------------------------------------------------------
(* The web console                                                         *)

Idle == [step |-> "idle", edit |-> 0, since |-> 0]

\* HandleAddRoute and HandleUpdate: the edit of RouteData, then the row of
\* RouteChange, then the version.  HandlerDelete edits RouteData only.
EditRoute(s) ==
    /\ web[s].step = "idle" /\ edits < MaxEdits
    /\ edits' = edits + 1
    /\ web' = [web EXCEPT ![s] = [step |-> "change", edit |-> edits + 1, since |-> now]]
    /\ UNCHANGED <<RouteChange, RouteVersion, now, table, pollerVars, reading, history>>

HandlerDelete(s) ==
    /\ web[s].step = "idle" /\ edits < MaxEdits
    /\ edits' = edits + 1
    /\ UNCHANGED <<RouteChange, RouteVersion, console, table, pollerVars, reading, history>>

InsertRouteChange(s) ==
    /\ web[s].step = "change"
    /\ \E ts \in web[s].since .. now :
           RouteChange' = RouteChange \cup {[edit |-> web[s].edit, version |-> ts]}
    /\ web' = [web EXCEPT ![s] = [step |-> "version", edit |-> 0, since |-> now]]
    /\ UNCHANGED <<edits, RouteVersion, now, table, pollerVars, reading, history>>

UpdateVersion(s) ==
    /\ web[s].step = "version"
    /\ \E ts \in web[s].since .. now :
           /\ RouteVersion' = ts
           /\ withdrawn' = (RouteVersion # version /\ ts = version)
    /\ web' = [web EXCEPT ![s] = Idle]
    /\ UNCHANGED <<edits, RouteChange, now, table, pollerVars, reading, restarts, delivered>>

\* The error either statement returns is printed and the handler goes on.
StatementFails(s) ==
    /\ web[s].step # "idle"
    /\ web' = [web EXCEPT ![s] =
           IF @.step = "change" THEN [step |-> "version", edit |-> 0, since |-> now] ELSE Idle]
    /\ UNCHANGED <<db, now, table, pollerVars, reading, history>>

-----------------------------------------------------------------------------
(* check_route_changes                                                     *)

\* load_version() == 1, and the clear() load_route_data starts with.  The load
\* is dated current_time, read before load_version; only this thread reads
\* last_load_time, so it may be set here already.
load_version ==
    /\ pc = "sleep" /\ version # RouteVersion
    /\ version' = RouteVersion
    /\ map' = [map EXCEPT ![temp_pointer] = Partial]
    /\ forced' = FALSE /\ pc' = "select" /\ age' = 0 /\ delivered' = {}
    /\ UNCHANGED <<db, console, data_pointer, changes, reading, restarts, withdrawn>>

\* Mutant: the timeout is looked at only when the version has changed.
reload_timeout_NewVersion ==
    /\ pc = "sleep" /\ version # RouteVersion /\ age >= wait_time
    /\ map' = [map EXCEPT ![temp_pointer] = Partial]
    /\ forced' = TRUE /\ pc' = "select" /\ age' = 0 /\ delivered' = {}
    /\ UNCHANGED <<db, console, data_pointer, version, changes, reading, restarts, withdrawn>>

\* load_version() == 0 and the last load is wait_time old.
reload_timeout ==
    /\ pc = "sleep" /\ version = RouteVersion /\ age >= wait_time
    /\ map' = [map EXCEPT ![temp_pointer] = Partial]
    /\ forced' = TRUE /\ pc' = "select" /\ age' = 0 /\ delivered' = {}
    /\ UNCHANGED <<db, console, data_pointer, version, changes, reading, restarts, withdrawn>>

load_route_data ==
    /\ pc = "select"
    /\ map' = [map EXCEPT ![temp_pointer] = edits]
    /\ pc' = "swap"
    /\ UNCHANGED <<db, console, data_pointer, version, forced, changes, age, reading, history>>

\* Mutant: the write lock is not taken.
Route_swap_NoLock ==
    /\ pc = "swap"
    /\ data_pointer' = temp_pointer
    /\ pc' = IF forced THEN "sleep" ELSE "changes"
    /\ UNCHANGED <<db, console, map, version, forced, changes, age, reading, history>>

\* The write lock waits until nobody holds the read lock.
Route_swap ==
    /\ pc = "swap" /\ \A r \in Reader : reading[r] = None
    /\ data_pointer' = temp_pointer
    /\ pc' = IF forced THEN "sleep" ELSE "changes"
    /\ UNCHANGED <<db, console, map, version, forced, changes, age, reading, history>>

\* Mutant: only changes newer than the version are selected.
load_changes_After ==
    /\ pc = "changes"
    /\ changes' = {c \in RouteChange : c.version > version}
    /\ pc' = "publish"
    /\ UNCHANGED <<db, console, table, version, forced, age, reading, history>>

load_changes ==
    /\ pc = "changes"
    /\ changes' = {c \in RouteChange : c.version >= version}
    /\ pc' = "publish"
    /\ UNCHANGED <<db, console, table, version, forced, age, reading, history>>

\* SubscribeList::publish; the pushes it causes are those of Subscribe.tla.
SubscribeList_publish ==
    /\ pc = "publish"
    /\ delivered' = {e \in {c.edit : c \in changes} : e <= map[data_pointer]}
    /\ changes' = {} /\ pc' = "sleep"
    /\ UNCHANGED <<db, console, table, version, forced, age, reading, restarts, withdrawn>>

\* A query fails, lars_dns exits, and its next start builds the map anew,
\* with _version(0).
exit ==
    /\ restarts < MaxRestarts
    /\ restarts' = restarts + 1
    /\ map' = [map EXCEPT ![data_pointer] = edits, ![temp_pointer] = 0]
    /\ version' = 0
    /\ pc' = "sleep" /\ forced' = FALSE /\ changes' = {} /\ age' = 0
    /\ reading' = [r \in Reader |-> None]
    /\ withdrawn' = FALSE /\ delivered' = {}
    /\ UNCHANGED <<db, console, data_pointer>>

-----------------------------------------------------------------------------
(* Route::get_hosts: the read lock is taken, and given back when the hosts *)
(* are copied.                                                             *)

rdlock(r) ==
    /\ reading[r] = None
    /\ reading' = [reading EXCEPT ![r] = data_pointer]
    /\ UNCHANGED <<db, console, table, pollerVars, history>>

get_hosts(r) ==
    /\ reading[r] # None
    /\ reading' = [reading EXCEPT ![r] = None]
    /\ UNCHANGED <<db, console, table, pollerVars, history>>

-----------------------------------------------------------------------------
(* The clocks                                                              *)

TickWeb ==
    /\ now < MaxTime
    /\ now' = now + 1
    /\ UNCHANGED <<db, web, table, pollerVars, reading, history>>

\* Only a sleeping poller's next step looks at age, so the seconds that pass
\* in a round are counted when it sleeps again.
TickDns ==
    /\ pc = "sleep" /\ age < wait_time
    /\ age' = age + 1
    /\ UNCHANGED <<db, console, table, version, pc, forced, changes, reading, history>>

-----------------------------------------------------------------------------

\* lars_dns.sql inserts version 0, lars_dns_insert.sql makes it the time;
\* build_maps loads RouteData once.
DnsInit ==
    /\ now = 1 /\ web = [s \in Session |-> Idle]
    /\ edits = 0 /\ RouteChange = {} /\ RouteVersion = FirstVersion
    /\ map = [b \in Buffer |-> 0] /\ data_pointer = "RouteDataMap_A"
    /\ version = 0 /\ pc = "sleep" /\ forced = FALSE /\ changes = {} /\ age = 0
    /\ reading = [r \in Reader |-> None]
    /\ restarts = 0 /\ withdrawn = FALSE /\ delivered = {}

check_route_changes == \/ load_version \/ reload_timeout \/ load_route_data
                       \/ Route_swap \/ load_changes \/ SubscribeList_publish

DnsNext ==
    \/ \E s \in Session : \/ EditRoute(s) \/ HandlerDelete(s)
                          \/ InsertRouteChange(s) \/ UpdateVersion(s)
                          \/ StatementFails(s)
    \/ check_route_changes \/ exit
    \/ \E r \in Reader : rdlock(r) \/ get_hosts(r)
    \/ TickWeb \/ TickDns

DnsSpec == DnsInit /\ [][DnsNext]_dnsVars

\* The poller thread is scheduled, and waiting for the write lock it gets it
\* when the last reader leaves; a reader leaves its critical section; the dns
\* clock runs; a web request that was accepted is served to its end.  That
\* readers ever leave the lock free is not assumed.
DnsFairSpec ==
    /\ DnsSpec
    /\ WF_dnsVars(check_route_changes) /\ SF_dnsVars(Route_swap) /\ WF_dnsVars(TickDns)
    /\ \A r \in Reader : WF_dnsVars(get_hosts(r))
    /\ \A s \in Session : WF_dnsVars(InsertRouteChange(s) \/ UpdateVersion(s))

-----------------------------------------------------------------------------
(* Properties                                                              *)

\* The double buffer behaves like one table that is replaced in one step:
\* all the while get_hosts copies, the map it reads holds the contents the
\* table had when it began, and load_route_data neither clears nor fills it
\* (dns_route.cpp:108-183).
NoHosts == -1
copied == [r \in Reader |-> IF reading[r] = None THEN NoHosts ELSE map[reading[r]]]
Table == INSTANCE RouteTable WITH table <- map[data_pointer], hosts <- copied
ServesSnapshots == Table!Spec

\* The reload every wait_time seconds repairs whatever the version check
\* missed: every edit, also one that no version announces, reaches the table
\* get_hosts answers from, provided the readers leave the lock free again and
\* again (dns_route.cpp:218-230).  The lock prefers readers, so overlapping
\* ones can keep swap waiting for ever (dns_route.cpp:20,174).
LockIsFree == \A r \in Reader : reading[r] = None
TableConverges ==
    []<>LockIsFree => \A e \in 1 .. MaxEdits : edits >= e ~> map[data_pointer] >= e

\* A row of RouteChange is published, together with the data of its edit,
\* once RouteVersion tells the poller so: the version differs from the one
\* loaded last and is not newer than the row.  Before the next poll a newer
\* version may hide the row from the poller, and a request that read the clock
\* early may write back the version that is loaded (dns_route.cpp:198-214,
\* modelFunc.go:80,87); readers must leave the lock free.
Announced(e) ==
    version # RouteVersion /\ \E c \in RouteChange : c.edit = e /\ c.version >= RouteVersion
Hidden(e) == \A c \in RouteChange : c.edit = e => c.version < RouteVersion
AnnouncedChangesPublished ==
    []<>LockIsFree =>
        \A e \in 1 .. MaxEdits : Announced(e) ~> (e \in delivered \/ Hidden(e) \/ withdrawn)
=============================================================================
