------------------------------ MODULE Console ------------------------------
(***************************************************************************)
(* The web console (lars_web): browsers with sessions, the login and the   *)
(* filter in front of /db/ (router.go), the handlers (default.go) and the  *)
(* statements they run (modelFunc.go).  All sessions share GlobalDB, the   *)
(* database of the login that came last.                                   *)
(*                                                                         *)
(* A handler runs its steps one after the other; the steps of different    *)
(* requests interleave.  What lars_dns makes of the tables, and the clock  *)
(* the versions come from, are in DnsRoute.tla.                            *)
(***************************************************************************)
EXTENDS Naturals, FiniteSets, Sequences, TLC

CONSTANTS
    Tab,            \* browser tabs
    Session,
    Db,             \* databases that can be logged in to
    Modid,          \* modid/cmdid pairs
    SessionKeys,    \* keys a login stores (5)
    MaxId,          \* bound: rows of RouteData ever made in a database
    MaxRequests     \* bound: requests admitted

NULL == "NULL"

ASSUME ConsoleAssumption ==
    SessionKeys \in Nat \ {0} /\ MaxId \in Nat /\ MaxRequests \in Nat /\ NULL \notin Db

Id == 1 .. MaxId
Key == 1 .. SessionKeys

VARIABLES
    session,        \* the values stored under the keys of a session
    GlobalDB,
    tables,         \* RouteData; the rows of RouteChange that the version does
                    \* not cover yet; whether RouteVersion has its row; and
                    \* the number of rows of ModIDConfig or CmdIDConfig
    req,            \* the request a tab waits for
    todo,           \* the steps its handler has still to do
    requests,       \* history: requests admitted
    dirty,          \* history: modules changed in a database since its version
                    \* last announced them
    excused         \* history: those of them that no request will announce

database == <<tables, dirty, excused>>
consoleVars == <<session, GlobalDB, database, req, todo, requests>>

NoRequest == [s |-> NULL, op |-> "none", db |-> NULL, mod |-> NULL, id |-> 0,
              first |-> NULL]     \* history: the database of its first statement

-----------------------------------------------------------------------------
(* The handlers, as the steps that change something or can fail            *)

Times(n, step) == [i \in 1 .. n |-> step]

\* Mutant: the session is filled before the database is opened.
HandleLogin_SessionFirst == Times(SessionKeys, "SetSession") \o <<"InitModel", "InitModelAgain">>

HandleLogin == <<"InitModel">> \o Times(SessionKeys, "SetSession") \o <<"InitModelAgain">>
Logout == Times(SessionKeys, "DelSession")

\* Mutant: the version is written before the change.
HandleAddRoute_VersionFirst == <<"AddRoute", "UpdateVersion", "InsertRouteChange">>

HandleAddRoute == <<"AddRoute", "InsertRouteChange", "UpdateVersion">>
HandleUpdate == <<"UpdateRoute", "InsertRouteChange", "UpdateVersion">>
HandlerDelete == <<"DeleteRoute">>
HandleAddMod == <<"AddModid">>
DeleteMod == <<"DeleteMod">>
EditMod == <<"EditMod">>

\* ShowIndex, ShowRouteData, ShowUpdateRoute and the other pages read a table.
Show == <<"Find">>

Handler(op) ==
    CASE op = "login" -> HandleLogin    [] op = "logout" -> Logout
      [] op = "add" -> HandleAddRoute   [] op = "update" -> HandleUpdate
      [] op = "delete" -> HandlerDelete [] op = "show" -> Show
      [] op = "addMod" -> HandleAddMod  [] op = "deleteMod" -> DeleteMod
      [] op = "editMod" -> EditMod

\* HandlerFunc: the filter in front of /db/ asks for all keys.
HandlerFunc(s) == \A k \in Key : session[s][k] # NULL

Start(t, r) ==
    /\ todo[t] = <<>> /\ requests < MaxRequests
    /\ req' = [req EXCEPT ![t] = r]
    /\ todo' = [todo EXCEPT ![t] = Handler(r.op)]
    /\ requests' = requests + 1
    /\ UNCHANGED <<session, GlobalDB, database>>

login(t, s, d) == Start(t, [NoRequest EXCEPT !.s = s, !.op = "login", !.db = d])
logout(t, s) == Start(t, [NoRequest EXCEPT !.s = s, !.op = "logout"])
request(t, s, op, m, i) ==
    /\ HandlerFunc(s)
    /\ Start(t, [NoRequest EXCEPT !.s = s, !.op = op, !.mod = m, !.id = i])

-----------------------------------------------------------------------------
(* The steps                                                               *)

At(t, step) == todo[t] # <<>> /\ Head(todo[t]) = step
Ends(t) ==
    /\ todo' = [todo EXCEPT ![t] = <<>>]
    /\ req' = [req EXCEPT ![t] = NoRequest]
Goes(t, db) ==
    IF Len(todo[t]) = 1 THEN Ends(t)
    ELSE /\ todo' = [todo EXCEPT ![t] = Tail(@)]
         /\ req' = [req EXCEPT ![t] = [req[t] EXCEPT !.first =
                        IF req[t].first = NULL THEN db ELSE req[t].first]]

\* gorm.Open may fail, which ends the handler; at the second call the session
\* is filled by then.  The tables that AutoMigrate makes are there from the
\* start in this model.
InitModel(t) ==
    /\ At(t, "InitModel") \/ At(t, "InitModelAgain")
    /\ \/ GlobalDB' = req[t].db /\ Goes(t, NULL)
       \/ UNCHANGED GlobalDB /\ Ends(t)
    /\ UNCHANGED <<session, database, requests>>

\* The key the next call is about, counted from the last one.
KeyAt(t, step) == Cardinality({i \in 1 .. Len(todo[t]) : todo[t][i] = step})

SetSession(t) ==
    /\ At(t, "SetSession")
    /\ session' = [session EXCEPT ![req[t].s] = [@ EXCEPT ![KeyAt(t, "SetSession")] = req[t].db]]
    /\ Goes(t, NULL)
    /\ UNCHANGED <<GlobalDB, database, requests>>

DelSession(t) ==
    /\ At(t, "DelSession")
    /\ session' = [session EXCEPT ![req[t].s] = [@ EXCEPT ![KeyAt(t, "DelSession")] = NULL]]
    /\ Goes(t, NULL)
    /\ UNCHANGED <<GlobalDB, database, requests>>

\* A statement runs on the database GlobalDB points to by now.
Statement(t, step) ==
    /\ At(t, step)
    /\ UNCHANGED <<session, GlobalDB, requests>>

\* A module that was changed will not be announced by this request.
Excuse(d, mods) == excused' = [excused EXCEPT ![d] = @ \cup mods]
Changed(d, mods) == dirty' = [dirty EXCEPT ![d] = @ \cup mods]

\* A failed insertion ends the handler; ids are given in order.
AddRoute(t) ==
    LET d == GlobalDB
        i == tables[d].next
        rows == tables[d].RouteData
    IN  /\ Statement(t, "AddRoute")
        /\ \/ /\ i \in Id
              /\ tables' = [tables EXCEPT ![d] =
                            [@ EXCEPT !.RouteData = [rows EXCEPT ![i] = req[t].mod], !.next = i + 1]]
              /\ Changed(d, {req[t].mod})
              /\ Goes(t, GlobalDB)
           \/ Ends(t) /\ UNCHANGED <<tables, dirty>>
        /\ UNCHANGED excused

\* Nobody looks at the error of an update or of a row that is not there.
UpdateRoute(t) ==
    LET d == GlobalDB
        i == req[t].id
        rows == tables[d].RouteData
        m == rows[i]
    IN  /\ Statement(t, "UpdateRoute")
        /\ \/ /\ m # NULL
              /\ tables' = [tables EXCEPT ![d] =
                            [@ EXCEPT !.RouteData = [rows EXCEPT ![i] = req[t].mod]]]
              /\ Changed(d, {m, req[t].mod})
              /\ Excuse(d, {m} \ {req[t].mod})
           \/ UNCHANGED database
        /\ Goes(t, GlobalDB)

DeleteRoute(t) ==
    LET d == GlobalDB
        i == req[t].id
        rows == tables[d].RouteData
        m == rows[i]
    IN  /\ Statement(t, "DeleteRoute")
        /\ \/ /\ m # NULL
              /\ tables' = [tables EXCEPT ![d] = [@ EXCEPT !.RouteData = [rows EXCEPT ![i] = NULL]]]
              /\ Changed(d, {m}) /\ Excuse(d, {m})
           \/ UNCHANGED database
        /\ Goes(t, GlobalDB)

\* A request that failed, or whose first statement went to another database,
\* leaves its change unannounced there.
InsertRouteChange(t) ==
    LET d == GlobalDB
        rows == tables[d].RouteChange
    IN  /\ Statement(t, "InsertRouteChange")
        /\ \/ /\ tables' = [tables EXCEPT ![d] = [@ EXCEPT !.RouteChange = rows \cup {req[t].mod}]]
              /\ IF req[t].first = d THEN UNCHANGED excused ELSE Excuse(req[t].first, {req[t].mod})
           \/ UNCHANGED tables /\ Excuse(req[t].first, {req[t].mod})
        /\ Goes(t, GlobalDB)
        /\ UNCHANGED dirty

\* The row with id 1 is made by lars_dns.sql, not by AutoMigrate.
UpdateVersion(t) ==
    LET d == GlobalDB
        rows == tables[d].RouteChange
        e == [excused EXCEPT ![d] = @ \ rows]
    IN  /\ Statement(t, "UpdateVersion")
        /\ \/ /\ tables[d].RouteVersion
              /\ tables' = [tables EXCEPT ![d] = [@ EXCEPT !.RouteChange = {}]]
              /\ dirty' = [dirty EXCEPT ![d] = @ \ rows]
              /\ excused' = IF req[t].first = d THEN e ELSE [e EXCEPT ![req[t].first] = @ \cup {req[t].mod}]
           \/ Excuse(req[t].first, {req[t].mod}) /\ UNCHANGED <<tables, dirty>>
        /\ Goes(t, GlobalDB)

\* AddModid and AddCmdid, DeleteMod and DeleteCmd; no row matches the id, or
\* the table, which nothing in the repository makes, is not there.
AddModid(t) ==
    LET n == tables[GlobalDB].ModIDConfig
    IN  /\ Statement(t, "AddModid")
        /\ \/ tables' = [tables EXCEPT ![GlobalDB] = [@ EXCEPT !.ModIDConfig = n + 1]]
           \/ UNCHANGED tables
        /\ Goes(t, GlobalDB)
        /\ UNCHANGED <<dirty, excused>>

delete_mod(t) ==
    LET n == tables[GlobalDB].ModIDConfig
    IN  /\ Statement(t, "DeleteMod")
        /\ \/ /\ n > 0
              /\ tables' = [tables EXCEPT ![GlobalDB] = [@ EXCEPT !.ModIDConfig = n - 1]]
           \/ UNCHANGED tables
        /\ Goes(t, GlobalDB)
        /\ UNCHANGED <<dirty, excused>>

\* Contents are not part of the model.
edit_mod(t) == Statement(t, "EditMod") /\ Goes(t, GlobalDB) /\ UNCHANGED database

find(t) == Statement(t, "Find") /\ Goes(t, GlobalDB) /\ UNCHANGED database

-----------------------------------------------------------------------------

\* The provider of sessions forgets one after an hour.
Expire(s) ==
    /\ HandlerFunc(s)
    /\ session' = [session EXCEPT ![s] = [k \in Key |-> NULL]]
    /\ UNCHANGED <<GlobalDB, database, req, todo, requests>>

\* Sessions are kept in memory and go with GlobalDB and the requests.
Restart ==
    /\ GlobalDB # NULL
    /\ session' = [s \in Session |-> [k \in Key |-> NULL]] /\ GlobalDB' = NULL
    /\ todo' = [t \in Tab |-> <<>>]
    /\ excused' = [d \in Db |-> excused[d] \cup {req[t].mod : t \in {u \in Tab : req[u].first = d}}]
    /\ req' = [t \in Tab |-> NoRequest]
    /\ UNCHANGED <<tables, dirty, requests>>

\* row: the database was made by lars_dns.sql.
EmptyTables(row) ==
    [RouteData |-> [i \in Id |-> NULL], next |-> 1, RouteChange |-> {},
     RouteVersion |-> row, ModIDConfig |-> 0]

ConsoleInit ==
    /\ session = [s \in Session |-> [k \in Key |-> NULL]] /\ GlobalDB = NULL
    /\ tables \in [Db -> {EmptyTables(row) : row \in BOOLEAN}]
    /\ req = [t \in Tab |-> NoRequest] /\ todo = [t \in Tab |-> <<>>] /\ requests = 0
    /\ dirty = [d \in Db |-> {}] /\ excused = [d \in Db |-> {}]

Browse(t) ==
    \E s \in Session :
        \/ logout(t, s)
        \/ \E d \in Db : login(t, s, d)
        \/ \E m \in Modid : request(t, s, "add", m, 0)
        \/ \E m \in Modid, i \in Id : request(t, s, "update", m, i)
        \/ \E i \in Id : request(t, s, "delete", NULL, i)
        \/ \E op \in {"show", "addMod", "deleteMod", "editMod"} : request(t, s, op, NULL, 0)

ConsoleNext ==
    \/ Restart
    \/ \E s \in Session : Expire(s)
    \/ \E t \in Tab :
        \/ Browse(t)
        \/ InitModel(t) \/ SetSession(t) \/ DelSession(t)
        \/ AddRoute(t) \/ UpdateRoute(t) \/ DeleteRoute(t) \/ InsertRouteChange(t) \/ UpdateVersion(t)
        \/ AddModid(t) \/ delete_mod(t) \/ edit_mod(t) \/ find(t)

Symmetry == Permutations(Tab) \cup Permutations(Session) \cup Permutations(Db) \cup Permutations(Modid)

ConsoleSpec == ConsoleInit /\ [][ConsoleNext]_consoleVars

-----------------------------------------------------------------------------
(* Properties                                                              *)

\* No statement is run before a database is open: the filter asks for all
\* keys, a login stores them after gorm.Open has succeeded, and a restart
\* forgets both.  GlobalDB is a nil pointer until then, and no handler looks
\* (default.go:36-47, router.go:51-63, modelFunc.go:10-25).
AdmittedHasDatabase ==
    \A t \in Tab : todo[t] # <<>> /\ req[t].op \notin {"login", "logout"} => GlobalDB # NULL

\* Once the handlers are done, the version of a database has announced every
\* module that was changed in it, but for those a row was deleted or moved
\* away from, and those of a request that met an error, a restart, a database
\* without a version, or another database after its first statement, because
\* somebody logged in (default.go:114-221, modelFunc.go:47-88).
ChangesAnnounced ==
    (\A t \in Tab : todo[t] = <<>>) => \A d \in Db : dirty[d] \subseteq excused[d]
=============================================================================
