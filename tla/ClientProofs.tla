---------------------------- MODULE ClientProofs ----------------------------
(***************************************************************************)
(* The programs at the two sides of lars_dns: the console that edits its   *)
(* database, and the agent that asks it for routes.                        *)
(*                                                                         *)
(* Of Console: AdmittedHasDatabase and ChangesAnnounced hold for any tabs, *)
(* sessions, databases and modules, and any number of session keys, rows   *)
(* and requests.                                                           *)
(*                                                                         *)
(* Of Agent: PullOnItsWay, OnlyDnsQueueTooEarly and PortIsConfigured hold  *)
(* for any modules, any configuration file, and any number of messages,    *)
(* answers and pushes.                                                     *)
(***************************************************************************)
EXTENDS Agent, Console, WellFoundedInduction, TLAPS

-----------------------------------------------------------------------------
(* Console                                                                 *)

USE SMTT(60), ZenonT(60)

LoginStep == {"InitModel", "SetSession", "InitModelAgain"}
Step == LoginStep \cup {"DelSession", "AddRoute", "UpdateRoute", "InsertRouteChange", "UpdateVersion",
                       "DeleteRoute", "AddModid", "DeleteMod", "EditMod", "Find"}
Single == {"delete", "show", "addMod", "deleteMod", "editMod"}

Request == [s : Session \cup {NULL}, op : {"none", "login", "logout", "add", "update"} \cup Single,
            db : Db \cup {NULL}, mod : Modid \cup {NULL}, id : Nat, first : Db \cup {NULL}]
TableRows == [RouteData : [Id -> Modid \cup {NULL}], next : Nat, RouteChange : SUBSET (Modid \cup {NULL}),
              RouteVersion : BOOLEAN, ModIDConfig : Nat]
TableTypes ==
    /\ tables \in [Db -> TableRows]
    /\ dirty \in [Db -> SUBSET (Modid \cup {NULL})] /\ excused \in [Db -> SUBSET (Modid \cup {NULL})]
ConsoleTypes ==
    /\ session \in [Session -> [Key -> Db \cup {NULL}]] /\ GlobalDB \in Db \cup {NULL}
    /\ req \in [Tab -> Request] /\ todo \in [Tab -> Seq(Step)]
    /\ TableTypes

\* What is left of a handler is the end of one: first is set from the second
\* step on of the handlers that have several statements, and never else.
Left(t) ==
    LET op == req[t].op
        h == todo[t]
        rest == {<<"InsertRouteChange", "UpdateVersion">>, <<"UpdateVersion">>}
        begun == req[t].first # NULL /\ h \in rest
    IN  /\ h # <<>> <=> op # "none"
        /\ req[t].first # NULL => op \in {"add", "update"} /\ begun
        /\ op = "login" => req[t].s \in Session /\ req[t].db \in Db /\ h \in Seq(LoginStep)
        /\ op = "logout" => req[t].s \in Session /\ h \in Seq({"DelSession"})
        /\ op = "add" => h = HandleAddRoute \/ begun
        /\ op = "update" => req[t].id \in Id /\ (h = HandleUpdate \/ begun)
        /\ op = "delete" => req[t].id \in Id
        /\ op \in Single => h = Handler(op)

\* A database is open once a login is past gorm.Open, for as long as a session
\* has a value.
OpenedFirst ==
    /\ \A s \in Session, k \in Key : session[s][k] # NULL => GlobalDB # NULL
    /\ \A t \in Tab : req[t].op = "login" /\ todo[t][1] # "InitModel" => GlobalDB # NULL
    /\ AdmittedHasDatabase

\* A change that is neither announced nor excused is that of a request which
\* has still to write it to RouteChange, or has and has still to write the
\* version.
Announces(t, d, m) ==
    /\ req[t].first = d /\ req[t].mod = m
    /\ \/ todo[t][1] = "InsertRouteChange"
       \/ todo[t][1] = "UpdateVersion" /\ m \in tables[d].RouteChange
Announced ==
    \A d \in Db : \A m \in dirty[d] \ excused[d] : \E t \in Tab : Announces(t, d, m)

ConsoleInv == ConsoleTypes /\ (\A t \in Tab : Left(t)) /\ OpenedFirst /\ Announced

-----------------------------------------------------------------------------

\* The step a handler has come to tells which handler it is and what is left.
Stage(t) ==
    LET op == req[t].op
        h == todo[t]
    IN  /\ At(t, "InitModel") \/ At(t, "InitModelAgain") \/ At(t, "SetSession") => op = "login"
        /\ At(t, "DelSession") => op = "logout"
        /\ At(t, "AddRoute") => op = "add" /\ h = HandleAddRoute
        /\ At(t, "UpdateRoute") => op = "update" /\ h = HandleUpdate
        /\ At(t, "InsertRouteChange") \/ At(t, "UpdateVersion") =>
               op \in {"add", "update"} /\ req[t].first \in Db
        /\ At(t, "InsertRouteChange") => h = <<"InsertRouteChange", "UpdateVersion">>
        /\ At(t, "UpdateVersion") => h = <<"UpdateVersion">>
        /\ At(t, "DeleteRoute") => op = "delete"
        /\ At(t, "DeleteRoute") \/ At(t, "AddModid") \/ At(t, "DeleteMod") \/ At(t, "EditMod")
                \/ At(t, "Find") => op \in Single /\ Len(h) = 1

\* The steps still to run and the request's operation determine each other.
LEMMA WhichStage ==
    ASSUME ConsoleTypes, NEW t \in Tab, Left(t) PROVE Stage(t)
<1> SUFFICES ASSUME todo[t] # <<>> PROVE Stage(t)
  BY Zenon DEF Stage, At
<1> DEFINE op == req[t].op
           h == todo[t]
<1>1. op \in {"login", "logout", "add", "update"} \cup Single /\ req[t].first \in Db \cup {NULL}
  BY Zenon DEF ConsoleTypes, Request, Left
<1>2. CASE op = "login"
  <2>1. Head(h) \in LoginStep
    BY <1>2 DEF Left
  <2> QED
    BY <1>2, <2>1, Zenon DEF Stage, At, LoginStep
<1>3. CASE op = "logout"
  <2>1. Head(h) = "DelSession"
    BY <1>3 DEF Left
  <2> QED
    BY <1>3, <2>1, Zenon DEF Stage, At
<1>4. CASE op = "add"
  BY <1>1, <1>4 DEF Left, Stage, At, HandleAddRoute
<1>5. CASE op = "update"
  BY <1>1, <1>5 DEF Left, Stage, At, HandleUpdate
<1>6. CASE op \in Single
  BY <1>6 DEF Left, Stage, At, Single, Handler, HandlerDelete, Show, HandleAddMod, DeleteMod, EditMod
<1> QED
  BY <1>1, <1>2, <1>3, <1>4, <1>5, <1>6, Zenon

Others(t) == \A u \in Tab \ {t} : todo'[u] = todo[u] /\ req'[u] = req[u]

\* A handler that is done leaves the tab without a request.
LEMMA EndsOf ==
    ASSUME ConsoleTypes, NEW t \in Tab, Ends(t)
    PROVE  /\ todo' \in [Tab -> Seq(Step)] /\ req' \in [Tab -> Request] /\ Others(t)
           /\ todo'[t] = <<>> /\ req'[t] = NoRequest /\ Left(t)'
<1>1. NoRequest \in Request
  BY Zenon DEF NoRequest, Request
<1>2. /\ todo' \in [Tab -> Seq(Step)] /\ req' \in [Tab -> Request] /\ Others(t)
      /\ todo'[t] = <<>> /\ req'[t] = NoRequest
  BY <1>1 DEF ConsoleTypes, Ends, Others
<1>3. Left(t)'
  BY <1>2 DEF Left, NoRequest, Single
<1> QED
  BY <1>2, <1>3, Zenon

\* A handler that goes on has its first step behind it.
LEMMA GoesOf ==
    ASSUME ConsoleTypes, NEW t \in Tab, NEW db \in Db \cup {NULL}, Goes(t, db), todo[t] # <<>>, Len(todo[t]) # 1
    PROVE  /\ todo' \in [Tab -> Seq(Step)] /\ req' \in [Tab -> Request] /\ Others(t)
           /\ todo'[t] = Tail(todo[t])
           /\ req'[t].op = req[t].op /\ req'[t].s = req[t].s /\ req'[t].db = req[t].db
           /\ req'[t].mod = req[t].mod /\ req'[t].id = req[t].id
           /\ req'[t].first = IF req[t].first = NULL THEN db ELSE req[t].first
<1> DEFINE r == [req[t] EXCEPT !.first = IF req[t].first = NULL THEN db ELSE req[t].first]
<1>1. todo' = [todo EXCEPT ![t] = Tail(@)] /\ req' = [req EXCEPT ![t] = r]
  BY Zenon DEF Goes
<1>2. todo[t] \in Seq(Step) /\ todo[t] # <<>> /\ Tail(todo[t]) \in Seq(Step)
  BY DEF ConsoleTypes
<1>3. todo' \in [Tab -> Seq(Step)] /\ todo'[t] = Tail(todo[t])
  BY <1>1, <1>2, Zenon DEF ConsoleTypes
<1>5. req[t] \in Request
  BY Zenon DEF ConsoleTypes
<1>6. /\ r \in Request
      /\ r.op = req[t].op /\ r.s = req[t].s /\ r.db = req[t].db
      /\ r.mod = req[t].mod /\ r.id = req[t].id
      /\ r.first = IF req[t].first = NULL THEN db ELSE req[t].first
  BY <1>5, Zenon DEF Request
<1> HIDE DEF r
<1>7. req' \in [Tab -> Request] /\ req'[t] = r /\ Others(t)
  BY <1>1, <1>6, Zenon DEF ConsoleTypes, Others
<1> QED
  BY <1>3, <1>6, <1>7, Zenon

\* A handler with more than one step left goes on to another.
LEMMA TailOf ==
    ASSUME NEW S, NEW h \in Seq(S), h # <<>>, Len(h) # 1 PROVE Tail(h) \in Seq(S) /\ Tail(h) # <<>>
<1>1. Len(h) \in Nat \ {0} /\ Tail(h) \in Seq(S)
  OBVIOUS
<1>2. Len(Tail(h)) = Len(h) - 1
  OBVIOUS
<1>3. Len(Tail(h)) # 0
  BY <1>1, <1>2
<1>4. Len(<<>>) = 0
  BY Zenon
<1> QED
  BY <1>1, <1>3, <1>4, Zenon

\* The other handlers are where they were.
LEMMA LeftAll ==
    ASSUME ConsoleInv, NEW t \in Tab, Others(t), Left(t)' PROVE \A u \in Tab : Left(u)'
BY DEF ConsoleInv, Others, Left

\* The requests and the tables stay as they are.
LEMMA Unmoved ==
    ASSUME ConsoleInv, UNCHANGED <<tables, dirty, excused, req, todo>>
    PROVE  (\A t \in Tab : Left(t)') /\ Announced'
<1>1. ASSUME NEW t \in Tab PROVE Left(t)'
  <2>1. req'[t] = req[t] /\ todo'[t] = todo[t] /\ Left(t)
    BY Zenon DEF ConsoleInv
  <2> QED
    BY <2>1 DEF Left
<1>2. \A t, d, m : Announces(t, d, m)' <=> Announces(t, d, m)
  BY Zenon DEF Announces
<1>3. Announced' <=> Announced
  BY <1>2, Zenon DEF Announced
<1> QED
  BY <1>1, <1>3, Zenon DEF ConsoleInv

\* Nothing is to be announced that was not.
LEMMA AnnouncedSame ==
    ASSUME ConsoleInv, NEW t \in Tab, Others(t), req[t].first = NULL,
           \A d \in Db : /\ dirty'[d] \ excused'[d] \subseteq dirty[d] \ excused[d]
                         /\ tables'[d].RouteChange = tables[d].RouteChange
    PROVE  Announced'
<1> SUFFICES ASSUME NEW d \in Db, NEW m \in dirty'[d] \ excused'[d]
             PROVE  \E u \in Tab : Announces(u, d, m)'
  BY Zenon DEF Announced
<1>1. PICK u \in Tab : Announces(u, d, m)
  BY Zenon DEF ConsoleInv, Announced
<1>2. u # t
  BY <1>1, ConsoleAssumption, Zenon DEF Announces
<1> QED
  BY <1>1, <1>2, Zenon DEF Announces, Others

\* A database that is open makes every handler that needs one safe.
LEMMA OpenedBy ==
    ASSUME GlobalDB' # NULL PROVE OpenedFirst'
BY Zenon DEF OpenedFirst, AdmittedHasDatabase

\* A tab without a request needs no database.
LEMMA OpenedSame ==
    ASSUME ConsoleInv, NEW t \in Tab, Others(t), session' = session, GlobalDB' = GlobalDB,
           todo'[t] = <<>>, req'[t] = NoRequest
    PROVE  OpenedFirst'
BY DEF ConsoleInv, OpenedFirst, AdmittedHasDatabase, Others, NoRequest

\* A statement of a request that passed the filter finds a database.
LEMMA HasDatabase ==
    ASSUME ConsoleInv, NEW t \in Tab, todo[t] # <<>>, req[t].op \notin {"login", "logout"}
    PROVE  GlobalDB \in Db
BY Zenon DEF ConsoleInv, ConsoleTypes, OpenedFirst, AdmittedHasDatabase

\* A statement changes one table of one database.
LEMMA NewTable ==
    ASSUME TableTypes, NEW d \in Db, NEW new \in TableRows, tables' = [tables EXCEPT ![d] = new]
    PROVE  /\ tables' \in [Db -> TableRows] /\ tables'[d] = new
           /\ \A e \in Db \ {d} : tables'[e] = tables[e]
BY Zenon DEF TableTypes

\* A change is recorded for one database, as dirty or as excused.
LEMMA ChangedTypes ==
    ASSUME TableTypes, NEW d \in Db, NEW mods \in SUBSET (Modid \cup {NULL})
    PROVE  /\ Changed(d, mods) => /\ dirty' \in [Db -> SUBSET (Modid \cup {NULL})]
                                  /\ dirty'[d] = dirty[d] \cup mods
                                  /\ \A e \in Db \ {d} : dirty'[e] = dirty[e]
           /\ Excuse(d, mods) => /\ excused' \in [Db -> SUBSET (Modid \cup {NULL})]
                                 /\ excused'[d] = excused[d] \cup mods
                                 /\ \A e \in Db \ {d} : excused'[e] = excused[e]
BY Zenon DEF TableTypes, Changed, Excuse

-----------------------------------------------------------------------------

\* AddRoute: the new row is a change the same request goes on to announce.
LEMMA AddRoute_Inv ==
    ASSUME ConsoleInv, NEW t \in Tab, AddRoute(t) PROVE ConsoleInv'
<1> DEFINE d == GlobalDB
           m == req[t].mod
           i == tables[d].next
           rows == tables[d].RouteData
<1>1. At(t, "AddRoute") /\ UNCHANGED <<session, GlobalDB, requests, excused>>
  BY Zenon DEF AddRoute, Statement
<1>2. req[t].op = "add" /\ todo[t] = HandleAddRoute
  BY <1>1, WhichStage, Zenon DEF ConsoleInv, Stage
<1>3. req[t].first = NULL /\ todo[t] # <<>> /\ Len(todo[t]) # 1
      /\ Tail(todo[t]) = <<"InsertRouteChange", "UpdateVersion">>
  BY <1>2 DEF ConsoleInv, Left, HandleAddRoute
<1>4. d \in Db /\ GlobalDB' # NULL /\ GlobalDB' = GlobalDB
  BY <1>1, <1>2, <1>3, HasDatabase, ConsoleAssumption, Zenon
<1>5. req[t] \in Request /\ m \in Modid \cup {NULL}
  BY Zenon DEF ConsoleInv, ConsoleTypes, Request
<1>6. OpenedFirst'
  BY <1>4, OpenedBy, Zenon
<1>7. CASE Ends(t) /\ UNCHANGED <<tables, dirty>>
  <2>1. ConsoleTypes' /\ Others(t) /\ Left(t)'
    BY <1>1, <1>7, EndsOf, Zenon DEF ConsoleInv, ConsoleTypes, TableTypes
  <2>2. Announced'
    BY <1>1, <1>3, <1>7, <2>1, AnnouncedSame, Zenon
  <2> QED
    BY <1>6, <2>1, <2>2, LeftAll, Zenon DEF ConsoleInv
<1>8. CASE /\ i \in Id
           /\ tables' = [tables EXCEPT ![d] = [@ EXCEPT !.RouteData = [rows EXCEPT ![i] = m], !.next = i + 1]]
           /\ Changed(d, {m}) /\ Goes(t, GlobalDB)
  <2>1. /\ todo' \in [Tab -> Seq(Step)] /\ req' \in [Tab -> Request] /\ Others(t)
        /\ todo'[t] = <<"InsertRouteChange", "UpdateVersion">>
        /\ req'[t].op = "add" /\ req'[t].mod = m /\ req'[t].first = d
    BY <1>2, <1>3, <1>4, <1>8, GoesOf, Zenon DEF ConsoleInv
  <2>2. TableTypes' /\ \A e \in Db : tables'[e].RouteChange = tables[e].RouteChange
    <3> DEFINE new == [tables[d] EXCEPT !.RouteData = [rows EXCEPT ![i] = m], !.next = i + 1]
    <3>1. tables[d] \in TableRows /\ i + 1 \in Nat /\ rows \in [Id -> Modid \cup {NULL}]
      BY <1>4 DEF ConsoleInv, ConsoleTypes, TableTypes, TableRows
    <3>2. [rows EXCEPT ![i] = m] \in [Id -> Modid \cup {NULL}]
      BY <1>5, <3>1, Zenon
    <3>3. new \in TableRows /\ new.RouteChange = tables[d].RouteChange
      BY <3>1, <3>2, Zenon DEF TableRows
    <3> HIDE DEF new
    <3>4. tables' = [tables EXCEPT ![d] = new]
      BY <1>8, Zenon DEF new
    <3> QED
      BY <1>1, <1>4, <1>5, <1>8, <3>3, <3>4, NewTable, ChangedTypes DEF ConsoleInv, ConsoleTypes, TableTypes
  <2>3. ConsoleTypes'
    BY <1>1, <2>1, <2>2, Zenon DEF ConsoleInv, ConsoleTypes
  <2>4. Left(t)'
    BY <2>1, <1>4, ConsoleAssumption DEF Left, Single
  <2>5. Announced'
    <3> SUFFICES ASSUME NEW e \in Db, NEW n \in dirty'[e] \ excused'[e]
                 PROVE  \E u \in Tab : Announces(u, e, n)'
      BY Zenon DEF Announced
    <3>1. CASE e = d /\ n = m
      <4>1. Announces(t, e, n)'
        BY <2>1, <3>1, <1>4 DEF Announces
      <4> QED
        BY <4>1, Zenon
    <3>2. CASE ~(e = d /\ n = m)
      <4>1. n \in dirty[e] \ excused[e]
        BY <1>1, <1>4, <1>8, <3>2, Zenon DEF Changed, ConsoleInv, ConsoleTypes, TableTypes
      <4>2. PICK u \in Tab : Announces(u, e, n)
        BY <4>1, Zenon DEF ConsoleInv, Announced
      <4>3. u # t
        BY <1>3, <4>2, ConsoleAssumption, Zenon DEF Announces
      <4> QED
        BY <2>1, <2>2, <4>2, <4>3, Zenon DEF Announces, Others
    <3> QED
      BY <3>1, <3>2, Zenon
  <2> QED
    BY <1>6, <2>1, <2>3, <2>4, <2>5, LeftAll, Zenon DEF ConsoleInv
<1> QED
  BY <1>7, <1>8, <1>1, Zenon DEF AddRoute

\* UpdateRoute: the module the row is moved to is announced by the same
\* request; the one it is moved away from is excused.
LEMMA UpdateRoute_Inv ==
    ASSUME ConsoleInv, NEW t \in Tab, UpdateRoute(t) PROVE ConsoleInv'
<1> DEFINE d == GlobalDB
           m == req[t].mod
           i == req[t].id
           rows == tables[d].RouteData
           old == rows[i]
<1>1. At(t, "UpdateRoute") /\ UNCHANGED <<session, GlobalDB, requests>> /\ Goes(t, GlobalDB)
  BY Zenon DEF UpdateRoute, Statement
<1>2. req[t].op = "update" /\ todo[t] = HandleUpdate
  BY <1>1, WhichStage, Zenon DEF ConsoleInv, Stage
<1>3. req[t].first = NULL /\ todo[t] # <<>> /\ Len(todo[t]) # 1 /\ i \in Id
      /\ Tail(todo[t]) = <<"InsertRouteChange", "UpdateVersion">>
  BY <1>2 DEF ConsoleInv, Left, HandleUpdate
<1>4. d \in Db /\ GlobalDB' # NULL /\ GlobalDB' = GlobalDB
  BY <1>1, <1>2, <1>3, HasDatabase, ConsoleAssumption, Zenon
<1>5. /\ m \in Modid \cup {NULL} /\ tables[d] \in TableRows
      /\ rows \in [Id -> Modid \cup {NULL}] /\ old \in Modid \cup {NULL} /\ TableTypes
  BY <1>3, <1>4 DEF ConsoleInv, ConsoleTypes, Request, TableTypes, TableRows
<1>6. OpenedFirst'
  BY <1>4, OpenedBy, Zenon
<1>7. /\ todo' \in [Tab -> Seq(Step)] /\ req' \in [Tab -> Request] /\ Others(t)
      /\ todo'[t] = <<"InsertRouteChange", "UpdateVersion">>
      /\ req'[t].op = "update" /\ req'[t].mod = m /\ req'[t].first = d /\ req'[t].id = i
  BY <1>1, <1>2, <1>3, <1>4, GoesOf, Zenon DEF ConsoleInv
<1>8. Left(t)'
  BY <1>3, <1>7, <1>4, ConsoleAssumption DEF Left, Single
<1>9. /\ TableTypes' /\ \A e \in Db : tables'[e].RouteChange = tables[e].RouteChange
      /\ \A e \in Db : \A n \in dirty'[e] \ excused'[e] : (e = d /\ n = m) \/ n \in dirty[e] \ excused[e]
  <2>1. CASE UNCHANGED database
    BY <1>5, <2>1, Zenon DEF database, TableTypes
  <2>2. CASE /\ tables' = [tables EXCEPT ![d] = [@ EXCEPT !.RouteData = [rows EXCEPT ![i] = m]]]
             /\ Changed(d, {old, m}) /\ Excuse(d, {old} \ {m})
    <3> DEFINE new == [tables[d] EXCEPT !.RouteData = [rows EXCEPT ![i] = m]]
    <3>1. [rows EXCEPT ![i] = m] \in [Id -> Modid \cup {NULL}]
      BY <1>5, Zenon
    <3>2. new \in TableRows /\ new.RouteChange = tables[d].RouteChange
      BY <1>5, <3>1, Zenon DEF TableRows
    <3> HIDE DEF new
    <3>3. tables' = [tables EXCEPT ![d] = new]
      BY <2>2, Zenon DEF new
    <3>4. tables' \in [Db -> TableRows] /\ \A e \in Db : tables'[e].RouteChange = tables[e].RouteChange
      BY <1>4, <1>5, <3>2, <3>3, NewTable, Zenon
    <3>5. /\ dirty' \in [Db -> SUBSET (Modid \cup {NULL})] /\ excused' \in [Db -> SUBSET (Modid \cup {NULL})]
          /\ dirty'[d] = dirty[d] \cup {old, m} /\ excused'[d] = excused[d] \cup ({old} \ {m})
          /\ \A e \in Db \ {d} : dirty'[e] = dirty[e] /\ excused'[e] = excused[e]
      BY <1>4, <1>5, <2>2, ChangedTypes
    <3> QED
      BY <3>4, <3>5, Zenon DEF TableTypes
  <2> QED
    BY <2>1, <2>2, Zenon DEF UpdateRoute
<1>10. ConsoleTypes'
  BY <1>1, <1>7, <1>9, Zenon DEF ConsoleInv, ConsoleTypes
<1>11. Announced'
  <2> SUFFICES ASSUME NEW e \in Db, NEW n \in dirty'[e] \ excused'[e]
               PROVE  \E u \in Tab : Announces(u, e, n)'
    BY Zenon DEF Announced
  <2>1. CASE e = d /\ n = m
    <3>1. Announces(t, e, n)'
      BY <1>7, <2>1, <1>4 DEF Announces
    <3> QED
      BY <3>1, Zenon
  <2>2. CASE ~(e = d /\ n = m)
    <3>1. n \in dirty[e] \ excused[e]
      BY <1>9, <2>2, Zenon
    <3>2. PICK u \in Tab : Announces(u, e, n)
      BY <3>1, Zenon DEF ConsoleInv, Announced
    <3>3. u # t
      BY <1>3, <3>2, ConsoleAssumption, Zenon DEF Announces
    <3> QED
      BY <1>7, <1>9, <3>2, <3>3, Zenon DEF Announces, Others
  <2> QED
    BY <2>1, <2>2, Zenon
<1> QED
  BY <1>6, <1>7, <1>8, <1>10, <1>11, LeftAll, Zenon DEF ConsoleInv

\* A handler of one statement leaves a database open and announces nothing.
LEMMA SingleEnds ==
    ASSUME ConsoleInv, NEW t \in Tab, req[t].op \in Single, todo[t] # <<>>, Len(todo[t]) = 1,
           Goes(t, GlobalDB), UNCHANGED <<session, GlobalDB>>, TableTypes',
           \A d \in Db : /\ dirty'[d] \ excused'[d] \subseteq dirty[d] \ excused[d]
                         /\ tables'[d].RouteChange = tables[d].RouteChange
    PROVE  ConsoleInv'
<1>1. Ends(t) /\ req[t].first = NULL
  BY Zenon DEF Goes, ConsoleInv, Left, Single
<1>2. GlobalDB' # NULL /\ GlobalDB' = GlobalDB
  BY HasDatabase, ConsoleAssumption, Zenon DEF Single
<1>3. ConsoleTypes' /\ Others(t) /\ Left(t)'
  BY <1>1, EndsOf, Zenon DEF ConsoleInv, ConsoleTypes
<1>4. Announced'
  BY <1>1, <1>3, AnnouncedSame, Zenon
<1> QED
  BY <1>2, <1>3, <1>4, OpenedBy, LeftAll, Zenon DEF ConsoleInv

\* DeleteRoute: the module of a row that is gone is excused.
LEMMA DeleteRoute_Inv ==
    ASSUME ConsoleInv, NEW t \in Tab, DeleteRoute(t) PROVE ConsoleInv'
<1> DEFINE d == GlobalDB
           i == req[t].id
           rows == tables[d].RouteData
           m == rows[i]
<1>1. At(t, "DeleteRoute") /\ UNCHANGED <<session, GlobalDB, requests>> /\ Goes(t, GlobalDB)
  BY Zenon DEF DeleteRoute, Statement
<1>2. req[t].op = "delete" /\ Len(todo[t]) = 1 /\ todo[t] # <<>>
  BY <1>1, WhichStage, Zenon DEF ConsoleInv, Stage, At
<1>3. d \in Db /\ i \in Id
  BY <1>1, <1>2, HasDatabase, Zenon DEF ConsoleInv, Left
<1>4. /\ tables[d] \in TableRows /\ TableTypes
      /\ rows \in [Id -> Modid \cup {NULL}] /\ m \in Modid \cup {NULL}
  BY <1>3 DEF ConsoleInv, ConsoleTypes, TableTypes, TableRows
<1>5. /\ TableTypes'
      /\ \A e \in Db : /\ dirty'[e] \ excused'[e] \subseteq dirty[e] \ excused[e]
                       /\ tables'[e].RouteChange = tables[e].RouteChange
  <2>1. CASE UNCHANGED database
    BY <1>4, <2>1, Zenon DEF database, TableTypes
  <2>2. CASE /\ tables' = [tables EXCEPT ![d] = [@ EXCEPT !.RouteData = [rows EXCEPT ![i] = NULL]]]
             /\ Changed(d, {m}) /\ Excuse(d, {m})
    <3> DEFINE new == [tables[d] EXCEPT !.RouteData = [rows EXCEPT ![i] = NULL]]
    <3>1. [rows EXCEPT ![i] = NULL] \in [Id -> Modid \cup {NULL}]
      BY <1>4, Zenon
    <3>2. new \in TableRows /\ new.RouteChange = tables[d].RouteChange
      BY <1>4, <3>1, Zenon DEF TableRows
    <3> HIDE DEF new
    <3>3. tables' = [tables EXCEPT ![d] = new]
      BY <2>2, Zenon DEF new
    <3>4. tables' \in [Db -> TableRows] /\ \A e \in Db : tables'[e].RouteChange = tables[e].RouteChange
      BY <1>3, <1>4, <3>2, <3>3, NewTable, Zenon
    <3>5. /\ dirty' \in [Db -> SUBSET (Modid \cup {NULL})] /\ excused' \in [Db -> SUBSET (Modid \cup {NULL})]
          /\ dirty'[d] = dirty[d] \cup {m} /\ excused'[d] = excused[d] \cup {m}
          /\ \A e \in Db \ {d} : dirty'[e] = dirty[e] /\ excused'[e] = excused[e]
      BY <1>3, <1>4, <2>2, ChangedTypes
    <3> QED
      BY <3>4, <3>5, Zenon DEF TableTypes
  <2> QED
    BY <2>1, <2>2, Zenon DEF DeleteRoute
<1> QED
  BY <1>1, <1>2, <1>5, SingleEnds, Zenon DEF Single

\* AddModid and DeleteMod change the number of rows of a table that no route
\* depends on; EditMod and the pages change nothing.
LEMMA Others_Inv ==
    ASSUME ConsoleInv, NEW t \in Tab, AddModid(t) \/ delete_mod(t) \/ edit_mod(t) \/ find(t) PROVE ConsoleInv'
<1> DEFINE d == GlobalDB
           n == tables[d].ModIDConfig
<1>1. /\ At(t, "AddModid") \/ At(t, "DeleteMod") \/ At(t, "EditMod") \/ At(t, "Find")
      /\ UNCHANGED <<session, GlobalDB, requests, dirty, excused>> /\ Goes(t, GlobalDB)
  BY Zenon DEF AddModid, delete_mod, edit_mod, find, Statement, database
<1>2. req[t].op \in Single /\ Len(todo[t]) = 1 /\ todo[t] # <<>>
  BY <1>1, WhichStage, Zenon DEF ConsoleInv, Stage, At
<1>3. d \in Db
  BY <1>2, HasDatabase, Zenon DEF Single
<1>4. tables[d] \in TableRows /\ n \in Nat /\ TableTypes
  BY <1>3, Zenon DEF ConsoleInv, ConsoleTypes, TableTypes, TableRows
<1>5. TableTypes' /\ \A e \in Db : tables'[e].RouteChange = tables[e].RouteChange
  <2>1. CASE UNCHANGED tables
    BY <1>1, <1>4, <2>1, Zenon DEF TableTypes
  <2>2. ASSUME NEW k \in Nat, tables' = [tables EXCEPT ![d] = [@ EXCEPT !.ModIDConfig = k]]
        PROVE  TableTypes' /\ \A e \in Db : tables'[e].RouteChange = tables[e].RouteChange
    <3> DEFINE new == [tables[d] EXCEPT !.ModIDConfig = k]
    <3>1. new \in TableRows /\ new.RouteChange = tables[d].RouteChange
      BY <1>4, Zenon DEF TableRows
    <3> HIDE DEF new
    <3>2. tables' = [tables EXCEPT ![d] = new]
      BY <2>2, Zenon DEF new
    <3>3. tables' \in [Db -> TableRows] /\ \A e \in Db : tables'[e].RouteChange = tables[e].RouteChange
      BY <1>3, <1>4, <3>1, <3>2, NewTable, Zenon
    <3> QED
      BY <1>1, <1>4, <3>3, Zenon DEF TableTypes
  <2>3. \/ UNCHANGED tables
        \/ \E k \in Nat : tables' = [tables EXCEPT ![d] = [@ EXCEPT !.ModIDConfig = k]]
    <3>1. CASE AddModid(t)
      <4>1. n + 1 \in Nat
        BY <1>4
      <4> QED
        BY <3>1, <4>1, Zenon DEF AddModid
    <3>2. CASE delete_mod(t)
      <4>1. n > 0 => n - 1 \in Nat
        BY <1>4
      <4> QED
        BY <3>2, <4>1, Zenon DEF delete_mod
    <3>3. CASE edit_mod(t) \/ find(t)
      BY <3>3, Zenon DEF edit_mod, find, database
    <3> QED
      BY <3>1, <3>2, <3>3, Zenon
  <2> QED
    BY <2>1, <2>2, <2>3, Zenon
<1>6. \A e \in Db : dirty'[e] \ excused'[e] \subseteq dirty[e] \ excused[e]
  BY <1>1, Zenon
<1> QED
  BY <1>1, <1>2, <1>5, <1>6, SingleEnds, Zenon

\* InsertRouteChange: the request has its change in RouteChange by now, unless
\* it failed or went to another database, and then the change is excused.
LEMMA InsertRouteChange_Inv ==
    ASSUME ConsoleInv, NEW t \in Tab, InsertRouteChange(t) PROVE ConsoleInv'
<1> DEFINE d == GlobalDB
           m == req[t].mod
           f == req[t].first
           rows == tables[d].RouteChange
<1>1. At(t, "InsertRouteChange") /\ UNCHANGED <<session, GlobalDB, requests, dirty>> /\ Goes(t, GlobalDB)
  BY Zenon DEF InsertRouteChange, Statement
<1>2. /\ req[t].op \in {"add", "update"} /\ f \in Db
      /\ todo[t] = <<"InsertRouteChange", "UpdateVersion">>
  BY <1>1, WhichStage, Zenon DEF ConsoleInv, Stage
<1>3. todo[t] # <<>> /\ Len(todo[t]) # 1 /\ Tail(todo[t]) = <<"UpdateVersion">> /\ f # NULL
  BY <1>2, ConsoleAssumption
<1>4. d \in Db /\ GlobalDB' # NULL /\ GlobalDB' = GlobalDB
  BY <1>1, <1>2, <1>3, HasDatabase, ConsoleAssumption, Zenon
<1>5. m \in Modid \cup {NULL} /\ tables[d] \in TableRows /\ rows \in SUBSET (Modid \cup {NULL}) /\ TableTypes
  BY <1>4, Zenon DEF ConsoleInv, ConsoleTypes, Request, TableTypes, TableRows
<1>6. /\ todo' \in [Tab -> Seq(Step)] /\ req' \in [Tab -> Request] /\ Others(t)
      /\ todo'[t] = <<"UpdateVersion">>
      /\ req'[t].op = req[t].op /\ req'[t].mod = m /\ req'[t].first = f /\ req'[t].id = req[t].id
  BY <1>1, <1>3, <1>4, GoesOf, Zenon DEF ConsoleInv
<1>7. Left(t)'
  <2>1. req[t].op = "update" => req[t].id \in Id
    BY Zenon DEF ConsoleInv, Left
  <2> QED
    BY <1>2, <1>3, <1>6, <2>1 DEF Left, Single
<1>8. /\ TableTypes' /\ \A e \in Db : tables[e].RouteChange \subseteq tables'[e].RouteChange
      /\ \A e \in Db : excused[e] \subseteq excused'[e]
      /\ m \in excused'[f] \/ m \in tables'[f].RouteChange
  <2>1. CASE UNCHANGED tables /\ Excuse(f, {m})
    BY <1>1, <1>2, <1>5, <2>1, ChangedTypes DEF TableTypes
  <2>2. CASE /\ tables' = [tables EXCEPT ![d] = [@ EXCEPT !.RouteChange = rows \cup {m}]]
             /\ IF f = d THEN UNCHANGED excused ELSE Excuse(f, {m})
    <3> DEFINE new == [tables[d] EXCEPT !.RouteChange = rows \cup {m}]
    <3>1. new \in TableRows /\ new.RouteChange = rows \cup {m}
      BY <1>5, Zenon DEF TableRows
    <3> HIDE DEF new
    <3>2. tables' = [tables EXCEPT ![d] = new]
      BY <2>2, Zenon DEF new
    <3>3. /\ tables' \in [Db -> TableRows] /\ tables'[d].RouteChange = rows \cup {m}
          /\ \A e \in Db : tables[e].RouteChange \subseteq tables'[e].RouteChange
      BY <1>4, <1>5, <3>1, <3>2, NewTable, Zenon
    <3>4. /\ excused' \in [Db -> SUBSET (Modid \cup {NULL})] /\ \A e \in Db : excused[e] \subseteq excused'[e]
          /\ f = d \/ m \in excused'[f]
      BY <1>2, <1>5, <2>2, ChangedTypes DEF TableTypes
    <3> QED
      BY <1>1, <1>5, <3>3, <3>4, Zenon DEF TableTypes
  <2> QED
    BY <2>1, <2>2, Zenon DEF InsertRouteChange
<1>9. ConsoleTypes'
  BY <1>1, <1>6, <1>8, Zenon DEF ConsoleInv, ConsoleTypes
<1>10. Announced'
  <2> SUFFICES ASSUME NEW e \in Db, NEW n \in dirty'[e] \ excused'[e]
               PROVE  \E u \in Tab : Announces(u, e, n)'
    BY Zenon DEF Announced
  <2>1. n \in dirty[e] \ excused[e]
    BY <1>1, <1>8, Zenon
  <2>2. PICK u \in Tab : Announces(u, e, n)
    BY <2>1, Zenon DEF ConsoleInv, Announced
  <2>3. CASE u = t
    <3>1. e = f /\ n = m
      BY <2>2, <2>3, Zenon DEF Announces
    <3>2. Announces(t, e, n)'
      BY <1>6, <1>8, <3>1 DEF Announces
    <3> QED
      BY <3>2, Zenon
  <2>4. CASE u # t
    <3>1. req'[u] = req[u] /\ todo'[u] = todo[u]
      BY <1>6, <2>4, Zenon DEF Others
    <3>2. tables[e].RouteChange \subseteq tables'[e].RouteChange
      BY <1>8, Zenon
    <3> QED
      BY <2>2, <3>1, <3>2, Zenon DEF Announces
  <2> QED
    BY <2>3, <2>4, Zenon
<1> QED
  BY <1>4, <1>6, <1>7, <1>9, <1>10, OpenedBy, LeftAll, Zenon DEF ConsoleInv

\* UpdateVersion: the rows of RouteChange are announced.  What is still to be
\* announced is that of a request which has not written its row yet.
LEMMA UpdateVersion_Inv ==
    ASSUME ConsoleInv, NEW t \in Tab, UpdateVersion(t) PROVE ConsoleInv'
<1> DEFINE d == GlobalDB
           m == req[t].mod
           f == req[t].first
           rows == tables[d].RouteChange
           e0 == [excused EXCEPT ![d] = @ \ rows]
           M == Modid \cup {NULL}
<1>1. At(t, "UpdateVersion") /\ UNCHANGED <<session, GlobalDB, requests>> /\ Goes(t, GlobalDB)
  BY Zenon DEF UpdateVersion, Statement
<1>2. req[t].op \in {"add", "update"} /\ f \in Db /\ todo[t] = <<"UpdateVersion">>
  BY <1>1, WhichStage, Zenon DEF ConsoleInv, Stage
<1>3. todo[t] # <<>> /\ Ends(t)
  BY <1>1, <1>2 DEF Goes
<1>4. d \in Db /\ GlobalDB' # NULL /\ GlobalDB' = GlobalDB
  BY <1>1, <1>2, <1>3, HasDatabase, ConsoleAssumption, Zenon
<1>5. m \in M /\ tables[d] \in TableRows /\ rows \in SUBSET M /\ TableTypes
  BY <1>4, Zenon DEF ConsoleInv, ConsoleTypes, Request, TableTypes, TableRows
<1>6. todo' \in [Tab -> Seq(Step)] /\ req' \in [Tab -> Request] /\ Others(t) /\ Left(t)'
  BY <1>3, EndsOf, Zenon DEF ConsoleInv
<1>7. CASE Excuse(f, {m}) /\ UNCHANGED <<tables, dirty>>
  <2>1. /\ TableTypes' /\ m \in excused'[f]
        /\ \A e \in Db : excused[e] \subseteq excused'[e]
    BY <1>2, <1>5, <1>7, ChangedTypes DEF TableTypes
  <2>2. ConsoleTypes'
    BY <1>1, <1>6, <2>1, Zenon DEF ConsoleInv, ConsoleTypes
  <2>3. Announced'
    <3> SUFFICES ASSUME NEW e \in Db, NEW n \in dirty'[e] \ excused'[e]
                 PROVE  \E u \in Tab : Announces(u, e, n)'
      BY Zenon DEF Announced
    <3>1. PICK u \in Tab : Announces(u, e, n)
      BY <1>7, <2>1, Zenon DEF ConsoleInv, Announced
    <3>2. u # t
      BY <2>1, <3>1, Zenon DEF Announces
    <3> QED
      BY <1>6, <1>7, <3>1, <3>2, Zenon DEF Announces, Others
  <2> QED
    BY <1>4, <1>6, <2>2, <2>3, OpenedBy, LeftAll, Zenon DEF ConsoleInv
<1>8. CASE /\ tables' = [tables EXCEPT ![d] = [@ EXCEPT !.RouteChange = {}]]
           /\ dirty' = [dirty EXCEPT ![d] = @ \ rows]
           /\ excused' = IF f = d THEN e0 ELSE [e0 EXCEPT ![f] = @ \cup {m}]
  <2> DEFINE new == [tables[d] EXCEPT !.RouteChange = {}]
  <2>1. new \in TableRows
    BY <1>5, Zenon DEF TableRows
  <2> HIDE DEF new
  <2>2. tables' = [tables EXCEPT ![d] = new]
    BY <1>8, Zenon DEF new
  <2>3. tables' \in [Db -> TableRows] /\ \A e \in Db \ {d} : tables'[e] = tables[e]
    BY <1>4, <1>5, <2>1, <2>2, NewTable, Zenon
  <2>4. dirty' \in [Db -> SUBSET M] /\ dirty'[d] = dirty[d] \ rows /\ \A e \in Db \ {d} : dirty'[e] = dirty[e]
    BY <1>4, <1>5, <1>8, Zenon DEF TableTypes
  <2>5. e0 \in [Db -> SUBSET M] /\ e0[d] = excused[d] \ rows /\ \A e \in Db \ {d} : e0[e] = excused[e]
    BY <1>4, <1>5, Zenon DEF TableTypes
  <2> HIDE DEF e0
  <2>6. /\ excused' \in [Db -> SUBSET M] /\ \A e \in Db : e0[e] \subseteq excused'[e]
        /\ f # d => m \in excused'[f]
    BY <1>2, <1>4, <1>5, <1>8, <2>5, Zenon
  <2>7. ConsoleTypes'
    BY <1>1, <1>6, <2>3, <2>4, <2>6, Zenon DEF ConsoleInv, ConsoleTypes, TableTypes
  <2>8. Announced'
    <3> SUFFICES ASSUME NEW e \in Db, NEW n \in dirty'[e] \ excused'[e]
                 PROVE  \E u \in Tab : Announces(u, e, n)'
      BY Zenon DEF Announced
    <3>1. n \in dirty[e] \ excused[e] /\ (e = d => n \notin rows)
      BY <2>4, <2>5, <2>6, Zenon
    <3>2. PICK u \in Tab : Announces(u, e, n)
      BY <3>1, Zenon DEF ConsoleInv, Announced
    <3>3. u # t
      BY <1>2, <2>6, <3>1, <3>2 DEF Announces
    <3>4. todo[u][1] = "InsertRouteChange" \/ e # d
      BY <3>1, <3>2, Zenon DEF Announces
    <3> QED
      BY <1>6, <2>3, <3>2, <3>3, <3>4, Zenon DEF Announces, Others
  <2> QED
    BY <1>4, <1>6, <2>7, <2>8, OpenedBy, LeftAll, Zenon DEF ConsoleInv
<1> QED
  BY <1>7, <1>8, Zenon DEF UpdateVersion

-----------------------------------------------------------------------------

\* InitModel: a database is open, or the handler is over.
LEMMA InitModel_Inv ==
    ASSUME ConsoleInv, NEW t \in Tab, InitModel(t) PROVE ConsoleInv'
<1>1. UNCHANGED <<session, tables, dirty, excused>> /\ todo[t] # <<>>
  BY Zenon DEF InitModel, database, At
<1>2. req[t].op = "login" /\ req[t].first = NULL /\ req[t].db \in Db
      /\ req[t].s \in Session /\ todo[t] \in Seq(LoginStep)
  BY WhichStage, Zenon DEF ConsoleInv, Stage, InitModel, Left
<1>3. GlobalDB' \in Db \cup {NULL}
  BY <1>2, Zenon DEF InitModel, ConsoleInv, ConsoleTypes
<1>4. TableTypes' /\ \A d \in Db : /\ dirty'[d] \ excused'[d] \subseteq dirty[d] \ excused[d]
                                   /\ tables'[d].RouteChange = tables[d].RouteChange
  BY <1>1, Zenon DEF ConsoleInv, ConsoleTypes, TableTypes
<1>5. CASE Ends(t)
  <2>1. ConsoleTypes' /\ Others(t) /\ Left(t)' /\ todo'[t] = <<>> /\ req'[t] = NoRequest
    BY <1>1, <1>3, <1>4, <1>5, EndsOf, Zenon DEF ConsoleInv, ConsoleTypes
  <2>2. OpenedFirst'
    <3>1. CASE GlobalDB' = GlobalDB
      BY <1>1, <2>1, <3>1, OpenedSame, Zenon
    <3>2. CASE GlobalDB' = req[t].db
      BY <1>2, <3>2, OpenedBy, ConsoleAssumption, Zenon
    <3> QED
      BY <3>1, <3>2, Zenon DEF InitModel
  <2>3. Announced'
    BY <1>2, <1>4, <2>1, AnnouncedSame, Zenon
  <2> QED
    BY <2>1, <2>2, <2>3, LeftAll, Zenon DEF ConsoleInv
<1>6. CASE GlobalDB' = req[t].db /\ Goes(t, NULL) /\ Len(todo[t]) # 1
  <2>1. /\ todo' \in [Tab -> Seq(Step)] /\ req' \in [Tab -> Request] /\ Others(t)
        /\ todo'[t] = Tail(todo[t]) /\ req'[t].op = "login" /\ req'[t].s = req[t].s
        /\ req'[t].db = req[t].db /\ req'[t].first = NULL
    BY <1>1, <1>2, <1>6, GoesOf, Zenon DEF ConsoleInv
  <2>2. Tail(todo[t]) \in Seq(LoginStep) /\ Tail(todo[t]) # <<>>
    BY <1>1, <1>2, <1>6, TailOf, Zenon
  <2>3. Left(t)'
    BY <1>2, <2>1, <2>2, Zenon DEF Left, Single
  <2>4. OpenedFirst' /\ ConsoleTypes'
    BY <1>1, <1>2, <1>3, <1>4, <1>6, <2>1, OpenedBy, ConsoleAssumption, Zenon DEF ConsoleInv, ConsoleTypes
  <2>5. Announced'
    BY <1>2, <1>4, <2>1, AnnouncedSame, Zenon
  <2> QED
    BY <2>1, <2>3, <2>4, <2>5, LeftAll, Zenon DEF ConsoleInv
<1> QED
  BY <1>5, <1>6, Zenon DEF InitModel, Goes

\* SetSession and DelSession: a login that stores values is past gorm.Open.
LEMMA Session_Inv ==
    ASSUME ConsoleInv, NEW t \in Tab, SetSession(t) \/ DelSession(t) PROVE ConsoleInv'
<1> DEFINE s == req[t].s
<1>1. UNCHANGED <<GlobalDB, tables, dirty, excused>> /\ todo[t] # <<>> /\ Goes(t, NULL)
  BY Zenon DEF SetSession, DelSession, database, At
<1>2. \/ /\ req[t].op = "login" /\ At(t, "SetSession") /\ req[t].db \in Db /\ todo[t] \in Seq(LoginStep)
         /\ SetSession(t)
      \/ /\ req[t].op = "logout" /\ At(t, "DelSession") /\ todo[t] \in Seq({"DelSession"}) /\ DelSession(t)
  BY WhichStage, Zenon DEF ConsoleInv, Stage, SetSession, DelSession, Left
<1>3. req[t].first = NULL /\ s \in Session
  BY <1>2, Zenon DEF ConsoleInv, Left
<1>4. TableTypes' /\ \A d \in Db : /\ dirty'[d] \ excused'[d] \subseteq dirty[d] \ excused[d]
                                   /\ tables'[d].RouteChange = tables[d].RouteChange
  BY <1>1, Zenon DEF ConsoleInv, ConsoleTypes, TableTypes
<1>5. req[t].op = "login" => GlobalDB # NULL
  BY <1>1, <1>2 DEF At, ConsoleInv, OpenedFirst
<1>6. /\ session' \in [Session -> [Key -> Db \cup {NULL}]]
      /\ \A x \in Session, k \in Key : session'[x][k] # NULL => GlobalDB' # NULL
  <2>1. PICK k0 : \E v \in Db \cup {NULL} :
            /\ session' = [session EXCEPT ![s] = [@ EXCEPT ![k0] = v]]
            /\ v # NULL => GlobalDB # NULL
    <3>1. CASE req[t].op = "login" /\ SetSession(t) /\ req[t].db \in Db
      BY <1>5, <3>1, Zenon DEF SetSession
    <3>2. CASE DelSession(t)
      BY <3>2, Zenon DEF DelSession
    <3> QED
      BY <1>2, <3>1, <3>2, Zenon
  <2>0. PICK v \in Db \cup {NULL} :
            /\ session' = [session EXCEPT ![s] = [@ EXCEPT ![k0] = v]]
            /\ v # NULL => GlobalDB # NULL
    BY <2>1, Zenon
  <2>2. session \in [Session -> [Key -> Db \cup {NULL}]] /\ session[s] \in [Key -> Db \cup {NULL}]
    BY <1>3, Zenon DEF ConsoleInv, ConsoleTypes
  <2> DEFINE new == [session[s] EXCEPT ![k0] = v]
  <2>3. new \in [Key -> Db \cup {NULL}] /\ \A k \in Key : new[k] = v \/ new[k] = session[s][k]
    BY <2>2, Zenon
  <2>4. session' = [session EXCEPT ![s] = new]
    BY <2>0, Zenon
  <2> HIDE DEF new
  <2>5. /\ session' \in [Session -> [Key -> Db \cup {NULL}]] /\ session'[s] = new
        /\ \A x \in Session \ {s} : session'[x] = session[x]
    BY <1>3, <2>2, <2>3, <2>4, Zenon
  <2>6. ASSUME NEW x \in Session, NEW k \in Key, session'[x][k] # NULL PROVE GlobalDB' # NULL
    <3>1. session[x][k] # NULL \/ v # NULL
      BY <2>3, <2>5, <2>6, Zenon
    <3> QED
      BY <1>1, <2>0, <3>1, Zenon DEF ConsoleInv, OpenedFirst
  <2> QED
    BY <2>5, <2>6, Zenon
<1>7. Others(t) /\ Left(t)' /\ ConsoleTypes' /\ req'[t].op \in {"none", "login", "logout"}
      /\ (req'[t].op = "login" => req[t].op = "login")
  <2>1. CASE Len(todo[t]) = 1
    <3>1. Ends(t)
      BY <1>1, <2>1, Zenon DEF Goes
    <3>2. req'[t].op = "none"
      BY <3>1, EndsOf DEF NoRequest, ConsoleInv
    <3> QED
      BY <1>1, <1>4, <1>6, <3>1, <3>2, EndsOf, Zenon DEF ConsoleInv, ConsoleTypes
  <2>2. CASE Len(todo[t]) # 1
    <3>1. /\ todo' \in [Tab -> Seq(Step)] /\ req' \in [Tab -> Request] /\ Others(t)
          /\ todo'[t] = Tail(todo[t]) /\ req'[t].op = req[t].op /\ req'[t].s = req[t].s
          /\ req'[t].db = req[t].db /\ req'[t].first = NULL
      BY <1>1, <1>3, <2>2, GoesOf, Zenon DEF ConsoleInv
    <3>2. /\ req[t].op = "login" => Tail(todo[t]) \in Seq(LoginStep) /\ Tail(todo[t]) # <<>>
          /\ req[t].op = "logout" => Tail(todo[t]) \in Seq({"DelSession"}) /\ Tail(todo[t]) # <<>>
      BY <1>1, <1>2, <2>2, TailOf, Zenon
    <3>3. Left(t)'
      BY <1>2, <1>3, <3>1, <3>2, Zenon DEF Left, Single
    <3> QED
      BY <1>1, <1>2, <1>4, <1>6, <3>1, <3>3, Zenon DEF ConsoleInv, ConsoleTypes
  <2> QED
    BY <2>1, <2>2, Zenon
<1>8. OpenedFirst'
  <2>1. ASSUME NEW u \in Tab, req'[u].op = "login" /\ todo'[u][1] # "InitModel" PROVE GlobalDB' # NULL
    BY <1>1, <1>5, <1>7, <2>1, Zenon DEF Others, ConsoleInv, OpenedFirst
  <2>2. ASSUME NEW u \in Tab, todo'[u] # <<>>, req'[u].op \notin {"login", "logout"} PROVE GlobalDB' # NULL
    <3>1. CASE u = t
      BY <1>7, <2>2, <3>1, Zenon DEF Left
    <3>2. CASE u # t
      BY <1>1, <1>7, <2>2, <3>2, Zenon DEF Others, ConsoleInv, OpenedFirst, AdmittedHasDatabase
    <3> QED
      BY <3>1, <3>2, Zenon
  <2> QED
    BY <1>6, <2>1, <2>2, Zenon DEF OpenedFirst, AdmittedHasDatabase
<1>9. Announced'
  BY <1>3, <1>4, <1>7, AnnouncedSame, Zenon
<1> QED
  BY <1>7, <1>8, <1>9, LeftAll, Zenon DEF ConsoleInv

\* What a handler starts with.
LEMMA HandlerOf ==
    ASSUME NEW op \in {"login", "logout", "add", "update"} \cup Single
    PROVE  /\ Handler(op) \in Seq(Step) /\ Handler(op) # <<>>
           /\ op = "login" => Handler(op) \in Seq(LoginStep) /\ Handler(op)[1] = "InitModel"
           /\ op = "logout" => Handler(op) \in Seq({"DelSession"})
           /\ op = "add" => Handler(op) = HandleAddRoute
           /\ op = "update" => Handler(op) = HandleUpdate
<1> DEFINE set == Times(SessionKeys, "SetSession")
           del == Times(SessionKeys, "DelSession")
<1>1. set \in Seq(LoginStep) /\ del \in Seq({"DelSession"}) /\ Len(del) = SessionKeys
  BY ConsoleAssumption DEF Times, LoginStep
<1> HIDE DEF set, del
<1>2. CASE op = "login"
  <2> DEFINE h == <<"InitModel">> \o set \o <<"InitModelAgain">>
  <2>1. Handler(op) = h
    BY <1>2, Zenon DEF Handler, HandleLogin, set
  <2>2. <<"InitModel">> \in Seq(LoginStep) /\ <<"InitModelAgain">> \in Seq(LoginStep)
    BY DEF LoginStep
  <2>3. h \in Seq(LoginStep) /\ h # <<>> /\ h[1] = "InitModel"
    BY <1>1, <2>2
  <2> HIDE DEF h
  <2> QED
    BY <1>2, <2>1, <2>3 DEF Step
<1>3. CASE op = "logout"
  <2>1. Handler(op) = del
    BY <1>3, Zenon DEF Handler, Logout, del
  <2>2. del # <<>>
    BY <1>1, ConsoleAssumption, Zenon
  <2> QED
    BY <1>1, <1>3, <2>1, <2>2 DEF Step
<1>4. CASE op \in {"add", "update"}
  <2>1. \/ op = "add" /\ Handler(op) = HandleAddRoute
        \/ op = "update" /\ Handler(op) = HandleUpdate
    BY <1>4, Zenon DEF Handler
  <2>2. /\ HandleAddRoute \in Seq(Step) /\ HandleAddRoute # <<>>
        /\ HandleUpdate \in Seq(Step) /\ HandleUpdate # <<>>
    BY DEF HandleAddRoute, HandleUpdate, Step
  <2> QED
    BY <2>1, <2>2, Zenon
<1>5. CASE op \in Single
  <2>1. Handler(op) \in {HandlerDelete, Show, HandleAddMod, DeleteMod, EditMod}
    BY <1>5, Zenon DEF Handler, Single
  <2>2. /\ \A step \in Step : <<step>> \in Seq(Step) /\ <<step>> # <<>>
        /\ {"DeleteRoute", "Find", "AddModid", "DeleteMod", "EditMod"} \subseteq Step
    BY DEF Step
  <2>3. \A h \in {HandlerDelete, Show, HandleAddMod, DeleteMod, EditMod} : h \in Seq(Step) /\ h # <<>>
    BY <2>2, Zenon DEF HandlerDelete, Show, HandleAddMod, DeleteMod, EditMod
  <2> QED
    BY <1>5, <2>1, <2>3, Zenon DEF Single
<1> QED
  BY <1>2, <1>3, <1>4, <1>5, Zenon

\* A new request: the tab had none, and a request that is admitted comes from
\* a session that has values.
LEMMA Browse_Inv ==
    ASSUME ConsoleInv, NEW t \in Tab, Browse(t) PROVE ConsoleInv'
<1>1. PICK s \in Session, r \in Request :
          /\ Start(t, r) /\ r.s = s /\ r.first = NULL
          /\ \/ r.op = "logout"
             \/ r.op = "login" /\ r.db \in Db
             \/ r.op \in {"add", "update"} \cup Single /\ HandlerFunc(s)
          /\ r.op \in {"update", "delete"} => r.id \in Id
  <2>1. PICK s \in Session :
            \/ logout(t, s)
            \/ \E d \in Db : login(t, s, d)
            \/ \E m \in Modid : request(t, s, "add", m, 0)
            \/ \E m \in Modid, i \in Id : request(t, s, "update", m, i)
            \/ \E i \in Id : request(t, s, "delete", NULL, i)
            \/ \E op \in {"show", "addMod", "deleteMod", "editMod"} : request(t, s, op, NULL, 0)
    BY Zenon DEF Browse
  <2> DEFINE P(r) == /\ Start(t, r) /\ r.s = s /\ r.first = NULL
                     /\ \/ r.op = "logout"
                        \/ r.op = "login" /\ r.db \in Db
                        \/ r.op \in {"add", "update"} \cup Single /\ HandlerFunc(s)
                     /\ r.op \in {"update", "delete"} => r.id \in Id
  <2> SUFFICES \E r \in Request : P(r)
    BY Zenon
  <2>2. CASE logout(t, s)
    <3> DEFINE r == [NoRequest EXCEPT !.s = s, !.op = "logout"]
    <3>1. r \in Request /\ r.s = s /\ r.first = NULL /\ r.op = "logout"
      BY Zenon DEF Request, NoRequest
    <3>2. Start(t, r)
      BY <2>2, Zenon DEF logout
    <3> HIDE DEF r
    <3> QED
      BY <3>1, <3>2, Zenon
  <2>3. ASSUME NEW d \in Db, login(t, s, d) PROVE \E r \in Request : P(r)
    <3> DEFINE r == [NoRequest EXCEPT !.s = s, !.op = "login", !.db = d]
    <3>1. r \in Request /\ r.s = s /\ r.first = NULL /\ r.op = "login" /\ r.db = d
      BY Zenon DEF Request, NoRequest
    <3>2. Start(t, r)
      BY <2>3, Zenon DEF login
    <3> HIDE DEF r
    <3> QED
      BY <3>1, <3>2, Zenon
  <2>4. ASSUME NEW op \in {"add", "update"} \cup Single, NEW m \in Modid \cup {NULL}, NEW i \in Nat,
               request(t, s, op, m, i), op \in {"update", "delete"} => i \in Id
        PROVE  \E r \in Request : P(r)
    <3> DEFINE r == [NoRequest EXCEPT !.s = s, !.op = op, !.mod = m, !.id = i]
    <3>1. r \in Request /\ r.s = s /\ r.first = NULL /\ r.op = op /\ r.id = i
      BY Zenon DEF Request, NoRequest
    <3>2. Start(t, r) /\ HandlerFunc(s)
      BY <2>4, Zenon DEF request
    <3> HIDE DEF r
    <3> QED
      BY <2>4, <3>1, <3>2, Zenon
  <2> QED
    BY <2>1, <2>2, <2>3, <2>4 DEF Single, Id
<1>2. /\ todo[t] = <<>> /\ UNCHANGED <<session, GlobalDB, tables, dirty, excused>>
      /\ req' = [req EXCEPT ![t] = r] /\ todo' = [todo EXCEPT ![t] = Handler(r.op)]
  BY <1>1, Zenon DEF Start, database
<1>3. req[t].op = "none" /\ req[t].first = NULL
  BY <1>2, Zenon DEF ConsoleInv, Left
<1>4. /\ Handler(r.op) \in Seq(Step) /\ Handler(r.op) # <<>>
      /\ r.op = "login" => Handler(r.op) \in Seq(LoginStep) /\ Handler(r.op)[1] = "InitModel"
      /\ r.op = "logout" => Handler(r.op) \in Seq({"DelSession"})
      /\ r.op = "add" => Handler(r.op) = HandleAddRoute
      /\ r.op = "update" => Handler(r.op) = HandleUpdate
  BY <1>1, HandlerOf, Zenon
<1>5. ConsoleTypes' /\ Others(t) /\ req'[t] = r /\ todo'[t] = Handler(r.op)
  BY <1>1, <1>2, <1>4, Zenon DEF ConsoleInv, ConsoleTypes, TableTypes, Others
<1>6. Left(t)'
  BY <1>1, <1>4, <1>5, Zenon DEF Left, Single
<1>7. OpenedFirst'
  <2>1. CASE r.op \in {"login", "logout"}
    BY <1>2, <1>4, <1>5, <2>1, Zenon DEF ConsoleInv, OpenedFirst, AdmittedHasDatabase, Others
  <2>2. CASE HandlerFunc(r.s)
    <3>1. 1 \in Key /\ session[r.s][1] # NULL
      BY <2>2, ConsoleAssumption DEF HandlerFunc, Key
    <3> QED
      BY <1>1, <1>2, <3>1, OpenedBy, Zenon DEF ConsoleInv, OpenedFirst
  <2> QED
    BY <1>1, <2>1, <2>2, Zenon
<1>8. Announced'
  BY <1>2, <1>3, <1>5, AnnouncedSame, Zenon
<1> QED
  BY <1>5, <1>6, <1>7, <1>8, LeftAll, Zenon DEF ConsoleInv

\* A session that is forgotten has no values.
LEMMA Expire_Inv ==
    ASSUME ConsoleInv, NEW s \in Session, Expire(s) PROVE ConsoleInv'
<1> DEFINE none == [k \in Key |-> NULL]
<1>1. /\ UNCHANGED <<GlobalDB, tables, dirty, excused, req, todo>>
      /\ session' = [session EXCEPT ![s] = none]
  BY Zenon DEF Expire, database
<1>2. none \in [Key -> Db \cup {NULL}] /\ \A k \in Key : none[k] = NULL
  BY Zenon
<1> HIDE DEF none
<1>3. /\ session' \in [Session -> [Key -> Db \cup {NULL}]] /\ session'[s] = none
      /\ \A x \in Session \ {s} : session'[x] = session[x]
  BY <1>1, <1>2, Zenon DEF ConsoleInv, ConsoleTypes
<1>4. ConsoleTypes' /\ (\A t \in Tab : Left(t)') /\ Announced'
  <2>1. ConsoleTypes'
    BY <1>1, <1>3, Zenon DEF ConsoleInv, ConsoleTypes, TableTypes
  <2> QED
    BY <1>1, <2>1, Unmoved, Zenon
<1>5. \A x \in Session, k \in Key : session'[x][k] # NULL => GlobalDB' # NULL
  <2> SUFFICES ASSUME NEW x \in Session, NEW k \in Key, session'[x][k] # NULL PROVE GlobalDB # NULL
    BY <1>1, Zenon
  <2>1. session[x][k] # NULL
    BY <1>2, <1>3, Zenon
  <2> QED
    BY <2>1, Zenon DEF ConsoleInv, OpenedFirst
<1>6. OpenedFirst'
  BY <1>1, <1>5, Zenon DEF ConsoleInv, OpenedFirst, AdmittedHasDatabase
<1> QED
  BY <1>4, <1>6, Zenon DEF ConsoleInv

\* A restart: no tab has a request, no session a value, and the changes of the
\* requests that are gone are excused.
LEMMA Restart_Inv ==
    ASSUME ConsoleInv, Restart PROVE ConsoleInv'
<1> DEFINE M == Modid \cup {NULL}
           gone(d) == {req[t].mod : t \in {u \in Tab : req[u].first = d}}
<1>1. /\ session' = [s \in Session |-> [k \in Key |-> NULL]] /\ GlobalDB' = NULL
      /\ todo' = [t \in Tab |-> <<>>] /\ req' = [t \in Tab |-> NoRequest]
      /\ excused' = [d \in Db |-> excused[d] \cup gone(d)] /\ UNCHANGED <<tables, dirty>>
  BY Zenon DEF Restart
<1>2. NoRequest \in Request /\ NoRequest.op = "none" /\ NoRequest.first = NULL
  BY Zenon DEF NoRequest, Request
<1>3. \A d \in Db : gone(d) \in SUBSET M
  BY Zenon DEF ConsoleInv, ConsoleTypes, Request
<1>4. excused' \in [Db -> SUBSET M]
  BY <1>1, <1>3, Zenon DEF ConsoleInv, ConsoleTypes, TableTypes
<1>5. session' \in [Session -> [Key -> Db \cup {NULL}]] /\ \A s \in Session, k \in Key : session'[s][k] = NULL
  BY <1>1, Zenon
<1>6. /\ todo' \in [Tab -> Seq(Step)] /\ req' \in [Tab -> Request]
      /\ \A t \in Tab : todo'[t] = <<>> /\ req'[t].op = "none" /\ req'[t].first = NULL
  BY <1>1, <1>2
<1>7. ConsoleTypes'
  BY <1>1, <1>4, <1>5, <1>6, Zenon DEF ConsoleInv, ConsoleTypes, TableTypes
<1>8. \A t \in Tab : Left(t)'
  BY <1>6, Zenon DEF Left, Single
<1>9. OpenedFirst'
  BY <1>5, <1>6, Zenon DEF OpenedFirst, AdmittedHasDatabase
<1>10. Announced'
  <2> SUFFICES ASSUME NEW d \in Db, NEW m \in dirty[d] \ excused'[d] PROVE FALSE
    BY <1>1, Zenon DEF Announced
  <2>1. excused'[d] = excused[d] \cup gone(d)
    BY <1>1, Zenon
  <2>2. PICK u \in Tab : Announces(u, d, m)
    BY <2>1, Zenon DEF ConsoleInv, Announced
  <2>3. m \in gone(d)
    BY <2>2, Zenon DEF Announces
  <2> QED
    BY <2>1, <2>3, Zenon
<1> QED
  BY <1>7, <1>8, <1>9, <1>10, Zenon DEF ConsoleInv

\* A console that has just started has no session, no request and no change.
LEMMA ConsoleInitInv ==
    ConsoleInit => ConsoleInv
<1> SUFFICES ASSUME ConsoleInit PROVE ConsoleInv
  BY Zenon
<1>1. NoRequest \in Request /\ NoRequest.op = "none" /\ NoRequest.first = NULL
  BY Zenon DEF NoRequest, Request
<1>2. \A row \in BOOLEAN : EmptyTables(row) \in TableRows
  BY Zenon DEF EmptyTables, TableRows
<1>3. tables \in [Db -> TableRows]
  BY <1>2, Zenon DEF ConsoleInit
<1>4. session \in [Session -> [Key -> Db \cup {NULL}]] /\ \A s \in Session, k \in Key : session[s][k] = NULL
  BY Zenon DEF ConsoleInit
<1>5. /\ todo \in [Tab -> Seq(Step)] /\ req \in [Tab -> Request]
      /\ \A t \in Tab : todo[t] = <<>> /\ req[t].op = "none" /\ req[t].first = NULL
  BY <1>1 DEF ConsoleInit
<1>6. ConsoleTypes
  BY <1>3, <1>4, <1>5, Zenon DEF ConsoleInit, ConsoleTypes, TableTypes
<1>7. \A t \in Tab : Left(t)
  BY <1>5, Zenon DEF Left, Single
<1>8. OpenedFirst
  BY <1>4, <1>5, Zenon DEF OpenedFirst, AdmittedHasDatabase
<1>9. Announced
  BY Zenon DEF ConsoleInit, Announced
<1> QED
  BY <1>6, <1>7, <1>8, <1>9, Zenon DEF ConsoleInv

\* Every step of every handler, a restart and an expired session keep ConsoleInv.
LEMMA ConsoleNextInv ==
    ConsoleInv /\ [ConsoleNext]_consoleVars => ConsoleInv'
<1> SUFFICES ASSUME ConsoleInv, [ConsoleNext]_consoleVars PROVE ConsoleInv'
  BY Zenon
<1>1. CASE Restart
  BY <1>1, Restart_Inv, Zenon
<1>2. CASE \E s \in Session : Expire(s)
  BY <1>2, Expire_Inv, Zenon
<1>3. ASSUME NEW t \in Tab, Browse(t) \/ InitModel(t) \/ SetSession(t) \/ DelSession(t) PROVE ConsoleInv'
  BY <1>3, Browse_Inv, InitModel_Inv, Session_Inv, Zenon
<1>4. ASSUME NEW t \in Tab, \/ AddRoute(t) \/ UpdateRoute(t) \/ DeleteRoute(t)
                            \/ InsertRouteChange(t) \/ UpdateVersion(t)
      PROVE  ConsoleInv'
  BY <1>4, AddRoute_Inv, UpdateRoute_Inv, DeleteRoute_Inv, InsertRouteChange_Inv, UpdateVersion_Inv, Zenon
<1>5. ASSUME NEW t \in Tab, AddModid(t) \/ delete_mod(t) \/ edit_mod(t) \/ find(t) PROVE ConsoleInv'
  BY <1>5, Others_Inv, Zenon
<1>6. CASE UNCHANGED consoleVars
  <2>1. UNCHANGED <<session, GlobalDB, tables, dirty, excused, req, todo>>
    BY <1>6, Zenon DEF consoleVars, database
  <2>2. ConsoleTypes'
    BY <2>1, Zenon DEF ConsoleInv, ConsoleTypes, TableTypes
  <2>3. (\A t \in Tab : Left(t)') /\ Announced'
    BY <2>1, Unmoved, Zenon
  <2>4. OpenedFirst'
    BY <2>1, Zenon DEF ConsoleInv, OpenedFirst, AdmittedHasDatabase
  <2> QED
    BY <2>2, <2>3, <2>4, Zenon DEF ConsoleInv
<1> QED
  BY <1>1, <1>2, <1>3, <1>4, <1>5, <1>6, Zenon DEF ConsoleNext

-----------------------------------------------------------------------------

\* No handler dereferences a nil GlobalDB, however many people log in and out
\* and whenever the console restarts (router.go:51-63, default.go:36-47).
THEOREM DatabaseIsOpen ==
    ConsoleSpec => []AdmittedHasDatabase
<1>1. ConsoleInv => AdmittedHasDatabase
  BY Zenon DEF ConsoleInv, OpenedFirst
<1> QED
  BY ConsoleInitInv, ConsoleNextInv, <1>1, PTL DEF ConsoleSpec

\* When no handler is running, every module whose routes were changed in a
\* database has been announced by its version or is one of the exceptions
\* (default.go:114-221, modelFunc.go:47-88).
THEOREM NoChangeForgotten ==
    ConsoleSpec => []ChangesAnnounced
<1>1. ConsoleInv => ChangesAnnounced
  <2> SUFFICES ASSUME ConsoleInv, \A t \in Tab : todo[t] = <<>>, NEW d \in Db, NEW m \in dirty[d] \ excused[d]
               PROVE  FALSE
    BY Zenon DEF ChangesAnnounced
  <2>1. PICK t \in Tab : Announces(t, d, m)
    BY Zenon DEF ConsoleInv, Announced
  <2>2. req[t].first # NULL
    BY <2>1, ConsoleAssumption, Zenon DEF Announces
  <2>3. req[t].op \in {"add", "update"} /\ (todo[t] # <<>> <=> req[t].op # "none")
    BY <2>2, Zenon DEF ConsoleInv, Left
  <2> QED
    BY <2>3, Zenon
<1> QED
  BY ConsoleInitInv, ConsoleNextInv, <1>1, PTL DEF ConsoleSpec

-----------------------------------------------------------------------------
(* Agent                                                                   *)

-----------------------------------------------------------------------------
(* What is known of sequences                                              *)

\* The positions of a sequence.
LEMMA SeqLen ==
    ASSUME NEW S, NEW s \in Seq(S)
    PROVE  Len(s) \in Nat /\ DOMAIN s = 1 .. Len(s) /\ s \in [1 .. Len(s) -> S]
OBVIOUS

\* The elements of a sequence.
LEMMA SeqAt == ASSUME NEW S, NEW s \in Seq(S), NEW k \in 1 .. Len(s) PROVE s[k] \in S
OBVIOUS

\* The empty sequence, the only one of length 0.
LEMMA SeqNone ==
    ASSUME NEW S
    PROVE  <<>> \in Seq(S) /\ Len(<<>>) = 0 /\ \A s \in Seq(S) : s # <<>> => Len(s) \in Nat \ {0}
OBVIOUS

\* A sequence with one more element at its end.
LEMMA SeqAppend ==
    ASSUME NEW S, NEW s \in Seq(S), NEW e \in S
    PROVE  /\ Append(s, e) \in Seq(S) /\ Append(s, e) # <<>> /\ Len(Append(s, e)) = Len(s) + 1
           /\ \A k \in 1 .. Len(s) : Append(s, e)[k] = s[k]
           /\ Append(s, e)[Len(s) + 1] = e
OBVIOUS

\* Two sequences, one after the other.
LEMMA SeqConcat ==
    ASSUME NEW S, NEW s \in Seq(S), NEW t \in Seq(S)
    PROVE  /\ s \o t \in Seq(S) /\ Len(s \o t) = Len(s) + Len(t)
           /\ \A k \in 1 .. Len(s) + Len(t) : (s \o t)[k] = IF k <= Len(s) THEN s[k] ELSE t[k - Len(s)]
OBVIOUS

\* A sequence without its first element.
LEMMA SeqTail ==
    ASSUME NEW S, NEW s \in Seq(S), s # <<>>
    PROVE  /\ Head(s) \in S /\ Tail(s) \in Seq(S) /\ Len(Tail(s)) = Len(s) - 1
           /\ \A k \in 1 .. Len(Tail(s)) : Tail(s)[k] = s[k + 1]
OBVIOUS

\* A part of a sequence.
LEMMA SeqPart ==
    ASSUME NEW S, NEW s, NEW m \in Int, NEW n \in Int, \A k \in m .. n : s[k] \in S
    PROVE  /\ SubSeq(s, m, n) \in Seq(S) /\ Len(SubSeq(s, m, n)) = IF m <= n THEN n - m + 1 ELSE 0
           /\ \A k \in 1 .. n - m + 1 : SubSeq(s, m, n)[k] = s[m + k - 1]
OBVIOUS

\* The part that is all of a sequence.
LEMMA SeqWhole == ASSUME NEW S, NEW s \in Seq(S) PROVE SubSeq(s, 1, Len(s)) = s
OBVIOUS

\* Two parts of a sequence that are next to each other.
LEMMA SeqSplit ==
    ASSUME NEW S, NEW s \in Seq(S), NEW m \in 1 .. Len(s) + 1, NEW k \in m - 1 .. Len(s), NEW n \in k .. Len(s)
    PROVE  SubSeq(s, m, k) \o SubSeq(s, k + 1, n) = SubSeq(s, m, n)
OBVIOUS

Balance == [status : {"absent", "PULLING", "NEW"}, hosts : BOOLEAN]
Response == [mod : Mod, hosts : BOOLEAN]

Types ==
    /\ queue \in Seq(Mod) /\ obuf \in Seq(Mod) /\ outbox \in Seq(Mod)
    /\ inbox \in Seq(Response) /\ lb \in [Mod -> Balance]
    /\ asked \in SUBSET Mod /\ main \in 0 .. Len(StartOrder)

\* Hosts come through a client, and both clients start after report_queue is
\* made.
HostsAfterQueue == (\E m \in Mod : lb[m].hosts) => Done("report_queue")

Inv == Types /\ PullOnItsWay /\ HostsAfterQueue /\ OnlyDnsQueueTooEarly

-----------------------------------------------------------------------------
(* The elements of sequences                                               *)

\* Range of the sequences that send_message, do_write and do_read make.
LEMMA RangeOfConcat ==
    ASSUME NEW S, NEW s \in Seq(S), NEW t \in Seq(S)
    PROVE  s \o t \in Seq(S) /\ Range(s \o t) = Range(s) \cup Range(t)
<1>1. /\ Len(s) \in Nat /\ Len(t) \in Nat /\ DOMAIN s = 1 .. Len(s) /\ DOMAIN t = 1 .. Len(t)
      /\ s \o t \in Seq(S) /\ DOMAIN (s \o t) = 1 .. Len(s) + Len(t)
      /\ \A i \in 1 .. Len(s) + Len(t) : (s \o t)[i] = IF i <= Len(s) THEN s[i] ELSE t[i - Len(s)]
  BY SeqConcat, SeqLen
<1>2. ASSUME NEW i \in 1 .. Len(s) PROVE s[i] \in Range(s \o t)
  <2>1. i \in 1 .. Len(s) + Len(t) /\ i <= Len(s)
    BY <1>1
  <2> QED
    BY <1>1, <2>1, Zenon DEF Range
<1>3. ASSUME NEW i \in 1 .. Len(t) PROVE t[i] \in Range(s \o t)
  <2>1. Len(s) + i \in 1 .. Len(s) + Len(t) /\ ~(Len(s) + i <= Len(s)) /\ (Len(s) + i) - Len(s) = i
    BY <1>1
  <2> QED
    BY <1>1, <2>1, Zenon DEF Range
<1>4. ASSUME NEW i \in 1 .. Len(s) + Len(t) PROVE (s \o t)[i] \in Range(s) \cup Range(t)
  <2>1. i <= Len(s) => i \in 1 .. Len(s)
    BY <1>1
  <2>2. ~(i <= Len(s)) => i - Len(s) \in 1 .. Len(t)
    BY <1>1
  <2> QED
    BY <1>1, <2>1, <2>2, Zenon DEF Range
<1> QED
  BY <1>1, <1>2, <1>3, <1>4, Zenon DEF Range

\* A message more.
LEMMA RangeOfAppend ==
    ASSUME NEW S, NEW s \in Seq(S), NEW e \in S
    PROVE  /\ Append(s, e) \in Seq(S) /\ e \in Range(Append(s, e))
           /\ \A x \in Range(s) : x \in Range(Append(s, e))
<1>1. /\ Len(s) \in Nat /\ DOMAIN s = 1 .. Len(s) /\ Append(s, e) \in Seq(S)
      /\ DOMAIN Append(s, e) = 1 .. Len(s) + 1 /\ Append(s, e)[Len(s) + 1] = e
      /\ \A i \in 1 .. Len(s) : Append(s, e)[i] = s[i]
  BY SeqAppend, SeqLen
<1>2. Len(s) + 1 \in 1 .. Len(s) + 1 /\ \A i \in 1 .. Len(s) : i \in 1 .. Len(s) + 1
  BY <1>1
<1>3. \A i \in 1 .. Len(s) + 1 : i = Len(s) + 1 \/ i \in 1 .. Len(s)
  BY <1>1
<1> QED
  BY <1>1, <1>2, <1>3, Zenon DEF Range

\* The first message, and the others.
LEMMA RangeOfTail ==
    ASSUME NEW S, NEW s \in Seq(S), s # <<>>
    PROVE  Head(s) \in S /\ Tail(s) \in Seq(S) /\ Range(s) = {Head(s)} \cup Range(Tail(s))
<1>1. /\ Len(s) \in Nat \ {0} /\ DOMAIN s = 1 .. Len(s) /\ Head(s) \in S /\ Head(s) = s[1]
      /\ Tail(s) \in Seq(S) /\ DOMAIN Tail(s) = 1 .. Len(s) - 1
      /\ \A i \in 1 .. Len(s) - 1 : Tail(s)[i] = s[i + 1]
  BY SeqNone, SeqTail, SeqLen
<1>2. 1 \in 1 .. Len(s) /\ \A i \in 1 .. Len(s) - 1 : i + 1 \in 1 .. Len(s)
  BY <1>1
<1>3. \A i \in 1 .. Len(s) : i = 1 \/ (i - 1 \in 1 .. Len(s) - 1 /\ (i - 1) + 1 = i)
  BY <1>1
<1>4. ASSUME NEW i \in 1 .. Len(s) PROVE s[i] \in {Head(s)} \cup Range(Tail(s))
  <2>1. CASE i = 1
    BY <1>1, <2>1, Zenon
  <2>2. CASE i - 1 \in 1 .. Len(s) - 1 /\ (i - 1) + 1 = i
    <3>1. Tail(s)[i - 1] = s[i]
      BY <1>1, <2>2, Zenon
    <3> QED
      BY <1>1, <2>2, <3>1, Zenon DEF Range
  <2> QED
    BY <1>3, <2>1, <2>2, Zenon
<1>5. Range(s) \subseteq {Head(s)} \cup Range(Tail(s))
  BY <1>1, <1>4, ZenonT(60) DEF Range
<1>6. Range(Tail(s)) \subseteq Range(s) /\ Head(s) \in Range(s)
  BY <1>1, <1>2, Zenon DEF Range
<1> QED
  BY <1>1, <1>5, <1>6, Zenon

\* The first messages, and the others.
LEMMA RangeOfCut ==
    ASSUME NEW S, NEW s \in Seq(S), NEW n \in Nat, n <= Len(s)
    PROVE  LET front == SubSeq(s, 1, n)
               back == SubSeq(s, n + 1, Len(s))
           IN  /\ front \in Seq(S) /\ back \in Seq(S)
               /\ Range(s) = Range(front) \cup Range(back)
<1> DEFINE front == SubSeq(s, 1, n)
           back == SubSeq(s, n + 1, Len(s))
<1>1. Len(s) \in Nat /\ \A i \in 1 .. Len(s) : s[i] \in S
  BY SeqLen, SeqAt
<1>2. front \in Seq(S)
  <2>1. 1 \in Int /\ n \in Int /\ \A i \in 1 .. n : s[i] \in S
    BY <1>1
  <2> QED
    BY <2>1, SeqPart, Zenon
<1>3. back \in Seq(S)
  <2>1. n + 1 \in Int /\ Len(s) \in Int /\ \A i \in n + 1 .. Len(s) : s[i] \in S
    BY <1>1
  <2> QED
    BY <2>1, SeqPart, Zenon
<1>4. front \o back = s
  <2>1. 1 \in 1 .. Len(s) + 1 /\ n \in 1 - 1 .. Len(s) /\ Len(s) \in n .. Len(s)
    BY <1>1
  <2> QED
    BY <2>1, SeqSplit, SeqWhole, Zenon
<1> HIDE DEF front, back
<1> QED
  BY <1>2, <1>3, <1>4, RangeOfConcat, ZenonT(60) DEF front, back

-----------------------------------------------------------------------------
(* Shared arguments                                                        *)

\* Where a module's name is found on the way.
Somewhere(m) == \/ m \in Range(queue) \/ m \in Range(obuf) \/ m \in Range(outbox)
                \/ \E r \in Range(inbox) : r.mod = m

WayAsPlaces == \A m \in Mod : Somewhere(m) <=> OnItsWay(m)

\* OnItsWay counts the answers by their places.
LEMMA WayOf ==
    ASSUME Types PROVE WayAsPlaces
<1>1. DOMAIN inbox = 1 .. Len(inbox)
  BY SeqLen, Zenon DEF Types
<1> QED
  BY <1>1, Zenon DEF WayAsPlaces, OnItsWay, Somewhere, Range

\* main has made the report queue before it starts either client.
LEMMA StartsAfterQueue ==
    ASSUME main \in 0 .. Len(StartOrder)
    PROVE  /\ Done("report_queue") <=> main >= 3
           /\ Done("start_report_client") \/ Done("start_dns_client") => Done("report_queue")
<1>1. StartOrder = <<"init_lb_agent", "start_UDP_server", "report_queue",
                     "start_report_client", "dns_queue", "start_dns_client">>
  BY DEF StartOrder
<1>2. /\ \A i \in 1 .. 6 : StartOrder[i] = "report_queue" <=> i = 3
      /\ \A i \in 1 .. 6 : StartOrder[i] \in {"start_report_client", "start_dns_client"} => i > 3
      /\ Len(StartOrder) = 6
  BY <1>1
<1> QED
  BY <1>2 DEF Done

\* A step that loses nothing: what is broken stays broken, a module comes to
\* wait only with a request on its way, and what was on its way still is, or
\* has come.
LEMMA Kept ==
    ASSUME Inv, Types', UNCHANGED role, Broken => Broken',
           \A m \in Mod : role = "dns" /\ Waiting(m)' =>
                \/ OnItsWay(m)'
                \/ Broken'
                \/ (Waiting(m) /\ (OnItsWay(m) => OnItsWay(m)')),
           (\E m \in Mod : lb'[m].hosts) => (\E m \in Mod : lb[m].hosts) \/ Done("report_queue"),
           main' >= main, ub' # "report_queue"
    PROVE  Inv'
<1>1. PullOnItsWay'
  BY Zenon DEF Inv, PullOnItsWay
<1>2. Done("report_queue") => Done("report_queue")'
  <2>1. main \in 0 .. Len(StartOrder) /\ main' \in 0 .. Len(StartOrder)
    BY Zenon DEF Inv, Types, StartOrder
  <2>2. Done("report_queue") => main >= 3
    BY <2>1, StartsAfterQueue, Zenon
  <2>3. main >= 3 => main' >= 3
    BY <2>1
  <2>4. (main \in 0 .. Len(StartOrder))'
    BY Zenon DEF Types
  <2>5. (Done("report_queue") <=> main >= 3)'
    BY <2>4, StartsAfterQueue, PTL
  <2> QED
    BY <2>2, <2>3, <2>5, Zenon
<1>3. HostsAfterQueue'
  BY <1>2, Zenon DEF Inv, HostsAfterQueue
<1> QED
  BY <1>1, <1>3, Zenon DEF Inv, OnlyDnsQueueTooEarly

\* A step that leaves the modules alone.
LEMMA SameModules ==
    ASSUME Inv, Types', UNCHANGED <<role, lb>>, main' >= main, ub' # "report_queue",
           Broken => Broken', \A m \in Mod : OnItsWay(m) => OnItsWay(m)' \/ Broken'
    PROVE  Inv'
<1>1. \A m \in Mod : Waiting(m)' => Waiting(m)
  BY Zenon DEF Waiting, Absent
<1>2. \A m \in Mod : role = "dns" /\ Waiting(m)' =>
                \/ OnItsWay(m)'
                \/ Broken'
                \/ (Waiting(m) /\ (OnItsWay(m) => OnItsWay(m)'))
  BY <1>1, Zenon
<1>3. (\E m \in Mod : lb'[m].hosts) => (\E m \in Mod : lb[m].hosts) \/ Done("report_queue")
  BY Zenon
<1> QED
  BY <1>2, <1>3, Kept, Zenon

-----------------------------------------------------------------------------
(* The steps                                                               *)

\* main goes on, and the connection is made or answered.
LEMMA Quiet_Inv ==
    ASSUME Inv, \/ init_lb_agent \/ main_step \/ connect \/ Thread(start)
                \/ Thread(connection_fail) \/ (Answer /\ UNCHANGED agent) \/ UNCHANGED vars
    PROVE  Inv'
<1>1. UNCHANGED <<inbox, outbox, obuf, role, lb, queue, asked>>
  <2>1. CASE init_lb_agent \/ main_step \/ UNCHANGED vars
    BY <2>1, Zenon DEF init_lb_agent, main_step, vars, client, agent, socket
  <2>2. CASE connect
    BY <2>2, Zenon DEF connect, do_connect_done, do_connect
  <2>3. CASE Thread(start) \/ Thread(connection_fail)
    BY <2>3, Zenon DEF Thread, start, connection_fail, agent, socket
  <2>4. CASE Answer /\ UNCHANGED agent
    BY <2>4, Zenon DEF Answer, agent
  <2> QED
    BY <2>1, <2>2, <2>3, <2>4, Zenon
<1>2. main' \in 0 .. Len(StartOrder) /\ main' >= main
  <2>1. main \in 0 .. 6 /\ Len(StartOrder) = 6
    BY DEF Inv, Types, StartOrder
  <2>2. CASE UNCHANGED main
    BY <2>1, <2>2
  <2>3. CASE init_lb_agent \/ main_step
    <3>1. (main = 0 /\ main' = 1) \/ (main \in 1 .. Len(StartOrder) - 1 /\ main' = main + 1)
      BY <2>3, Zenon DEF init_lb_agent, main_step
    <3> QED
      BY <2>1, <3>1
  <2> QED
    BY <2>2, <2>3, Zenon DEF connect, Thread, Answer, agent, vars
<1>3. Types'
  BY <1>1, <1>2, Zenon DEF Inv, Types
<1>4. ub' # "report_queue" /\ (Broken => Broken')
  <2>1. CASE init_lb_agent
    BY <2>1, Zenon DEF init_lb_agent, Broken, client, socket, Inv, OnlyDnsQueueTooEarly
  <2>2. CASE connect
    BY <2>2, Zenon DEF connect, Broken, Inv, OnlyDnsQueueTooEarly, do_connect, do_connect_done, ClientRuns, Runs
  <2>3. CASE Answer /\ UNCHANGED agent
    BY <2>3, Zenon DEF Answer, agent, Broken, Inv, OnlyDnsQueueTooEarly
  <2>4. CASE UNCHANGED <<ub, peer>>
    BY <2>4, Zenon DEF Broken, Inv, OnlyDnsQueueTooEarly
  <2>5. main_step \/ Thread(start) \/ Thread(connection_fail) \/ UNCHANGED vars => UNCHANGED <<ub, peer>>
    BY Zenon DEF main_step, Thread, start, connection_fail, agent, vars, client, socket
  <2> QED
    BY <2>1, <2>2, <2>3, <2>4, <2>5, Zenon
<1>5. \A m \in Mod : OnItsWay(m) => OnItsWay(m)'
  BY <1>1, Zenon DEF OnItsWay
<1> QED
  BY <1>1, <1>2, <1>3, <1>4, <1>5, SameModules, Zenon

\* The connection is lost.
LEMMA Lost_Inv ==
    ASSUME Inv, \/ Thread(do_write_error) \/ Thread(do_read_end) \/ (Reset /\ UNCHANGED agent)
    PROVE  Inv'
<1>1. /\ UNCHANGED <<obuf, role, lb, queue, asked, main, ub>> /\ peer' \in {"closed", "reset"}
      /\ inbox' \in {inbox, <<>>} /\ outbox' = <<>>
  BY Zenon DEF Thread, do_write_error, do_read_end, clean_conn, Reset, agent, event, past
<1>2. Types'
  BY <1>1, SeqNone, Zenon DEF Inv, Types
<1>3. Broken' /\ ub' # "report_queue"
  BY <1>1, Zenon DEF Broken, Inv, OnlyDnsQueueTooEarly
<1>4. main' >= main
  BY <1>1 DEF Inv, Types
<1> QED
  BY <1>1, <1>2, <1>3, <1>4, SameModules, Zenon

\* What is written goes from obuf to the socket.
LEMMA Write_Inv ==
    ASSUME Inv, Write PROVE Inv'
<1>1. PICK n \in 1 .. MaxMsgs : Thread(do_write(n))
  BY Zenon DEF Write
<1> DEFINE front == SubSeq(obuf, 1, n)
           back == SubSeq(obuf, n + 1, Len(obuf))
<1>2. /\ UNCHANGED <<inbox, role, lb, queue, asked, main, ub, peer>>
      /\ n <= Len(obuf) /\ obuf' = back /\ outbox' = outbox \o front
  BY <1>1, Zenon DEF Thread, do_write, agent
<1>3. obuf \in Seq(Mod) /\ outbox \in Seq(Mod) /\ n \in Nat
  <2>1. n \in Nat
    BY AgentAssumption
  <2> QED
    BY <2>1, Zenon DEF Inv, Types
<1>4. front \in Seq(Mod) /\ back \in Seq(Mod) /\ Range(obuf) = Range(front) \cup Range(back)
  BY <1>2, <1>3, RangeOfCut, Zenon
<1> HIDE DEF front, back
<1>5. outbox' \in Seq(Mod) /\ Range(outbox') = Range(outbox) \cup Range(front)
  <2>1. outbox \in Seq(Mod) /\ front \in Seq(Mod)
    BY <1>3, <1>4, Zenon
  <2>2. outbox \o front \in Seq(Mod) /\ Range(outbox \o front) = Range(outbox) \cup Range(front)
    BY <2>1, RangeOfConcat, ZenonT(60)
  <2> QED
    BY <1>2, <2>2, Zenon
<1>6. Types'
  BY <1>2, <1>4, <1>5, Zenon DEF Inv, Types
<1>7. ub' # "report_queue" /\ (Broken => Broken')
  BY <1>2, Zenon DEF Broken, Inv, OnlyDnsQueueTooEarly
<1>8. \A m \in Mod : OnItsWay(m) => OnItsWay(m)'
  <2>1. /\ \A m : m \in Range(obuf) => m \in Range(obuf') \/ m \in Range(outbox')
        /\ \A m : m \in Range(outbox) => m \in Range(outbox')
    BY <1>2, <1>4, <1>5, Zenon
  <2>2. UNCHANGED <<queue, inbox>>
    BY <1>2, Zenon
  <2> QED
    BY <2>1, <2>2, Zenon DEF OnItsWay
<1>9. main' >= main
  BY <1>2 DEF Inv, Types
<1> QED
  BY <1>2, <1>6, <1>7, <1>8, <1>9, SameModules, Zenon

\* lars_dns turns a request into an answer, or pushes; the reporter reads.
LEMMA Peer_Inv ==
    ASSUME Inv, Peer \/ \E m \in Mod, hosts \in BOOLEAN : dns_push(m, hosts) PROVE Inv'
<1>t. outbox \in Seq(Mod) /\ inbox \in Seq(Response)
  BY Zenon DEF Inv, Types
<1>1. CASE reporter_reads
  <2>1. /\ UNCHANGED <<inbox, obuf, role, lb, queue, asked, main, ub, peer>> /\ role = "report"
        /\ outbox # <<>> /\ outbox' = Tail(outbox)
    BY <1>1, Zenon DEF reporter_reads, agent
  <2>2. Tail(outbox) \in Seq(Mod)
    BY <1>t, <2>1, RangeOfTail, Zenon
  <2>3. Types'
    BY <2>1, <2>2, Zenon DEF Inv, Types
  <2>4. PullOnItsWay' /\ OnlyDnsQueueTooEarly' /\ HostsAfterQueue'
    BY <2>1, Zenon DEF Inv, PullOnItsWay, OnlyDnsQueueTooEarly, HostsAfterQueue, Done
  <2> QED
    BY <2>3, <2>4, Zenon DEF Inv
<1>2. CASE \E hosts \in BOOLEAN : dns_answer(hosts)
  <2>1. PICK hosts \in BOOLEAN : dns_answer(hosts)
    BY <1>2, Zenon
  <2> DEFINE r == [mod |-> Head(outbox), hosts |-> hosts]
  <2>2. /\ UNCHANGED <<obuf, role, lb, queue, main, ub, peer>> /\ asked' = asked \cup {Head(outbox)}
        /\ outbox # <<>> /\ outbox' = Tail(outbox) /\ inbox' = Append(inbox, r)
    BY <2>1, Zenon DEF dns_answer
  <2>3. /\ Head(outbox) \in Mod /\ Tail(outbox) \in Seq(Mod)
        /\ Range(outbox) = {Head(outbox)} \cup Range(Tail(outbox))
    BY <1>t, <2>2, RangeOfTail, Zenon
  <2>4. r \in Response /\ r.mod = Head(outbox)
    BY <2>3, Zenon DEF Response
  <2> HIDE DEF r
  <2>5. /\ Append(inbox, r) \in Seq(Response) /\ r \in Range(Append(inbox, r))
        /\ \A x \in Range(inbox) : x \in Range(Append(inbox, r))
    <3>1. inbox \in Seq(Response) /\ r \in Response
      BY <1>t, <2>4, Zenon
    <3> QED
      BY <3>1, RangeOfAppend, Zenon
  <2>6. Types'
    BY <2>2, <2>3, <2>5, Zenon DEF Inv, Types
  <2>7. ASSUME NEW m \in Mod, OnItsWay(m) PROVE OnItsWay(m)'
    <3>1. Somewhere(m)
      BY <2>7, WayOf, Zenon DEF WayAsPlaces, Inv
    <3>2. WayAsPlaces'
      BY <2>6, WayOf, PTL
    <3>3. /\ \A x \in Range(inbox) : x \in Range(inbox')
          /\ r \in Range(inbox') /\ (m \in Range(outbox) => m = r.mod \/ m \in Range(outbox'))
      BY <2>2, <2>3, <2>4, <2>5, Zenon
    <3> QED
      BY <2>2, <2>4, <3>1, <3>2, <3>3, Zenon DEF WayAsPlaces, Somewhere
  <2>8. main' >= main /\ ub' # "report_queue" /\ (Broken => Broken')
    <3>1. main' >= main
      BY <2>2 DEF Inv, Types
    <3> QED
      BY <2>2, <3>1, Zenon DEF Broken, Inv, OnlyDnsQueueTooEarly
  <2> QED
    BY <2>2, <2>6, <2>7, <2>8, SameModules, Zenon
<1>3. CASE \E m \in Mod, hosts \in BOOLEAN : dns_push(m, hosts)
  <2>1. PICK m \in Mod, hosts \in BOOLEAN : dns_push(m, hosts)
    BY <1>3, Zenon
  <2> DEFINE r == [mod |-> m, hosts |-> hosts]
  <2>2. UNCHANGED <<obuf, outbox, role, lb, queue, asked, main, ub, peer>> /\ inbox' = Append(inbox, r)
    BY <2>1, Zenon DEF dns_push, agent
  <2>3. r \in Response
    BY Zenon DEF Response
  <2> HIDE DEF r
  <2>4. /\ Append(inbox, r) \in Seq(Response)
        /\ Len(Append(inbox, r)) = Len(inbox) + 1 /\ Len(inbox) \in Nat
        /\ \A i \in 1 .. Len(inbox) : Append(inbox, r)[i] = inbox[i]
    BY <1>t, <2>3, SeqAppend, SeqLen
  <2>5. Types'
    BY <2>2, <2>4, Zenon DEF Inv, Types
  <2>6. \A i \in 1 .. Len(inbox) : i \in 1 .. Len(inbox')
    BY <2>2, <2>4
  <2>7. \A x \in Mod : OnItsWay(x) => OnItsWay(x)'
    BY <2>2, <2>4, <2>6, Zenon DEF OnItsWay
  <2>8. main' >= main /\ ub' # "report_queue" /\ (Broken => Broken')
    <3>1. main' >= main
      BY <2>2 DEF Inv, Types
    <3> QED
      BY <2>2, <3>1, Zenon DEF Broken, Inv, OnlyDnsQueueTooEarly
  <2> QED
    BY <2>2, <2>5, <2>7, <2>8, SameModules, Zenon
<1> QED
  BY <1>1, <1>2, <1>3, Zenon DEF Peer

\* The client takes the queue over into its output buffer.
LEMMA new_request_Inv ==
    ASSUME Inv, new_request PROVE Inv'
<1>1. /\ UNCHANGED <<inbox, outbox, role, lb, asked, main, ub, peer>>
      /\ obuf' = obuf \o queue /\ queue' = <<>>
  BY Zenon DEF new_request, new_dns_request, new_report_request, forward, send_messages, setup, socket
<1>2. queue \in Seq(Mod) /\ obuf \in Seq(Mod)
  BY Zenon DEF Inv, Types
<1>3. obuf \o queue \in Seq(Mod) /\ Range(obuf \o queue) = Range(obuf) \cup Range(queue)
  BY <1>2, RangeOfConcat, ZenonT(60)
<1>4. Types'
  BY <1>1, <1>3, SeqNone, Zenon DEF Inv, Types
<1>5. \A m \in Mod : OnItsWay(m) => OnItsWay(m)'
  <2>1. UNCHANGED <<inbox, outbox>> /\ \A m : m \in Range(obuf) \/ m \in Range(queue) => m \in Range(obuf')
    BY <1>1, <1>3, Zenon
  <2> QED
    BY <2>1, Zenon DEF OnItsWay
<1>6. main' >= main /\ ub' # "report_queue" /\ (Broken => Broken')
  <2>1. main' >= main
    BY <1>1 DEF Inv, Types
  <2> QED
    BY <1>1, <2>1, Zenon DEF Broken, Inv, OnlyDnsQueueTooEarly
<1> QED
  BY <1>1, <1>4, <1>5, <1>6, SameModules, Zenon

\* What update_host leaves of a module waits for nothing.
LEMMA update_host_Of ==
    ASSUME lb \in [Mod -> Balance], NEW m \in Mod, NEW hosts \in BOOLEAN, lb' = update_host(m, hosts)
    PROVE  lb' \in [Mod -> Balance] /\ ~Waiting(m)' /\ \A x \in Mod \ {m} : lb'[x] = lb[x]
<1> DEFINE new == [status |-> "NEW", hosts |-> TRUE]
<1>1. Absent \in Balance /\ new \in Balance /\ new.status = "NEW" /\ new.hosts
  BY DEF Absent, Balance
<1> HIDE DEF new
<1>2. CASE lb[m] = Absent
  BY <1>2, Zenon DEF update_host, Waiting, Absent
<1>3. CASE lb[m] # Absent
  <2>1. lb' = [lb EXCEPT ![m] = IF hosts THEN new ELSE Absent]
    BY <1>3, Zenon DEF update_host, new
  <2>2. (IF hosts THEN new ELSE Absent) \in Balance
    BY <1>1, Zenon
  <2>3. /\ lb' \in [Mod -> Balance] /\ lb'[m] = IF hosts THEN new ELSE Absent
        /\ \A x \in Mod \ {m} : lb'[x] = lb[x]
    BY <2>1, <2>2, Zenon
  <2>4. lb'[m] = Absent \/ (lb'[m].status = "NEW" /\ lb'[m].hosts)
    BY <1>1, <2>3, Zenon
  <2>5. Absent' = Absent /\ "NEW" # "PULLING"
    BY Zenon DEF Absent
  <2>6. ~Waiting(m)'
    BY <2>4, <2>5, Zenon DEF Waiting
  <2> QED
    BY <2>3, <2>6, Zenon
<1> QED
  BY <1>2, <1>3, Zenon

\* Both clients start when there is a report queue.
LEMMA ClientHasQueue ==
    ASSUME Inv, ClientRuns \/ Runs("start_dns_client") PROVE Done("report_queue")
<1>1. main \in 0 .. Len(StartOrder)
  BY Zenon DEF Inv, Types
<1>2. Done("start_report_client") \/ Done("start_dns_client")
  BY Zenon DEF ClientRuns, Runs
<1> QED
  BY <1>1, <1>2, StartsAfterQueue, Zenon

\* The hook resets every module; one without hosts still waits.
LEMMA connected_Inv ==
    ASSUME Inv, connected PROVE Inv'
<1>1. /\ UNCHANGED <<inbox, outbox, obuf, role, queue, asked, main, ub, peer>>
      /\ lb' = IF role = "dns" THEN conn_init ELSE lb
  BY Zenon DEF connected, connection_succ, socket
<1>2. lb \in [Mod -> Balance]
  BY Zenon DEF Inv, Types
<1>3. ASSUME NEW m \in Mod
      PROVE  /\ lb'[m] \in Balance /\ (lb'[m].hosts = lb[m].hosts)
             /\ Waiting(m)' => Waiting(m)
  <2>1. CASE role # "dns" \/ lb[m] = Absent
    <3>1. lb'[m] = lb[m]
      BY <1>1, <2>1, Zenon DEF conn_init
    <3> QED
      BY <1>2, <3>1, Zenon DEF Waiting, Absent
  <2>2. CASE role = "dns" /\ lb[m] # Absent
    <3>1. lb'[m] = [lb[m] EXCEPT !.status = "NEW"]
      BY <1>1, <2>2, Zenon DEF conn_init
    <3>2. lb[m] \in Balance
      BY <1>2, Zenon
    <3>3. lb'[m] \in Balance /\ lb'[m].hosts = lb[m].hosts /\ lb'[m].status = "NEW"
      BY <3>1, <3>2 DEF Balance
    <3>4. "NEW" # "PULLING"
      OBVIOUS
    <3> QED
      BY <2>2, <3>3, <3>4, Zenon DEF Waiting
  <2> QED
    BY <2>1, <2>2, Zenon
<1>4. lb' \in [Mod -> Balance]
  <2>1. lb' = [m \in Mod |-> lb'[m]]
    BY <1>1, <1>2, Zenon DEF conn_init
  <2> QED
    BY <1>3, <2>1, Zenon
<1>5. Types'
  BY <1>1, <1>4, Zenon DEF Inv, Types
<1>6. \A m \in Mod : OnItsWay(m) => OnItsWay(m)'
  BY <1>1, Zenon DEF OnItsWay
<1>7. main' >= main
  BY <1>1 DEF Inv, Types
<1>8. ub' # "report_queue" /\ (Broken => Broken')
  BY <1>1, Zenon DEF Broken, Inv, OnlyDnsQueueTooEarly
<1>9. \A m \in Mod : role = "dns" /\ Waiting(m)' =>
                \/ OnItsWay(m)'
                \/ Broken'
                \/ (Waiting(m) /\ (OnItsWay(m) => OnItsWay(m)'))
  BY <1>3, <1>6, Zenon
<1>10. (\E m \in Mod : lb'[m].hosts) => (\E m \in Mod : lb[m].hosts) \/ Done("report_queue")
  BY <1>3, Zenon
<1> QED
  BY <1>1, <1>5, <1>7, <1>8, <1>9, <1>10, Kept, Zenon

\* An answer or a push ends the wait of its module and of no other.
LEMMA deal_recv_route_Inv ==
    ASSUME Inv, deal_recv_route PROVE Inv'
<1> DEFINE r == Head(inbox)
<1>1. /\ UNCHANGED <<outbox, obuf, role, queue, asked, main, ub, peer>> /\ ClientRuns
      /\ inbox # <<>> /\ inbox' = Tail(inbox) /\ lb' = update_host(r.mod, r.hosts)
  BY Zenon DEF deal_recv_route, do_read
<1>2. inbox \in Seq(Response) /\ lb \in [Mod -> Balance]
  BY Zenon DEF Inv, Types
<1>3. r \in Response /\ Tail(inbox) \in Seq(Response) /\ Range(inbox) = {r} \cup Range(Tail(inbox))
  BY <1>1, <1>2, RangeOfTail, Zenon
<1> HIDE DEF r
<1>4. r.mod \in Mod /\ r.hosts \in BOOLEAN
  BY <1>3, Zenon DEF Response
<1>5. lb' \in [Mod -> Balance] /\ (\A x \in Mod \ {r.mod} : lb'[x] = lb[x])
      /\ \A x \in Mod : x = r.mod => ~Waiting(x)'
  BY <1>1, <1>2, <1>4, update_host_Of, Zenon
<1>6. Types'
  BY <1>1, <1>3, <1>5, Zenon DEF Inv, Types
<1>7. main' >= main
  BY <1>1 DEF Inv, Types
<1>8. ub' # "report_queue" /\ (Broken => Broken')
  BY <1>1, Zenon DEF Broken, Inv, OnlyDnsQueueTooEarly
<1>9. ASSUME NEW m \in Mod, Waiting(m)' PROVE Waiting(m) /\ (OnItsWay(m) => OnItsWay(m)')
  <2>1. m # r.mod /\ Waiting(m)
    BY <1>5, <1>9, Zenon DEF Waiting, Absent
  <2>2. WayAsPlaces /\ Types
    BY WayOf, Zenon DEF Inv
  <2>3. WayAsPlaces'
    BY <1>6, WayOf, PTL
  <2>4. \A x \in Range(inbox) : x.mod = m => x \in Range(inbox')
    BY <1>1, <1>3, <2>1, Zenon
  <2> QED
    BY <1>1, <2>1, <2>2, <2>3, <2>4, Zenon DEF WayAsPlaces, Somewhere
<1>10. Done("report_queue")
  BY <1>1, ClientHasQueue, Zenon
<1> QED
  BY <1>1, <1>6, <1>7, <1>8, <1>9, <1>10, Kept, Zenon

\* What the other client brings waits for nothing this client has.
LEMMA other_client_Inv ==
    ASSUME Inv, NEW m \in Mod, NEW hosts \in BOOLEAN, other_client(m, hosts) PROVE Inv'
<1>1. /\ UNCHANGED <<inbox, outbox, obuf, role, queue, asked, main, ub, peer>> /\ role = "report"
      /\ Runs("start_dns_client") /\ lb' = update_host(m, hosts)
  BY Zenon DEF other_client, client, socket
<1>2. lb' \in [Mod -> Balance]
  BY <1>1, update_host_Of, Zenon DEF Inv, Types
<1>3. Types'
  BY <1>1, <1>2, Zenon DEF Inv, Types
<1>4. Done("report_queue")
  BY <1>1, ClientHasQueue, Zenon
<1>5. main' >= main
  BY <1>1 DEF Inv, Types
<1>6. ub' # "report_queue" /\ (Broken => Broken') /\ role # "dns"
  BY <1>1, Zenon DEF Broken, Inv, OnlyDnsQueueTooEarly
<1> QED
  BY <1>1, <1>3, <1>4, <1>5, <1>6, Kept, Zenon

\* A pull puts its request on the way, or meets no queue to put it into.
LEMMA pull_Inv ==
    ASSUME Inv, NEW m \in Mod, NEW hosts \in BOOLEAN, hosts = lb[m].hosts, ub = "none", pull(m, hosts)
    PROVE  Inv'
<1> DEFINE new == [status |-> "PULLING", hosts |-> hosts]
<1>1. /\ UNCHANGED <<inbox, outbox, obuf, role, asked, main, peer>> /\ send("dns_queue", "dns", m)
      /\ lb' = [lb EXCEPT ![m] = new]
  BY Zenon DEF pull, client, socket
<1>2. lb \in [Mod -> Balance] /\ queue \in Seq(Mod)
  BY Zenon DEF Inv, Types
<1>3. new \in Balance /\ new.hosts = hosts
  BY DEF Balance
<1> HIDE DEF new
<1>4. lb' \in [Mod -> Balance] /\ lb'[m] = new /\ \A x \in Mod \ {m} : lb'[x] = lb[x]
  BY <1>1, <1>2, <1>3, Zenon
<1>5. \/ queue' = queue /\ ub' = "dns_queue"
      \/ queue' = Append(queue, m) /\ ub' = ub
      \/ queue' = queue /\ ub' = ub /\ role # "dns"
  BY <1>1, Zenon DEF send
<1>6. /\ queue' \in Seq(Mod) /\ (\A x \in Range(queue) : x \in Range(queue'))
      /\ (queue' = Append(queue, m) => m \in Range(queue'))
  BY <1>2, <1>5, RangeOfAppend, Zenon
<1>7. Types'
  BY <1>1, <1>4, <1>6, Zenon DEF Inv, Types
<1>8. main' >= main
  BY <1>1 DEF Inv, Types
<1>9. ub' # "report_queue" /\ (Broken => Broken') /\ (ub' = "dns_queue" => Broken')
  <2>1. "dns_queue" # "report_queue" /\ "dns_queue" # "none" /\ "none" # "report_queue"
    OBVIOUS
  <2>2. (ub' = "dns_queue" \/ ub' = "none") /\ peer' = peer
    BY <1>1, <1>5, Zenon
  <2> QED
    BY <2>1, <2>2, Zenon DEF Broken
<1>10. \A x \in Mod : OnItsWay(x) => OnItsWay(x)'
  BY <1>1, <1>6, Zenon DEF OnItsWay
<1>11. role = "dns" => OnItsWay(m)' \/ Broken'
  BY <1>5, <1>6, <1>9, Zenon DEF OnItsWay
<1>12. \A x \in Mod : role = "dns" /\ Waiting(x)' =>
                \/ OnItsWay(x)'
                \/ Broken'
                \/ (Waiting(x) /\ (OnItsWay(x) => OnItsWay(x)'))
  <2>1. \A x \in Mod \ {m} : Waiting(x)' => Waiting(x)
    BY <1>4, Zenon DEF Waiting, Absent
  <2> QED
    BY <1>10, <1>11, <2>1, Zenon
<1>13. \A x \in Mod : lb'[x].hosts = lb[x].hosts
  BY <1>3, <1>4, Zenon
<1> QED
  BY <1>1, <1>7, <1>8, <1>9, <1>12, <1>13, Kept, Zenon

\* The first request for a module, and one that renews it.
LEMMA Pulls_Inv ==
    ASSUME Inv, NEW m \in Mod, get_new(m) \/ refresh(m) PROVE Inv'
<1>1. lb[m] \in Balance
  BY Zenon DEF Inv, Types
<1>2. lb[m].hosts \in BOOLEAN /\ Absent.hosts = FALSE
  BY <1>1 DEF Balance, Absent
<1>3. CASE get_new(m)
  <2>1. ub = "none" /\ pull(m, FALSE) /\ FALSE = lb[m].hosts
    BY <1>2, <1>3, Zenon DEF get_new, Runs
  <2> QED
    BY <2>1, pull_Inv, Zenon
<1>4. CASE refresh(m)
  <2>1. ub = "none" /\ pull(m, lb[m].hosts)
    BY <1>4, Zenon DEF refresh, Runs
  <2> QED
    BY <1>2, <2>1, pull_Inv, Zenon
<1> QED
  BY <1>3, <1>4, Zenon

\* A report goes into a queue that is there.
LEMMA report_host_Inv ==
    ASSUME Inv, NEW m \in Mod, report_host(m) PROVE Inv'
<1>1. UNCHANGED <<inbox, outbox, obuf, role, asked, main, peer, lb>> /\ send("report_queue", "report", m)
      /\ lb[m].hosts
  BY Zenon DEF report_host, client, socket
<1>2. Done("report_queue")
  BY <1>1, Zenon DEF Inv, HostsAfterQueue
<1>3. ub' = ub /\ (queue' = queue \/ queue' = Append(queue, m))
  BY <1>1, <1>2, Zenon DEF send
<1>4. queue \in Seq(Mod)
  BY Zenon DEF Inv, Types
<1>5. queue' \in Seq(Mod) /\ \A x \in Range(queue) : x \in Range(queue')
  BY <1>3, <1>4, RangeOfAppend, Zenon
<1>6. Types'
  BY <1>1, <1>5, Zenon DEF Inv, Types
<1>7. main' >= main
  BY <1>1 DEF Inv, Types
<1>8. ub' # "report_queue" /\ (Broken => Broken')
  BY <1>1, <1>3, Zenon DEF Broken, Inv, OnlyDnsQueueTooEarly
<1>9. \A x \in Mod : (OnItsWay(x) => OnItsWay(x)') /\ (Waiting(x)' => Waiting(x))
  BY <1>1, <1>5, Zenon DEF OnItsWay, Waiting, Absent
<1>10. (\E x \in Mod : lb'[x].hosts) => \E x \in Mod : lb[x].hosts
  BY <1>1, Zenon
<1>11. \A x \in Mod : role = "dns" /\ Waiting(x)' =>
                \/ OnItsWay(x)'
                \/ Broken'
                \/ (Waiting(x) /\ (OnItsWay(x) => OnItsWay(x)'))
  BY <1>9, Zenon
<1> QED
  BY <1>1, <1>6, <1>7, <1>8, <1>10, <1>11, Kept, Zenon

-----------------------------------------------------------------------------
(* The theorems                                                            *)

\* No module is known when the process starts.
LEMMA InitInv == Init => Inv
<1> SUFFICES ASSUME Init PROVE Inv
  OBVIOUS
<1>1. Absent \in Balance /\ ~Absent.hosts
  BY DEF Absent, Balance
<1>2. /\ queue = <<>> /\ obuf = <<>> /\ outbox = <<>> /\ inbox = <<>> /\ asked = {} /\ main = 0
      /\ lb = [m \in Mod |-> Absent] /\ ub = "none"
  BY Zenon DEF Init, ClientInit
<1>3. \A m \in Mod : lb[m] = Absent
  BY <1>2, Zenon
<1>4. Types
  <2>1. 0 \in 0 .. Len(StartOrder)
    BY DEF StartOrder
  <2>2. <<>> \in Seq(Mod) /\ <<>> \in Seq(Response)
    BY SeqNone, Zenon
  <2> QED
    BY <1>1, <1>2, <2>1, <2>2, Zenon DEF Types
<1>5. PullOnItsWay /\ HostsAfterQueue
  BY <1>1, <1>3, Zenon DEF PullOnItsWay, Waiting, HostsAfterQueue
<1>6. OnlyDnsQueueTooEarly
  BY <1>2 DEF OnlyDnsQueueTooEarly
<1> QED
  BY <1>4, <1>5, <1>6, Zenon DEF Inv

\* Every step of main, of the threads and of the servers keeps the invariant.
LEMMA NextInv == Inv /\ [Next]_vars => Inv'
<1> SUFFICES ASSUME Inv, [Next]_vars PROVE Inv'
  OBVIOUS
<1>1. CASE init_lb_agent \/ main_step \/ connect \/ Thread(start) \/ UNCHANGED vars
  BY <1>1, Quiet_Inv, Zenon
<1>2. CASE Socket
  BY <1>2, Quiet_Inv, Lost_Inv, connected_Inv, deal_recv_route_Inv, Zenon DEF Socket
<1>3. CASE (Answer \/ Reset) /\ UNCHANGED agent
  BY <1>3, Quiet_Inv, Lost_Inv, Zenon
<1>4. CASE new_request \/ Write \/ Peer
  BY <1>4, new_request_Inv, Write_Inv, Peer_Inv, Zenon
<1>5. ASSUME NEW m \in Mod, get_new(m) \/ refresh(m) \/ report_host(m) PROVE Inv'
  BY <1>5, Pulls_Inv, report_host_Inv, Zenon
<1>6. ASSUME NEW m \in Mod, NEW hosts \in BOOLEAN, dns_push(m, hosts) \/ other_client(m, hosts) PROVE Inv'
  BY <1>6, Peer_Inv, other_client_Inv, Zenon
<1> QED
  BY <1>1, <1>2, <1>3, <1>4, <1>5, <1>6, Zenon DEF Next

\* A module of the dns client that is PULLING or was never answered has its
\* request in dns_queue, in the output buffer or at lars_dns, or its answer on
\* the way back, unless the connection is lost or the queue was used before
\* main made it (load_balance.cpp:5-20, route_lb.cpp:56-72, dns_client.cpp:3-50).
THEOREM NoPullForgotten == Spec => []PullOnItsWay
<1>1. Inv => PullOnItsWay
  BY Zenon DEF Inv
<1> QED
  BY <1>1, InitInv, NextInv, PTL DEF Spec

\* No report is sent through report_queue before main has made it, although
\* the UDP servers start first (main_server.cpp:42-67, load_balance.cpp:329-376).
THEOREM ReportQueueInTime == Spec => []OnlyDnsQueueTooEarly
<1>1. Inv => OnlyDnsQueueTooEarly
  BY Zenon DEF Inv
<1> QED
  BY <1>1, InitInv, NextInv, PTL DEF Spec

-----------------------------------------------------------------------------
(* What a configuration file says                                          *)

\* Of some naturals one is the smallest: what proofs by induction rest on.
LEMMA Least ==
    ASSUME NEW D, D \subseteq Nat, D # {}
    PROVE  \E x \in D : \A y \in D : x <= y
<1> DEFINE less == {p \in Nat \X Nat : p[1] < p[2]}
<1>1. IsWellFoundedOn(less, Nat)
  BY NatLessThanWellFounded DEF OpToRel
<1>2. \E x \in D : \A y \in D : ~(<<y, x>> \in less)
  <2> HIDE DEF less
  <2> QED
    BY <1>1, WFMin, Zenon
<1>3. PICK x \in D : \A y \in D : ~(<<y, x>> \in less)
  BY <1>2
<1>4. ASSUME NEW y \in D PROVE x <= y
  <2>1. x \in Nat /\ y \in Nat /\ <<y, x>> \notin less
    BY <1>3
  <2> QED
    BY <2>1
<1> QED
  BY <1>4

\* The heads of sections in the first i lines, and the lines about a key there.
Heads(lines, i) == {j \in 1 .. i : lines[j].kind = "section"}
SayingTo(lines, i, s, k) ==
    {j \in 1 .. i : lines[j].kind = "pair" /\ lines[j].key = k /\ SectionOf(lines, j) = s}

\* The section of a line is the one that it begins, or that of the line before.
LEMMA SectionStep ==
    ASSUME NEW lines, NEW i \in Nat, i # 0
    PROVE  SectionOf(lines, i) = IF lines[i].kind = "section" THEN lines[i].section
                                 ELSE SectionOf(lines, i - 1)
<1> DEFINE H == Heads(lines, i)
           G == Heads(lines, i - 1)
           Last(S) == CHOOSE j \in S : \A h \in S : h <= j
<1>1. /\ SectionOf(lines, i) = IF H = {} THEN NoSection ELSE lines[Last(H)].section
      /\ SectionOf(lines, i - 1) = IF G = {} THEN NoSection ELSE lines[Last(G)].section
  BY Zenon DEF SectionOf, Heads
<1>2. i \in 1 .. i /\ (\A j \in 1 .. i : j <= i) /\ \A j \in 1 .. i : i <= j => i = j
  OBVIOUS
<1>3. \A j : j \in 1 .. i <=> j \in 1 .. i - 1 \/ j = i
  OBVIOUS
<1>4. CASE lines[i].kind = "section"
  <2>1. i \in H /\ \A h \in H : h \in 1 .. i /\ h <= i
    BY <1>2, <1>4, Zenon DEF Heads
  <2> HIDE DEF H
  <2>2. Last(H) \in H /\ i <= Last(H)
    BY <2>1, Zenon
  <2>3. Last(H) = i
    <3> HIDE DEF Last
    <3> QED
      BY <1>2, <2>1, <2>2, Zenon
  <2> HIDE DEF Last
  <2> QED
    BY <1>1, <1>4, <2>1, <2>3, Zenon
<1>5. CASE lines[i].kind # "section"
  <2>1. H = G
    BY <1>3, <1>5, Zenon DEF Heads
  <2> HIDE DEF H, G, Last
  <2> QED
    BY <1>1, <1>5, <2>1, Zenon
<1> QED
  BY <1>4, <1>5, Zenon

\* Before the first line config_file::Load is in no section.
LEMMA SectionNone == ASSUME NEW lines PROVE SectionOf(lines, 0) = NoSection
<1>1. \A j \in 1 .. 0 : FALSE
  OBVIOUS
<1>2. Heads(lines, 0) = {}
  BY <1>1, Zenon DEF Heads
<1> QED
  BY <1>2, Zenon DEF SectionOf, Heads

\* One more line says one thing more, or nothing.
LEMMA SayingStep ==
    ASSUME NEW lines, NEW i \in Nat, i # 0, NEW s, NEW k
    PROVE  \A j : j \in SayingTo(lines, i, s, k)
                  <=> \/ j \in SayingTo(lines, i - 1, s, k)
                      \/ /\ j = i /\ lines[i].kind = "pair" /\ lines[i].key = k
                         /\ SectionOf(lines, i) = s
<1>1. \A j : j \in 1 .. i <=> j \in 1 .. i - 1 \/ j = i
  OBVIOUS
<1> QED
  BY <1>1, Zenon DEF SayingTo

\* What has been loaded agrees with the first i lines.
Has(c, s, k) == s \in DOMAIN c.map /\ k \in DOMAIN c.map[s]
Told(c, lines, i, s, k) ==
    IF Has(c, s, k)
    THEN \E j \in SayingTo(lines, i, s, k) :
            (\A h \in SayingTo(lines, i, s, k) : h <= j) /\ c.map[s][k] = lines[j].value
    ELSE SayingTo(lines, i, s, k) = {}
IsConfig(c) == \E M, N : c \in [map : M, m : N, ub : BOOLEAN]
Agrees(c, lines, i) ==
    /\ IsConfig(c)
    /\ c.ub = FALSE =>
        /\ c.m = SectionOf(lines, i) /\ (c.m # NoSection => c.m \in DOMAIN c.map)
        /\ \A s, k : s # NoSection => Told(c, lines, i, s, k)

\* Nothing is loaded and nothing said at first.
LEMMA AgreesFirst == ASSUME NEW lines PROVE Agrees(NewConfig, lines, 0)
<1> DEFINE none == [s \in {} |-> Empty]
<1>1. NewConfig \in [map : {none}, m : {NoSection}, ub : BOOLEAN]
  BY Zenon DEF NewConfig
<1>2. NewConfig.map = none /\ NewConfig.m = NoSection /\ DOMAIN none = {}
  BY Zenon DEF NewConfig
<1>3. \A s, k : SayingTo(lines, 0, s, k) = {}
  <2>1. \A j \in 1 .. 0 : FALSE
    OBVIOUS
  <2> QED
    BY <2>1, Zenon DEF SayingTo
<1> HIDE DEF none
<1>4. IsConfig(NewConfig)
  BY <1>1, Zenon DEF IsConfig
<1>5. \A s, k : Told(NewConfig, lines, 0, s, k)
  BY <1>2, <1>3, Zenon DEF Told, Has
<1> QED
  BY <1>2, <1>4, <1>5, SectionNone, Zenon DEF Agrees

IsOpened(r, c, s) ==
    /\ IsConfig(r) /\ r.m = s /\ r.ub = c.ub
    /\ r.map = IF s \in DOMAIN c.map THEN c.map ELSE Put(c.map, s, Empty)
IsKeySet(r, c, k, v) ==
    /\ IsConfig(r)
    /\ c.m = NoSection => r.ub
    /\ c.m # NoSection => /\ r.m = c.m /\ r.ub = c.ub
                          /\ r.map = [c.map EXCEPT ![c.m] = Put(c.map[c.m], k, v)]

\* What the head of a section makes of the fields.
LEMMA Opened ==
    ASSUME NEW c, IsConfig(c), NEW s, NEW r, r = OpenSection(c, s)
    PROVE  IsOpened(r, c, s)
<1>1. PICK M, N : c \in [map : M, m : N, ub : BOOLEAN]
  BY Zenon DEF IsConfig
<1> DEFINE x == IF s \in DOMAIN c.map THEN c.map ELSE Put(c.map, s, Empty)
<1>2. r = [c EXCEPT !.m = s, !.map = x]
  BY Zenon DEF OpenSection
<1> HIDE DEF x
<1>3. r \in [map : M \cup {x}, m : N \cup {s}, ub : BOOLEAN] /\ r.m = s /\ r.ub = c.ub /\ r.map = x
  BY <1>1, <1>2, Zenon
<1>4. IsConfig(r)
  BY <1>3, Zenon DEF IsConfig
<1> QED
  BY <1>3, <1>4, Zenon DEF x, IsOpened

\* What a pair makes of the fields.
LEMMA KeySet ==
    ASSUME NEW c, IsConfig(c), NEW k, NEW v, NEW r, r = SetKey(c, k, v)
    PROVE  IsKeySet(r, c, k, v)
<1>1. PICK M, N : c \in [map : M, m : N, ub : BOOLEAN]
  BY Zenon DEF IsConfig
<1>2. CASE c.m = NoSection
  <2>1. r = [c EXCEPT !.ub = TRUE]
    BY <1>2, Zenon DEF SetKey
  <2>2. r \in [map : M, m : N, ub : BOOLEAN] /\ r.ub
    BY <1>1, <2>1, Zenon
  <2> QED
    BY <1>2, <2>2, Zenon DEF IsConfig, IsKeySet
<1>3. CASE c.m # NoSection
  <2> DEFINE e == Put(c.map[c.m], k, v)
             x == [c.map EXCEPT ![c.m] = e]
  <2>1. r = [c EXCEPT !.map[c.m] = e]
    BY <1>3, Zenon DEF SetKey
  <2> HIDE DEF e
  <2>2. r \in [map : M \cup {x}, m : N, ub : BOOLEAN] /\ r.m = c.m /\ r.ub = c.ub /\ r.map = x
    BY <1>1, <2>1, Zenon
  <2>3. IsConfig(r)
    BY <2>2, Zenon DEF IsConfig
  <2> QED
    BY <1>3, <2>2, <2>3, Zenon DEF e, IsKeySet
<1> QED
  BY <1>2, <1>3, Zenon

\* What config_file::Load does with a line of each kind.
LEMMA LineLoaded ==
    ASSUME NEW c, IsConfig(c), NEW line
    PROVE  /\ c.ub => LoadLine(c, line) = c
           /\ ~c.ub /\ line.kind = "section" => LoadLine(c, line) = OpenSection(c, line.section)
           /\ ~c.ub /\ line.kind = "pair" => LoadLine(c, line) = SetKey(c, line.key, line.value)
           /\ line.kind \notin {"section", "pair"} => LoadLine(c, line) = c
<1>1. c.ub \in BOOLEAN
  BY Zenon DEF IsConfig
<1>2. "section" # "pair"
  OBVIOUS
<1>3. CASE c.ub
  BY <1>3, Zenon DEF LoadLine
<1>4. CASE ~c.ub /\ line.kind = "section"
  BY <1>2, <1>4, Zenon DEF LoadLine
<1>5. CASE ~c.ub /\ line.kind = "pair"
  BY <1>2, <1>5, Zenon DEF LoadLine
<1>6. CASE ~c.ub /\ line.kind \notin {"section", "pair"}
  BY <1>6, Zenon DEF LoadLine
<1> QED
  BY <1>1, <1>2, <1>3, <1>4, <1>5, <1>6, Zenon

\* A line about something else changes nothing for a key.
LEMMA ToldStill ==
    ASSUME NEW lines, NEW i, NEW h, NEW c, NEW r, NEW s, NEW k, Told(c, lines, h, s, k),
           SayingTo(lines, i, s, k) = SayingTo(lines, h, s, k),
           Has(r, s, k) <=> Has(c, s, k), Has(c, s, k) => r.map[s][k] = c.map[s][k]
    PROVE  Told(r, lines, i, s, k)
  BY Zenon DEF Told

\* Every line keeps what was loaded in agreement with the file.
LEMMA AgreesStep ==
    ASSUME NEW lines, NEW i \in Nat, i # 0, NEW c, Agrees(c, lines, i - 1),
           lines[i].kind = "section" => lines[i].section # NoSection
    PROVE  Agrees(LoadLine(c, lines[i]), lines, i)
<1> DEFINE line == lines[i]
           r == LoadLine(c, line)
<1>1. IsConfig(c) /\ c.ub \in BOOLEAN
  BY Zenon DEF Agrees, IsConfig
<1>2. CASE c.ub
  BY <1>1, <1>2, LineLoaded, Zenon DEF Agrees
<1>3. ASSUME ~c.ub
      PROVE  /\ c.m = SectionOf(lines, i - 1) /\ (c.m # NoSection => c.m \in DOMAIN c.map)
             /\ \A s, k : s # NoSection => Told(c, lines, i - 1, s, k)
  BY <1>1, <1>3, Zenon DEF Agrees
<1>4. ASSUME NEW s, NEW k, ~(line.kind = "pair" /\ line.key = k /\ SectionOf(lines, i) = s)
      PROVE  SayingTo(lines, i, s, k) = SayingTo(lines, i - 1, s, k)
  <2>1. \A j : j \in SayingTo(lines, i, s, k) <=> j \in SayingTo(lines, i - 1, s, k)
    BY <1>4, SayingStep, Zenon
  <2> QED
    BY <2>1, Zenon
<1>5. CASE ~c.ub /\ line.kind \notin {"section", "pair"}
  <2>1. r = c /\ SectionOf(lines, i) = SectionOf(lines, i - 1)
    BY <1>1, <1>5, LineLoaded, SectionStep, Zenon
  <2>2. ASSUME NEW s, NEW k, s # NoSection PROVE Told(c, lines, i, s, k)
    BY <1>3, <1>4, <1>5, <2>2, ToldStill, Zenon
  <2> QED
    BY <1>1, <1>3, <1>5, <2>1, <2>2, Zenon DEF Agrees
<1>6. CASE ~c.ub /\ line.kind = "section"
  <2> DEFINE x == line.section
  <2>1. r = OpenSection(c, x) /\ SectionOf(lines, i) = x /\ x # NoSection /\ line.kind # "pair"
    <3>1. "section" # "pair"
      OBVIOUS
    <3> QED
      BY <1>1, <1>6, <3>1, LineLoaded, SectionStep, Zenon
  <2> HIDE DEF r, x
  <2>2. /\ IsConfig(r) /\ r.m = x /\ r.ub = c.ub
        /\ r.map = IF x \in DOMAIN c.map THEN c.map ELSE Put(c.map, x, Empty)
    <3>1. IsOpened(r, c, x)
      BY <1>1, <2>1, Opened, Zenon
    <3> QED
      BY <3>1, Zenon DEF IsOpened
  <2>3. ASSUME NEW s, NEW k
        PROVE  /\ Has(r, s, k) <=> Has(c, s, k)
               /\ Has(c, s, k) => r.map[s][k] = c.map[s][k]
    <3>1. CASE x \in DOMAIN c.map
      BY <2>2, <3>1, Zenon DEF Has
    <3>2. CASE x \notin DOMAIN c.map
      <4>1. r.map = [y \in DOMAIN c.map \cup {x} |-> IF y = x THEN Empty ELSE c.map[y]]
        BY <2>2, <3>2, Zenon DEF Put
      <4>2. /\ DOMAIN r.map = DOMAIN c.map \cup {x} /\ r.map[x] = Empty
            /\ \A y \in DOMAIN c.map : y # x => r.map[y] = c.map[y]
        BY <4>1, Zenon
      <4>3. DOMAIN Empty = {}
        BY Zenon DEF Empty
      <4> QED
        BY <3>2, <4>2, <4>3, Zenon DEF Has
    <3> QED
      BY <3>1, <3>2, Zenon
  <2>4. ASSUME NEW s, NEW k, s # NoSection PROVE Told(r, lines, i, s, k)
    <3>1. Told(c, lines, i - 1, s, k) /\ SayingTo(lines, i, s, k) = SayingTo(lines, i - 1, s, k)
      BY <1>3, <1>4, <1>6, <2>1, <2>4, Zenon
    <3> QED
      BY <2>3, <3>1, ToldStill, Zenon
  <2>5. x \in DOMAIN r.map
    BY <2>2, Zenon DEF Put
  <2> QED
    BY <2>1, <2>2, <2>4, <2>5, Zenon DEF Agrees, r
<1>7. CASE ~c.ub /\ line.kind = "pair"
  <2> DEFINE t == line.key
             v == line.value
             x == c.m
  <2>1. r = SetKey(c, t, v) /\ SectionOf(lines, i) = x
    <3>1. "section" # "pair"
      OBVIOUS
    <3> QED
      BY <1>1, <1>3, <1>7, <3>1, LineLoaded, SectionStep, Zenon
  <2> HIDE DEF r
  <2>2. /\ IsConfig(r) /\ (x = NoSection => r.ub)
        /\ x # NoSection => r.m = x /\ r.ub = c.ub /\ r.map = [c.map EXCEPT ![x] = Put(c.map[x], t, v)]
    <3> HIDE DEF t, v
    <3>1. IsKeySet(r, c, t, v)
      BY <1>1, <2>1, KeySet, Zenon
    <3> QED
      BY <3>1, Zenon DEF IsKeySet
  <2>3. CASE x = NoSection
    BY <2>2, <2>3, Zenon DEF Agrees, r
  <2>4. CASE x # NoSection
    <3>1. x \in DOMAIN c.map
      BY <1>3, <1>7, <2>4, Zenon
    <3> HIDE DEF x, t, v
    <3>2. /\ DOMAIN r.map = DOMAIN c.map /\ r.map[x] = Put(c.map[x], t, v)
          /\ \A y \in DOMAIN c.map : y # x => r.map[y] = c.map[y]
      BY <2>2, <2>4, <3>1, Zenon
    <3>3. /\ DOMAIN r.map[x] = DOMAIN c.map[x] \cup {t} /\ r.map[x][t] = v
          /\ \A y \in DOMAIN c.map[x] : y # t => r.map[x][y] = c.map[x][y]
      BY <3>2, Zenon DEF Put
    <3>4. ASSUME NEW s, NEW k, s # NoSection PROVE Told(r, lines, i, s, k)
      <4>1. CASE s = x /\ k = t
        <5>1. Has(r, s, k) /\ r.map[s][k] = lines[i].value
          BY <3>1, <3>2, <3>3, <4>1, Zenon DEF Has, v
        <5>2. i \in SayingTo(lines, i, s, k)
          BY <1>7, <2>1, <4>1, SayingStep, Zenon DEF t
        <5>3. \A h \in SayingTo(lines, i, s, k) : h <= i
          <6>1. \A h \in 1 .. i : h <= i
            OBVIOUS
          <6> QED
            BY <6>1, Zenon DEF SayingTo
        <5> QED
          BY <5>1, <5>2, <5>3, Zenon DEF Told
      <4>2. CASE ~(s = x /\ k = t)
        <5>1. Told(c, lines, i - 1, s, k) /\ SayingTo(lines, i, s, k) = SayingTo(lines, i - 1, s, k)
          BY <1>3, <1>4, <1>7, <2>1, <3>4, <4>2, Zenon DEF t
        <5>2. Has(r, s, k) <=> Has(c, s, k)
          BY <3>1, <3>2, <3>3, <4>2, Zenon DEF Has
        <5>3. Has(c, s, k) => r.map[s][k] = c.map[s][k]
          BY <3>2, <3>3, <4>2, Zenon DEF Has
        <5> QED
          BY <5>1, <5>2, <5>3, ToldStill, Zenon
      <4> QED
        BY <4>1, <4>2, Zenon
    <3> QED
      BY <2>1, <2>2, <2>4, <3>1, <3>2, <3>4, Zenon DEF Agrees, r
  <2> QED
    BY <2>3, <2>4, Zenon
<1> QED
  BY <1>1, <1>2, <1>5, <1>6, <1>7, Zenon

\* f is what is loaded after each of the first n lines.
Loads(f, lines, n) ==
    /\ f = [i \in 0 .. n |-> f[i]] /\ f[0] = NewConfig
    /\ \A i \in 1 .. n : f[i] = LoadLine(f[i - 1], lines[i])

\* There is such a function.
LEMMA LoadsExist == ASSUME NEW lines, NEW len \in Nat PROVE \E f : Loads(f, lines, len)
<1> DEFINE Up(n) == \E f : Loads(f, lines, n)
           D == {n \in 0 .. len : ~Up(n)}
<1>1. Up(0)
  <2> DEFINE f == [i \in 0 .. 0 |-> NewConfig]
  <2>1. 0 \in 0 .. 0 /\ \A i \in 1 .. 0 : FALSE
    OBVIOUS
  <2>2. f = [i \in 0 .. 0 |-> f[i]] /\ f[0] = NewConfig
    BY <2>1, Zenon
  <2> HIDE DEF f
  <2> QED
    BY <2>1, <2>2, Zenon DEF Loads
<1>2. D \subseteq Nat /\ \A n \in 0 .. len : n \notin D => Up(n)
  <2> HIDE DEF Up
  <2> QED
    OBVIOUS
<1>3. \A n \in D : n \in 0 .. len /\ ~Up(n)
  BY Zenon
<1> HIDE DEF D
<1>4. D = {}
  <2> SUFFICES ASSUME D # {} PROVE FALSE
    BY Zenon
  <2>1. PICK n \in D : \A m \in D : n <= m
    BY <1>2, Least, Zenon
  <2>2. n # 0
    BY <1>1, <1>3, Zenon
  <2>3. n - 1 \in 0 .. len /\ n \in 1 .. len /\ n - 1 \notin D
    <3> HIDE DEF Up
    <3> QED
      BY <1>3, <2>1, <2>2
  <2>4. PICK f : Loads(f, lines, n - 1)
    BY <1>2, <2>3, Zenon
  <2> DEFINE e == LoadLine(f[n - 1], lines[n])
             g == [i \in 0 .. n |-> IF i = n THEN e ELSE f[i]]
  <2>5. \A i \in 0 .. n : g[i] = IF i = n THEN e ELSE f[i]
    BY Zenon
  <2>6. g = [i \in 0 .. n |-> g[i]]
    BY Zenon
  <2> HIDE DEF g
  <2>7. 0 \in 0 .. n /\ 0 # n
    BY <2>3
  <2>8. ASSUME NEW i \in 1 .. n PROVE g[i] = LoadLine(g[i - 1], lines[i])
    <3>1. i \in 0 .. n /\ i - 1 \in 0 .. n /\ i - 1 # n /\ (i # n => i \in 1 .. n - 1)
      BY <2>3
    <3>2. g[i - 1] = f[i - 1] /\ g[i] = IF i = n THEN e ELSE f[i]
      BY <2>5, <3>1, Zenon
    <3> QED
      BY <2>4, <3>1, <3>2, Zenon DEF Loads
  <2>9. g[0] = NewConfig
    BY <2>4, <2>5, <2>7, Zenon DEF Loads
  <2>10. Up(n)
    BY <2>6, <2>8, <2>9, Zenon DEF Loads
  <2> QED
    BY <1>3, <2>1, <2>10, Zenon
<1>5. len \in 0 .. len
  OBVIOUS
<1> QED
  BY <1>2, <1>4, <1>5, Zenon

\* What Load loads agrees with the whole file.
HeadsNamed(lines) == \A i \in 1 .. Len(lines) : lines[i].kind = "section" => lines[i].section # NoSection

\* After its last line Load has filled the maps with what the file says.
LEMMA LoadAgrees ==
    ASSUME NEW lines, Len(lines) \in Nat, HeadsNamed(lines)
    PROVE  Agrees(Load(lines), lines, Len(lines))
<1> DEFINE len == Len(lines)
           Rec(f) == f = [i \in 0 .. len |-> IF i = 0 THEN NewConfig ELSE LoadLine(f[i - 1], lines[i])]
           after == CHOOSE f : Rec(f)
<1>1. PICK f : Loads(f, lines, len)
  BY LoadsExist, Zenon
<1>2. Rec(f)
  <2>1. \A i \in 0 .. len : i # 0 => i \in 1 .. len
    OBVIOUS
  <2>2. \A i \in 0 .. len : f[i] = IF i = 0 THEN NewConfig ELSE LoadLine(f[i - 1], lines[i])
    BY <1>1, <2>1, Zenon DEF Loads
  <2>3. f = [i \in 0 .. len |-> f[i]]
    BY <1>1, Zenon DEF Loads
  <2> QED
    BY <2>2, <2>3, Zenon
<1>3. Rec(after)
  BY <1>2, Zenon
<1>4. Load(lines) = after[len]
  BY Zenon DEF Load
<1> HIDE DEF after
<1>5. \A i \in 0 .. len : after[i] = IF i = 0 THEN NewConfig ELSE LoadLine(after[i - 1], lines[i])
  BY <1>3, Zenon
<1> DEFINE D == {i \in 0 .. len : ~Agrees(after[i], lines, i)}
<1>6. D \subseteq Nat /\ \A i \in 0 .. len : i \notin D => Agrees(after[i], lines, i)
  OBVIOUS
<1>7. \A i \in D : i \in 0 .. len /\ ~Agrees(after[i], lines, i)
  BY Zenon
<1> HIDE DEF D
<1>8. D = {}
  <2> SUFFICES ASSUME D # {} PROVE FALSE
    BY Zenon
  <2>1. PICK n \in D : \A m \in D : n <= m
    BY <1>6, Least, Zenon
  <2>2. CASE n = 0
    BY <1>5, <1>7, <2>1, <2>2, AgreesFirst, Zenon
  <2>3. CASE n # 0
    <3>1. n \in Nat /\ n - 1 \in 0 .. len /\ n \in 1 .. len /\ n - 1 \notin D
      BY <1>7, <2>1, <2>3
    <3>2. Agrees(after[n - 1], lines, n - 1) /\ after[n] = LoadLine(after[n - 1], lines[n])
      BY <1>5, <1>6, <1>7, <2>1, <2>3, <3>1, Zenon
    <3>3. Agrees(LoadLine(after[n - 1], lines[n]), lines, n)
      BY <2>3, <3>1, <3>2, AgreesStep, Zenon DEF HeadsNamed
    <3> QED
      BY <1>7, <2>1, <3>2, <3>3, Zenon
  <2> QED
    BY <2>2, <2>3, Zenon
<1>9. len \in 0 .. len
  OBVIOUS
<1> QED
  BY <1>4, <1>6, <1>8, <1>9, Zenon

\* What GetNumber finds in the maps is what the last line about the key says.
LEMMA LoadSays ==
    ASSUME NEW lines, Len(lines) \in Nat, HeadsNamed(lines), ~Load(lines).ub,
           NEW s, s # NoSection, NEW k, NEW d
    PROVE  GetNumber(Load(lines).map, s, k, d) = Says(lines, s, k, d)
<1> DEFINE c == Load(lines)
           is == Saying(lines, s, k)
           Last(i) == i \in is /\ \A h \in is : h <= i
<1>1. Agrees(c, lines, Len(lines))
  BY LoadAgrees, Zenon
<1> HIDE DEF c
<1>2. is = SayingTo(lines, Len(lines), s, k)
  BY Zenon DEF Saying, SayingTo
<1>3. is \subseteq Nat
  <2>1. 1 .. Len(lines) \subseteq Nat
    OBVIOUS
  <2> QED
    BY <2>1, Zenon DEF Saying
<1> HIDE DEF is
<1>4. Told(c, lines, Len(lines), s, k)
  <2>1. c.ub = FALSE
    BY <1>1, Zenon DEF Agrees, IsConfig, c
  <2> QED
    BY <1>1, <2>1, Zenon DEF Agrees
<1>5. CASE Has(c, s, k)
  <2>1. PICK j : Last(j) /\ c.map[s][k] = lines[j].value
    BY <1>2, <1>4, <1>5, Zenon DEF Told
  <2>2. \A i \in is : (\A h \in is : h <= i) => i = j
    <3>1. \A i, h \in Nat : i <= h /\ h <= i => i = h
      OBVIOUS
    <3> QED
      BY <1>3, <2>1, <3>1, Zenon
  <2>3. (CHOOSE i \in is : \A h \in is : h <= i) = j
    BY <2>1, <2>2, Zenon
  <2>4. is # {}
    BY <2>1, Zenon
  <2>5. Says(lines, s, k, d) = parseNumber(lines[j].value)
    BY <2>3, <2>4, Zenon DEF Says, is
  <2>6. GetNumber(c.map, s, k, d) = parseNumber(c.map[s][k])
    BY <1>5, Zenon DEF GetNumber, Has
  <2> QED
    BY <2>1, <2>5, <2>6, Zenon DEF c
<1>6. CASE ~Has(c, s, k)
  <2>1. is = {}
    BY <1>2, <1>4, <1>6, Zenon DEF Told
  <2>2. Says(lines, s, k, d) = d
    BY <2>1, Zenon DEF Says, is
  <2>3. GetNumber(c.map, s, k, d) = d
    BY <1>6, Zenon DEF GetNumber, Has
  <2> QED
    BY <2>2, <2>3, Zenon DEF c
<1> QED
  BY <1>5, <1>6, Zenon

\* A file is a sequence of lines, and its sections have names.
FileRead == Len(file) \in Nat /\ HeadsNamed(file)

\* The agent starts with no file read (main_server.cpp).
LEMMA FileReadFirst == Init => FileRead
<1> SUFFICES ASSUME Init PROVE FileRead
  OBVIOUS
<1>1. PICK n \in 0 .. MaxLines : file \in [1 .. n -> Line]
  BY Zenon DEF Init, Files
<1>2. Len(file) = n /\ n \in Nat
  <2> HIDE DEF Line
  <2> QED
    BY <1>1
<1>3. \A i \in 1 .. n : file[i] \in Line
  BY <1>1, Zenon
<1>4. \A line \in Line : line.kind = "section" => line.section # NoSection
  <2>1. /\ "pair" # "section" /\ "other" # "section"
        /\ "dns" # NoSection /\ "reporter" # NoSection
    BY DEF NoSection
  <2>2. \A x : SectionLine(x).section = x
    BY Zenon DEF SectionLine
  <2>3. \A v : PairLine("port", v).kind # "section"
    BY <2>1, Zenon DEF PairLine
  <2>4. OtherLine.kind # "section"
    BY <2>1, Zenon DEF OtherLine
  <2>5. \A line \in Line : \/ line = SectionLine("dns") \/ line = SectionLine("reporter")
                           \/ line = OtherLine \/ \E v : line = PairLine("port", v)
    BY Zenon DEF Line
  <2> QED
    BY <2>1, <2>2, <2>3, <2>4, <2>5, Zenon
<1> QED
  BY <1>2, <1>3, <1>4, Zenon DEF FileRead, HeadsNamed

\* Nothing writes the file.
LEMMA FileReadNext == FileRead /\ [Next]_vars => FileRead'
<1> SUFFICES ASSUME FileRead, [Next]_vars PROVE FileRead'
  OBVIOUS
<1>1. CASE file' = file
  BY <1>1, Zenon DEF FileRead
<1>2. CASE file' = <<>>
  <2>1. Len(<<>>) \in Nat /\ \A i \in 1 .. Len(<<>>) : FALSE
    OBVIOUS
  <2>2. HeadsNamed(<<>>)
    BY <2>1, Zenon DEF HeadsNamed
  <2>3. HeadsNamed(file')
    BY <1>2, <2>2, Zenon
  <2> QED
    BY <1>2, <2>1, <2>3, Zenon DEF FileRead
<1>3. UNCHANGED setup => file' = file
  BY Zenon DEF setup
<1>4. UNCHANGED agent => UNCHANGED setup
  BY Zenon DEF agent
<1>5. CASE init_lb_agent \/ main_step \/ connect \/ new_request
  BY <1>1, <1>2, <1>3, <1>5, Zenon
     DEF init_lb_agent, main_step, connect, new_request, new_dns_request, new_report_request, forward
<1>6. CASE Thread(start) \/ Socket \/ Write
  BY <1>1, <1>3, <1>4, <1>6, Zenon DEF Thread, Socket, Write, connected, deal_recv_route
<1>7. CASE Peer \/ ((Answer \/ Reset) /\ UNCHANGED agent) \/ UNCHANGED vars
  BY <1>1, <1>3, <1>4, <1>7, Zenon DEF Peer, reporter_reads, dns_answer, vars
<1>8. ASSUME NEW m \in Mod, get_new(m) \/ refresh(m) \/ report_host(m) PROVE FileRead'
  BY <1>1, <1>3, <1>8, Zenon DEF get_new, refresh, report_host, pull
<1>9. ASSUME NEW m \in Mod, NEW hosts \in BOOLEAN, dns_push(m, hosts) \/ other_client(m, hosts)
      PROVE  FileRead'
  BY <1>1, <1>3, <1>4, <1>9, Zenon DEF dns_push, other_client
<1> QED
  BY <1>5, <1>6, <1>7, <1>8, <1>9, Zenon DEF Next

\* The step of PortIsConfigured.
PortStep == init_lb_agent /\ ub' = "none" =>
                port' = Port(Says(file, client_section, "port", default_port))

\* Whatever lb_agent.ini holds, the port that a client takes from the maps
\* that Load fills is the one of the last line about it in a section of the
\* client's name, or the default, unless a pair before the first section made
\* Load use a null pointer (config_file.cpp:50-152, dns_client.cpp:60-64,
\* report_client.cpp:34-38).
THEOREM PortFromFile == Spec => PortIsConfigured
<1>1. FileRead => PortStep
  <2> SUFFICES ASSUME FileRead, init_lb_agent, ub' = "none"
               PROVE  port' = Port(Says(file, client_section, "port", default_port))
    BY Zenon DEF PortStep
  <2>1. "section" # "none"
    OBVIOUS
  <2>2. /\ ~Load(file).ub
        /\ port' = Port(GetNumber(Load(file).map, client_section, "port", default_port))
    BY <2>1, Zenon DEF init_lb_agent
  <2>3. client_section # NoSection
    BY DEF client_section, NoSection
  <2> QED
    BY <2>2, <2>3, LoadSays, Zenon DEF FileRead
<1>2. FileRead /\ [Next]_vars => [PortStep]_vars
  BY <1>1, Zenon
<1>3. PortIsConfigured <=> [][PortStep]_vars
  BY DEF PortIsConfigured, PortStep
<1> QED
  BY <1>2, <1>3, FileReadFirst, FileReadNext, PTL DEF Spec
=============================================================================
