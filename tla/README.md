# A verification of Lars

Lars routes requests to the hosts of a service. A caller links the client API
and asks the agent on its machine for a host of a module (`modid`/`cmdid`); the
agent balances over the hosts the dns service names and learns from the results
callers report; a reporter stores those results, and a web console edits the
routes. Everything runs on one network library, `lars_reactor`.

```
 caller --UDP--> lars_lb_agent --TCP--> lars_dns  <--SQL-- lars_web
 (lars_api)      3 UDP servers          poller, pool threads
                 dns client    --TCP--> lars_reporter --SQL--> MySQL
                 report client          storing threads
```

This directory holds TLA+ modules translated from the sources, the TLC
configurations that check them on small instances, and proofs that TLAPS checks
for every instance. `PROJECT.json` maps each definition to its source lines and
lists the runs, the hazards, the findings and the theorems.

Run a configuration with `tlc -config X.cfg M`, the proofs with
`tlapm M.tla` for the eight modules with theorems:

| module | proves about |
|---|---|
| RouteProofs | LoadBalance, and DnsRoute as an implementation of RouteTable |
| ConnProofs | Subscribe and TcpConn |
| ClientProofs | Agent with TcpClient and ConfigFile, and Console |
| TcpServerProofs | TcpServer with ThreadPool |
| ReactorBufProofs | ReactorBuf |
| LarsProtoProofs | LarsProto: `Faithful` of Encoding |
| ExchangeProofs | LarsApi and Reporter, from `Faithful` |
| LarsProofs | puts the last two together |

## Inventory

| part | state | operations | what is hard about it |
|---|---|---|---|
| route_lb, load_balance, host_info | host map, idle and overload lists, counters, pull status | get_host, get_route, report, update, reset | lists, counters and map must agree over long call sequences; deleted hosts; time |
| main_server, dns_client, report_client, tcp_client | start-up order, queues, socket, io_event, output buffer | start, connect, send, read, write, clean up | servers that run before the queues exist; messages sent while connecting; hook set late; event arming; a route asked for once |
| dns_route | two maps and a pointer, version | poll, reload, swap, get_hosts | readers against reload; three statements per edit; restart |
| subscribe, dns_service | book list, push list, per-connection lists | get_route, close, publish, push task | locks dropped between copy and erase; reused descriptors |
| thread_pool, thread_queue | queues, eventfds, ready tasks | send, recv, get_thread, send_task | lost wakeups, order, index wrap |
| tcp_server | connection table, count, limit | accept, hand over, open, close | count lags behind; descriptors are reused across threads |
| tcp_conn, message | input and output buffer | send_message, do_write, do_read | partial reads and writes, full buffer, empty and oversized bodies |
| buf_pool, io_buf, reactor_buf | blocks, free lists, memory count | alloc, revert, copy, adjust, pop | ownership, limit, order of bytes |
| reporter | round-robin index, queues, rows | receive, store | unlocked index; two threads and all agents write one row |
| lars_api, udp_server | sequence number, sockets, response object | get_host, get_route, report, reg_init; receive, answer | lost and late datagrams; byte order of addresses |
| lars.proto, lars.pb.cc | message objects | clear, parse, serialize, size, merge | zero fields and negative numbers on the wire; nested sizes |
| lars_web | sessions, one shared database handle, tables | login, logout, add, update, delete a route, configure | statements fail one by one; a login changes the database under other requests |
| event_loop | io_event map, epoll set | add, delete, process | read before write |
| config_file | sections and their keys | load, look up | repeated sections and keys |
| udp_client, mysql headers, examples | - | - | not modelled (below) |

## Modules

Every module describes the actors of one part and the interleavings its locks
allow: a lock-protected section is one action, code outside a lock is split at
each access to shared state.

**LoadBalance** is one module of one `route_lb`. `route_lb` holds its mutex for
the whole of each call, so a call is one action, and modules do not share state.
`host_map` is the set of keys of `_host_map`; `allocated` is the subset whose
`host_info` has not been deleted. A use of a deleted `host_info` is undefined
behaviour. Where the code only reads it, in `get_route`, the action
`get_route_deleted` answers with any of the deleted hosts and the run goes on;
where it is written through, or the front of an empty list is taken,
`report_deleted`, `update_deleted` and `get_host_undefined` set `ub`, and the
handlers are not described after it. `Tick` lets time pass; ages saturate one beyond the
largest timeout, where no comparison can tell them apart. Error and success
rates are fractions (`ErrNum/ErrDen`), the code's are floats.

**DnsRoute** is the dns table, its poller, the database and the console's
requests. The contents of RouteData are named by the number of edits that made
them. `time.Now()` is read before the statement that uses it: a request notes in
`since` when it came to the call, and its statement may write any second from then
to the present one, so that a session can write an older version after a newer.
**RouteTable** is the promise it implements: one table, replaced as a whole, never
by an older one, and the same for a reader from the beginning of its copy to the
end.

**Subscribe** is the subscription lists, the pool threads that serve connections
and run push tasks, and the poller that publishes.

**ThreadPool** is the queue and task mechanism of the worker threads, and
**TcpServer** composes it with acceptance, hand-over, the table of connections
and their closing: one behaviour has the acceptor, the workers and the thread
that sends tasks. A pool of one thread is among the initial states.

**TcpClient** is the agent's side of a connection and its io_event, and
**ConfigFile** is the loading of a configuration file. **Agent** composes both
with the statements of `main`, the threads of the UDP servers, the queue of one
of the two clients (`role` says which), the modules as far as pulling goes, and
the server at the other end. A behaviour begins with the reading of any
configuration file of up to `MaxLines` lines.

**TcpConn** is the framing over a byte stream. **ReactorBuf** is the blocks of the
pool and the buffers that borrow them: a read or a message takes a block or
exchanges it for a larger one, a write takes bytes out and keeps the block, a
handled message takes bytes out and gives an empty block back, and `old` is a
block between the copy and its return. The
read that finds the end of the stream takes a block for no bytes.

**LarsProto** is `lars.pb.cc`: for each message type one table per generated
function (the new object, `clear`, `parse`, `write`, `size`, `merge`), and the
operators of the protobuf library that run the tables and produce bytes.
Nothing but the generator keeps the tables of a type in step, so a message is
encoded and decoded wherever a property is about its contents.
**Encoding** states what the programs rely on of it, and is kept apart from the
modules that TLC runs because it speaks of all messages.
**Reporter** is the reporter and what the agents' `commit` sends it. The shared
index is used, counted up and wrapped in steps of their own, each read and each
write one action, as `reporter_service.cpp:20-22` has them; a compiler may join
the two writes into one (g++ -O2, which the Makefile asks for, does), which leaves
fewer behaviours. **MCReporter** and **MCLarsApi** give the reports, hosts and
lists that TLC runs with; **MCReactorBuf** the blocks.
**LarsApi** is the API and the UDP servers of the agent; what a `route_lb`
answers is any answer it can give. Addresses are numbers as the database has them:
`lars_dns_insert.sql:3` and `utils.go:9-18` put the first octet into the highest
byte, and the agent prints them through `htonl` (`load_balance.cpp:241`).

**Console** is the web console: sessions, the filter, the login, and every
handler as the sequence of its steps, on the one `GlobalDB` all of them share.

Ghost variables record what a property needs and the code forgets: `remote`,
`unsent`, the fields `asked`, `of` and `freed` of an answer (LoadBalance),
`delivered`, `promised`, `fresh`, `sent`, `handled`, `made`, `ran`, `put`, `got`, `by`, `tries`, `source`, `row`, `note`, `calls`, `lost`, `dirty`, `excused`,
`first`, and flags that say a named exception has happened: `raced` (Subscribe),
`overwritten` and `early` (TcpClient), `withdrawn` (DnsRoute). `ub` says a step with
no defined outcome was taken; the handlers are not described after it. `popped`
of TcpConn is the code's own state (the head of the output block is not 0).

## What the runs check

Twelve runs, ten of which pass. A property that the code keeps except for one
known reason names that reason (`raced`, `overwritten`, `early`, `popped`, `ub`,
`freed`, `lost`, `excused`, `withdrawn`, `Hidden`), so that any other cause would
show. Such a property does not say that the reason never occurs: it does, the
actions model it, and the table of departures below lists it.

| run | property | says |
|---|---|---|
| load_balance | ListsPartitionHosts | every managed host is in exactly the list its flag names |
| | ThresholdsRespected | no host sits in a list whose leaving condition it meets |
| | WindowsAgree | judged and reported counters describe one window |
| | ServedHostsMatchDns | hosts handed out are in the last dns answer, and those known cover it |
| | ReporterUpToDate | the last message to the reporter has the present state of every managed host that is not newer than it |
| | AnswersAreCurrent | unless it read deleted objects, get_host answers with hosts of the dns answer in force and get_route with exactly those |
| | IdleHostsTakeTurns, OverloadedHostsProbed | no host of a list starves while clients ask |
| | OverloadWaitEnds | an overloaded host that keeps being reported on leaves the overload list |
| load_balance_served | DnsHostsServed | *violated*: a host removed and named again is never served |
| dns_route | ServesSnapshots | the double buffer implements RouteTable |
| | TableConverges | every edit comes to be served, with or without its version row, if readers leave the lock free again and again |
| | AnnouncedChangesPublished | changes the poller can see are published with their data, unless a later version hides them or the version is written back first |
| subscribe | BookedWhileOpen | the book list is the open connections' subscriptions |
| | OnlyEraseLosesPushes | a subscriber that is behind has a push coming, or the erase took it |
| | PushesArrive | pushes reach their subscribers |
| subscribe_lost | NoPushLost | *violated* by the unlocked erase |
| server | NoLostWakeup | a queue that is not empty has its eventfd readable |
| | InOrderExactlyOnce | no message is dropped, repeated or reordered |
| | OneOwner | one thread listens to a descriptor, and it is the one it was given |
| | TableInStep | the count is that of the table, and a task finds its loop's connections in it |
| | MessagesHandled | connections are made or refused, tasks are run by every thread |
| agent | PullOnItsWay | a module that waits for its route has a request or an answer on its way |
| | OnlyDnsQueueTooEarly | of the two queues only dns_queue can be used before it exists |
| | ConnectedIsServed | a connection comes to be read and the hook to be called |
| | SentAndAnswered | what is queued is written, and no module waits for ever |
| | PortIsConfigured | the port is the one the file says, by a reference reading of the file |
| tcp_conn | WholeMessagesInOrder | what is handled is a prefix of what was sent |
| | OnlyFailedBodyBreaks | only a body that did not fit breaks the stream |
| | OnlyLongBodyCloses | only a body beyond the limit makes the receiver close |
| | Delivered | messages arrive |
| reactor_buf | OnePlaceEach | a block has one place, and the memory count is exact and within the limit |
| | BytesInOrder | bytes keep their order through growth and partial consumption |
| reporter | RowHoldsReport | a row says what one report said about its host |
| | StoredOnce | the index names a queue except between its two writes; up to a use in between, no report is lost or stored twice |
| | BackOnlyAcrossThreads | a row goes back only when another thread writes it |
| lars_api | HostAnswersAreOwn | get_host takes its own answer |
| | ReturnsWhatWasSaid | a call returns what the agent said and nothing of an older answer; get_route gives the address, get_host gives it reversed |
| | ReportNamesHost | a report goes to the server that has the module, and names the host for an address from get_host, the reversed number for one from get_route |
| | CallsReturn | calls return unless a datagram is lost |
| console | AdmittedHasDatabase | no handler runs a statement without a database |
| | ChangesAnnounced | a change is announced, but for the named exceptions |

### Where the code departs from what it says

The actions model what the code does in each of these places. The first two
have a violation run; for the others the right column says what still holds, or
that nothing is claimed.

| the code | what it says | checked |
|---|---|---|
| `load_balance.cpp:89` deletes a host and keeps its key | `load_balance.cpp:55`: new hosts enter the idle list | DnsHostsServed violated |
| `subscribe.cpp:135` erases without the lock | `subscribe.h:39`: changed modules are published | NoPushLost violated; OnlyEraseLosesPushes holds |
| `load_balance.cpp:171-178` get_route reads deleted objects through their keys | `load_balance.h:41`: the hosts of the module | AnswersAreCurrent, for answers without one |
| `route_lb.cpp:26` deletes a module and tells the reporter nothing | `route_lb.cpp:121`: the result is reported | ReporterUpToDate, for hosts that are managed |
| `load_balance.cpp:312` looks at overload_timeout in a report only | `main_server.h:37`: the longest stay in the overload list | OverloadWaitEnds, for hosts reported on |
| `load_balance.cpp:232` compares with `>=` | `main_server.h:29`: "超过此值" (beyond this value) | ThresholdsRespected, with `>=` |
| `dns_route.cpp:314` selects no change row older than the version read | `subscribe.cpp:141`: every change is published | AnnouncedChangesPublished, for rows not older than the version announced |
| `modelFunc.go:87` writes the second it read before, also over a later one, and also back to the one that is loaded | `default.go:160`: the version tells of the change | AnnouncedChangesPublished, unless `withdrawn`; TableConverges by the timed reload |
| `dns_route.cpp:20` the lock prefers readers, and `swap` may wait for ever | `dns_route.cpp:221`: a reload when the last one is wait_time old | TableConverges, if readers leave the lock free again and again |
| `subscribe.cpp:28` leaves the push list of a closed connection | `subscribe.cpp:95`: pushes go to subscribers | BookedWhileOpen only speaks of the book list |
| `thread_pool.cpp:8` wraps at the last index | `thread_pool.cpp:97`: one thread is enough | MessagesHandled, with more than one thread; the last queue gets no connection |
| `tcp_server.cpp:304` compares a count that lags | `tcp_server.h:40`: the largest number of connections | TableInStep: count and table agree |
| `tcp_server.cpp:247` sizes the table by the limit | `tcp_server.h:21`: indexed by descriptor | TableInStep, up to the first write past the end |
| `tcp_client.cpp:85` replaces the callback that ends connecting | `tcp_client.cpp:229`: a new connection is read from | ConnectedIsServed, unless overwritten |
| `tcp_client.cpp:41` connects before the hook can be set | `dns_client.cpp:73`: the hook is to run when the connection is made | ConnectedIsServed: read, but without the hook |
| `tcp_client.cpp:199-200` reconnecting is commented out | `tcp_client.cpp:199`: "重新发起连接" (connect again) | PullOnItsWay and SentAndAnswered, while the connection lasts |
| `tcp_conn.cpp:98-109` pops an empty body from an empty buffer | `reactor_buf.cpp:23` asserts a buffer | Delivered excuses the stopped receiver |
| `tcp_conn.cpp:174-175` undoes a head at the wrong end | the intent of the undo | OnlyFailedBodyBreaks |
| `tcp_conn.cpp:144` sends bodies that `tcp_conn.cpp:83` refuses | `message.h:17` gives the limit | OnlyLongBodyCloses |
| `lars_api.cpp:219` get_route has no sequence number | `lars_api.h:30`: every message has a number that tells whether a datagram is its answer | HostAnswersAreOwn is about get_host |
| `lars_api.cpp:131-132` get_host prints a host-order number as one in network order, so the octets come out reversed; get_route turns it first (`lars_api.cpp:244`) and is right | `lars_api.h:19`: "得到可用的host ip和port" (the ip and port of a usable host) | ReturnsWhatWasSaid says which is which |
| `lars_api.cpp:151-153` report does not turn the address back, so it is understood for an address from get_host and not for one from get_route | `lars_api.h:25`: reports on a host | ReportNamesHost, each with its order |
| `reporter_service.cpp:21-22` writes the index twice without a lock, the first time perhaps beyond the queues | `reporter_service.cpp:18`: one of the threads gets the request | StoredOnce, up to a use in between |
| `main_server.cpp:47` starts the UDP servers before the queues are made | `main_server.cpp:50-65`: the queues are for them | OnlyDnsQueueTooEarly |
| `load_balance.cpp:342` every agent is caller 127 | `load_balance.cpp:341`: the present agent is the caller | RowHoldsReport: agents share a row, each row is one report |
| `config_file.cpp:98` a key before the first section goes through a null pointer | - | PortIsConfigured, for files without one |
| `default.go:114-126` announces no deletion, `default.go:213-215` no module a route is moved away from | `default.go:160`: "更新修改日志和版本信息" (update the change log and the version) | ChangesAnnounced names both |

### Bounds

The constants named `Max...` bound counters that the code leaves unbounded: calls,
reports, edits, swaps, restarts, messages, connections, seconds of the clock.
They are the reason for `CHECK_DEADLOCK FALSE`: a bounded run may come to its end.
LoadBalance needs no such end and is checked for deadlock.

- LoadBalance: two hosts, so that the lists rotate and one host may be idle while
  the other is overloaded; limits of 2 and rates of 2/3 and 2/5, so that rates and
  consecutive limits trigger separately; `probe_num` 1 and timeouts of 1, so that
  probes and expiries happen; two reports in a window. The proofs cover any
  number of hosts and any configuration.
- DnsRoute: two sessions, two edits and two clock values give every order of two
  requests' statements around a tick; one restart. Two readers can keep the lock
  between them; the proof of the refinement covers any number. The database is
  set up with the version of the first second (`lars_dns_insert.sql:8`). Seconds of
  the dns host pass only while the poller sleeps, because nothing looks at them in
  between.
- Subscribe: two publishes are what a race needs; one descriptor, used again and
  again, with two modules and two pool threads.
- TcpServer with ThreadPool: pools of one and of three threads, so that the wrap
  of the index shows; a limit of 2, three descriptors and three connections, so
  that a connection is refused, a descriptor is used again and one lies beyond
  the table; one task for every thread.
- Agent: two modules, three messages in a queue, two answers on their way; files
  of four lines reach a section that is taken up again and a key that is
  repeated, and 70000 is a port that does not fit.
- TcpConn: a head of two bytes, a body limit of two and an output limit of seven
  let a head fit where its body does not, and a socket of three bytes cuts heads
  and bodies everywhere. Bodies run from empty to one beyond the limit.
- ReactorBuf: blocks of 2 and 4, one of each at first, and a limit of 12 reach
  growth, copy and the limit; up to three bytes at once need a larger block.
  Buffer owners are symmetric.
- Reporter: two TCP threads, two storing threads, two reports of each of two
  agents about two hosts, the last one about none. The address is negative as an
  int, counts are 0 and 200, the flag changes from report to report: fields of no,
  one, two and ten bytes.
- LarsApi: one client with four calls to two modules of one server, so that an
  answer may be as late as three calls; sockets of two datagrams. The address is
  negative as an int and one `cmdid` is 0, which is not on the wire. Clients share
  no state but the server's socket.
- Console: two tabs, sessions, databases and modules, symmetric (the run checks
  safety only); four requests, two rows. A login stores two keys instead of five,
  which is as many as an interleaving between keys needs.

### Fairness

Weak fairness stands for threads that are scheduled: the poller, pool threads,
the client's loop, the agent's servers. Two steps are strongly fair. The write
lock of DnsRoute is obtained by a thread that waits for it while it is free again
and again; that it is, is not assumed but a premise of the two liveness
properties (`[]<>LockIsFree`), because the lock prefers readers and overlapping
ones can hold it for ever. And the push task of Subscribe is begun because a loop
runs its queued tasks after every batch of events, however many requests it
handles. In LoadBalance `AskedSpec` says that clients keep asking and time passes; OverloadWaitEnds itself assumes, for its host, that
reports on it keep coming, because nothing in the agent ends the wait without
one. TCP is assumed to move bytes while both ends are open, and a server that an
agent connects to answers or refuses, and reads what it is sent. Datagrams carry
no fairness: `lost` excuses a call. The acceptor and every worker keep running;
that connections are closed is not assumed. Reporter and Console state safety
only.

## What is proved

`RouteProofs` proves the safety properties of LoadBalance for every set of
hosts and every configuration that satisfies `LoadBalance`'s assumption (the
limits and counts are naturals, the rates are fractions, hosts are finitely
many). The inductive invariant `Inv` is the conjunction of the properties:
none is inductive alone. The lists are kept apart only because the flag names
the list (ListsPartitionHosts needs the types of the lists and of `info`),
removing a deleted host from a list needs that it occurs once, and the committed
results are current only because they are taken from lists that hold each
managed host. The proof has one lemma per action and one step per conjunct the
action can disturb. Lemmas about lists are shared by them: appending, rotating,
filtering and enumerating keep a list injective and change its set of elements
as expected. AnswersAreCurrent speaks of the answer together with the dns answer
that was in force when it was given, and is inductive with the lists; for a host
that is `unsent` ReporterUpToDate needs that it is as new_host_info made it.

`RouteProofs` also proves that DnsRoute implements RouteTable, for any readers,
sessions, edits, restarts and reload period, under the mapping that shows the
abstract table as the map `data_pointer` names, and what a reader has as the
present contents of the map it copies from. The refinement alone is not inductive,
because a swap is a step of the abstract table only if the other map is fit to be
served and no reader sees the difference. `DnsInv` adds that: the served map is
complete and not newer than the database, readers under the lock copy from the
served map, and a map about to be swapped in is complete and not older than the
one served.

`ConnProofs` proves BookedWhileOpen and OnlyEraseLosesPushes for any
descriptors, modules, pool threads and reloads, from one assumption: there is a
pool thread. OnlyEraseLosesPushes is not inductive. A change waits in the push
list, then among what a task has taken, and the erase after each push may drop
it there: whether the drop is the exception the property allows (`raced`) or a
change already sent depends on what was published since the list was taken.
`Unsent` says so: a mod in the push list of a subscriber that is behind was
published since, or is still to be sent, or its answer is. The invariant adds
that a thread works only for connections of its own loop (`OwnWork`), so that no
other thread sends or closes what it counts on, and that nothing is promised
that is newer than the route.

`TcpServerProofs` proves NoLostWakeup, OneOwner, TableInStep and
InOrderExactlyOnce for any number of threads, tasks, connections, descriptors and
any limit. The first three rest on one invariant: a descriptor that is in use is
held in exactly one place, which is the accepting thread, one message
(`OneMessage`) or one loop (`OneHolder`); a batch is dealt with before the loop
runs tasks (`LoopStep`); a thread makes and cleans connections of its own
(`OwnWork`); and the table has the connections that are made and not being cleaned
(`Table`), from which the count follows by adding and removing one element of a
finite set. OneOwner alone is not inductive: a second message with the same
descriptor would break it one step later. InOrderExactlyOnce follows from
`OrderInv`: of each type, what was handled, is ready, is in the batch and is in
the queue make up what was sent, and no connection waits among the tasks.

`ConnProofs` also proves WholeMessagesInOrder, OnlyLongBodyCloses and
OnlyFailedBodyBreaks for heads, bodies, limits and sockets of any size. The
invariant says of the bytes underway, in the receiver's buffer, the sockets and
the sender's buffer together, that each follows the one before it in what was
sent and that they begin with the head of the next message (`InStep`); while the
sender can write they also reach to the last byte sent (`ToTheEnd`). The length
do_read takes from the first bytes is then the length that was sent, and the
reading of a message takes away exactly that message.

`ReactorBufProofs` proves OnePlaceEach and BytesInOrder for any owners, sizes of
block, first blocks and memory limit. Of the first, that the lists are disjoint
is not enough: `Owned` says that no list and no other buffer has the block of a
buffer, or the one it is about to give back, and `Listed` that the lists hold
empty blocks of their own size, without which a borrowed block could come with
bytes in it or be too small. `Content` names the bytes that a block holds from
its head on by their number in the buffer's history. That the memory count is
the sum of the sizes is proved with the sum as a function of the number of blocks.

`ClientProofs` proves PullOnItsWay, OnlyDnsQueueTooEarly and PortIsConfigured for
any modules, queues, answers and pushes, and for configuration files of any
length. OnlyDnsQueueTooEarly needs `HostsAfterQueue`: hosts come through a
client, and both clients start after report_queue is made. PortIsConfigured is
proved by induction over the lines: the maps loaded so far `Agree` with the file
up to there, which means that a key has the value of the last line about it in its
section, that a key without one is in no map, and that `m` is the map of the
section the line is in.

`ClientProofs` also proves AdmittedHasDatabase and ChangesAnnounced for any tabs,
sessions, databases, modules and requests. `Opened` says why a handler has a
database: some session has a value only after a login opened one, and a restart
drops both. `Announced` says which request still has to write a change that is
not announced, and `Left` what is left of each handler, so that the request gets
there.

The sequence operators and sums of these modules are recursive functions or folds.
What they compute is proved where it is needed, for every input: that there is
such a function and only one, and then by a smallest counterexample, from the
well-foundedness of the naturals (lemma `Least`).

`LarsProtoProofs` proves `Faithful`: every message that the programs exchange, with
any int32 values, is written in as many bytes as ByteSizeLong says, and parsing
these, into an object that held another message before, gives the message back.
`VarintRead` says that the bytes of an int32, up to five of them or ten for a
negative one, are read back as the number. `InStep` says of a message type that the
tables of its generated functions agree, and is proved for each type in use;
`RoundTrip` follows from it for any type, going through the fields one by one.

`ExchangeProofs` proves, with `Faithful` as a hypothesis, the safety properties of
LarsApi and Reporter for any clients, agents, hosts, modules, threads, sockets and
numbers of calls and reports. For LarsApi, `ApiInv` says of each datagram which
call it belongs to and which message it is the encoding of: HostAnswersAreOwn
needs that two requests of a client have different numbers and that an answer has
that of its request, ReturnsWhatWasSaid that the bytes are those of the answer
noted, and ReportNamesHost that printing an address and reading it again give the
same number. For Reporter, `Inv` says that the requests in a thread's batch and
queue are in the order in which they arrived from each agent (`InOrder`), that a
report is with one thread (`OneThread`), which of its statements were made
(`Tried`), and that what was last written is not newer than what waits (`Newest`),
from which StoredOnce and BackOnlyAcrossThreads follow. `IndexNamesQueue` is
inductive with the types: whoever counts the index up is between its two writes until
it has wrapped it.

`LarsProofs` puts `Faithful` and these together: its six theorems have no
hypothesis.

Only model-checked: all liveness, which under fairness is outside TLAPS's reach
here. The bounds named `Max...` are constants like any other in the proofs, so that
what is proved holds for every number of calls, messages and edits.

## What is not modelled

- The headers of MySQL under `base/mysql-connector-c`: declarations of a library,
  20,210 of the 32,542 lines of source.
- Of the generated `lars.pb.cc` and `lars.pb.h`: swapping, arenas, descriptors,
  reflection and unknown fields, which nothing in the repository uses.
- Trimming the text of a configuration line, and its strings, floats and booleans.
- Floating point: rates are exact fractions.
- The contents of pages and of the module configuration: no other part reads
  them. Two things met while reading: the filter ends in a comment about
  initialising the database with nothing after it (`router.go:65`); nothing makes
  the tables of the module configuration, so a database without them answers each
  of those statements with an error.
- The loop of `event_process` over several descriptors of one `epoll_wait`: each
  event is a step of its own.
- Inputs no configuration or database of the repository has: `threadNum` 0, which
  leaves the pool pointer of `tcp_server.cpp:235` unset, and negative module
  numbers, for which `% 3` picks no queue (`dns_client.cpp:11`). Answers near
  the limit of a message, for which `udp_server.cpp:120` has no room behind the
  head: a module would need thousands of hosts. The growth of `obuf` while a
  connection is down (`tcp_client.cpp:63`): messages are bounded instead.
- `udp_client.cpp`, examples, tests, and functions without a caller (the echo
  callbacks of `tcp_server.cpp`, `publish_change_mod_test` of `dns_route.cpp`).

## Plan

Done: every part by itself; the agent composed of its start-up, configuration,
UDP servers, client and the server at the other end; the wire format under the
reporter and the API; the console; proofs of every safety property the passing
runs check.

Left:

1. Abstract specifications: a queue that ThreadPool implements and Reporter uses,
   a byte stream that ReactorBuf implements and TcpConn uses, a stream of messages
   that TcpConn implements.
2. Compose LoadBalance with Agent and Subscribe, to state what a lost connection
   or a lost push means for the hosts a caller is given. Each has some hundred
   thousand states by itself, so this needs the abstractions of step 1 first.
