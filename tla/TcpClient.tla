----------------------------- MODULE TcpClient -----------------------------
(***************************************************************************)
(* A tcp_client (tcp_client.cpp) and its registrations with the event loop *)
(* (event_loop.cpp).  All of it runs in one thread; what interleaves is    *)
(* the network and the loop's choice of the next event.  Agent.tla says    *)
(* who sends through it and what its hook and its router call.             *)
(*                                                                         *)
(* obuf is the sequence of messages not yet written.  What the client does *)
(* with the bytes it reads is in TcpConn.tla.                              *)
(***************************************************************************)
EXTENDS Naturals, Sequences

VARIABLES
    started,        \* the constructor has returned and the hook is set
    peer,           \* the socket as the kernel sees it
    inbox,          \* messages that have come and are not read
    outbox,         \* messages written that the peer has not read
    mask, read_callback, write_callback,    \* the io_event of _sockfd
    in_epoll,       \* _sockfd is registered with epoll, under that mask
    obuf,
    hook,           \* _conn_start_cb has been called
    early,          \* history: connected before the hook was set
    overwritten     \* history: send_message replaced connection_succ

event == <<mask, read_callback, write_callback, in_epoll>>
socket == <<peer, inbox, outbox>>
past == <<hook, early, overwritten>>
client == <<started, socket, event, obuf, past>>

NoEvent == [mask |-> {}, rcb |-> "none", wcb |-> "none", epoll |-> {}]
Event == [mask |-> mask, rcb |-> read_callback, wcb |-> write_callback, epoll |-> in_epoll]
SetEvent(e) == /\ mask' = e.mask /\ read_callback' = e.rcb
               /\ write_callback' = e.wcb /\ in_epoll' = e.epoll

-----------------------------------------------------------------------------
(* event_loop                                                              *)

\* epoll_ctl fails on a descriptor that has been closed; the io_event is
\* changed all the same.
add_io_event(e, cb, bit) ==
    LET m == e.mask \cup {bit}
    IN  [mask |-> m,
         rcb |-> IF bit = "EPOLLIN" THEN cb ELSE e.rcb,
         wcb |-> IF bit = "EPOLLOUT" THEN cb ELSE e.wcb,
         epoll |-> IF peer = "closed" THEN e.epoll ELSE m]

\* Mutant: one bit takes the whole event along.
del_io_event_All(e, bit) == NoEvent

\* The event goes when no bit is left.
del_io_event(e, bit) ==
    IF e.mask = {bit} THEN NoEvent
    ELSE [e EXCEPT !.mask = @ \ {bit}, !.epoll = @ \ {bit}]

-----------------------------------------------------------------------------
(* tcp_client                                                              *)

\* Mutant: the events are added only if there is something to write.
Established_IfSending ==
    LET reads == add_io_event(NoEvent, "read_callback", "EPOLLIN")
    IN  IF obuf # <<>> THEN add_io_event(reads, "write_callback", "EPOLLOUT") ELSE NoEvent

\* The events connection_succ leaves after a hook that sends nothing.
Established ==
    LET reads == add_io_event(NoEvent, "read_callback", "EPOLLIN")
    IN  IF obuf # <<>> THEN add_io_event(reads, "write_callback", "EPOLLOUT") ELSE reads

\* do_connect in the constructor: the connection may be there at once, which
\* is before set_conn_start.
do_connect_done ==
    /\ peer = "none"
    /\ peer' = "connected" /\ early' = TRUE
    /\ SetEvent(Established)
    /\ UNCHANGED <<started, inbox, outbox, obuf, hook, overwritten>>

do_connect ==
    /\ peer = "none"
    /\ peer' = "connecting"
    /\ SetEvent(add_io_event(NoEvent, "connection_succ", "EPOLLOUT"))
    /\ UNCHANGED <<started, inbox, outbox, obuf, past>>

\* set_callback, add_msg_router, set_conn_start, event_process.
start ==
    /\ ~started /\ peer # "none"
    /\ started' = TRUE
    /\ UNCHANGED <<socket, event, obuf, past>>

Activates == obuf = <<>>

\* send_message for each of the messages: only the first finds obuf empty.
send_messages(msgs) ==
    /\ obuf' = obuf \o msgs
    /\ IF Activates /\ msgs # <<>>
       THEN /\ SetEvent(add_io_event(Event, "write_callback", "EPOLLOUT"))
            /\ overwritten' = (overwritten \/ write_callback = "connection_succ")
       ELSE UNCHANGED <<event, overwritten>>
    /\ UNCHANGED <<started, socket, hook, early>>

\* epoll reports the socket writable; the connection was established, and the
\* peer may have closed its end since.  h: there is a hook to call.
connection_succ(h) ==
    /\ started /\ peer \in {"connected", "reset"} /\ "EPOLLOUT" \in in_epoll
    /\ write_callback = "connection_succ"
    /\ hook' = h
    /\ SetEvent(Established)
    /\ UNCHANGED <<started, socket, obuf, early, overwritten>>

\* epoll reports an error; SO_ERROR is set and the event is left deleted.
connection_fail ==
    /\ started /\ peer \in {"refused", "reset"} /\ "EPOLLOUT" \in in_epoll
    /\ write_callback = "connection_succ"
    /\ SetEvent(NoEvent)
    /\ UNCHANGED <<started, socket, obuf, past>>

\* event_process looks at EPOLLOUT only if EPOLLIN was not reported.
ReadFirst == "EPOLLIN" \in in_epoll /\ (inbox # <<>> \/ peer = "reset")

\* The socket takes some of the messages, also just after the peer closed its
\* end; the event goes when it took all.
do_write(n) ==
    /\ started /\ peer \in {"connected", "reset"} /\ "EPOLLOUT" \in in_epoll /\ ~ReadFirst
    /\ write_callback = "write_callback" /\ n <= Len(obuf)
    /\ obuf' = SubSeq(obuf, n + 1, Len(obuf))
    /\ outbox' = outbox \o SubSeq(obuf, 1, n)
    /\ SetEvent(IF n = Len(obuf) THEN del_io_event(Event, "EPOLLOUT") ELSE Event)
    /\ UNCHANGED <<started, peer, inbox, past>>

\* clean_conn: del_io_event and close.  _sockfd keeps its number, and the
\* call of do_connect is commented out.
clean_conn ==
    /\ SetEvent(NoEvent) /\ peer' = "closed" /\ inbox' = <<>> /\ outbox' = <<>>
    /\ UNCHANGED <<started, obuf, past>>

\* write2fd returns an error.
do_write_error ==
    /\ started /\ peer \in {"refused", "reset"} /\ "EPOLLOUT" \in in_epoll
    /\ write_callback = "write_callback" /\ obuf # <<>> /\ ~ReadFirst
    /\ clean_conn

\* read_data, and the router is called with the next message.  The peer may
\* have closed its end after the message.
do_read ==
    /\ started /\ peer \in {"connected", "reset"} /\ inbox # <<>> /\ "EPOLLIN" \in in_epoll
    /\ inbox' = Tail(inbox)
    /\ UNCHANGED <<started, peer, outbox, event, obuf, past>>

\* read_data returns -1 or 0.
do_read_end ==
    /\ started /\ peer = "reset" /\ inbox = <<>> /\ "EPOLLIN" \in in_epoll
    /\ clean_conn

-----------------------------------------------------------------------------
(* The network                                                             *)

Answer == /\ peer = "connecting"
          /\ peer' \in {"connected", "refused"}
          /\ UNCHANGED <<started, inbox, outbox, event, obuf, past>>

\* The peer closes its end, or the connection breaks and what has come is
\* lost with it.
Reset == /\ peer = "connected"
         /\ peer' = "reset" /\ inbox' \in {inbox, <<>>} /\ outbox' = <<>>
         /\ UNCHANGED <<started, event, obuf, past>>

-----------------------------------------------------------------------------

ClientInit ==
    /\ started = FALSE /\ peer = "none" /\ inbox = <<>> /\ outbox = <<>> /\ obuf = <<>>
    /\ mask = {} /\ read_callback = "none" /\ write_callback = "none" /\ in_epoll = {}
    /\ hook = FALSE /\ early = FALSE /\ overwritten = FALSE
=============================================================================
