------------------------------ MODULE TcpConn ------------------------------
(***************************************************************************)
(* Messages over one TCP connection of the reactor: send_message and       *)
(* do_write at one end, do_read at the other (tcp_conn.cpp; tcp_client.cpp *)
(* has the same code).  A message is a head of MESSAGE_HEAD_LEN bytes that *)
(* says how long the body is, and the body; TCP delivers the bytes in      *)
(* order but cuts them anywhere.                                           *)
(*                                                                         *)
(* obuf and ibuf are the queues of bytes that ReactorBuf shows them to be; *)
(* obuf can hold OutLimit bytes (alloc_buf returns NULL beyond m8M).  The  *)
(* failure of an assert is the end of the process.                         *)
(***************************************************************************)
EXTENDS Integers, Sequences

CONSTANTS
    MESSAGE_HEAD_LEN,
    MESSAGE_LENGTH_LIMIT,
    Length,             \* lengths of the bodies that are sent
    OutLimit,           \* the largest block of the pool
    SocketLimit,        \* bytes the sockets hold between the two ends
    MaxMsgs             \* bound: messages sent

ASSUME ConnAssumption ==
    /\ MESSAGE_HEAD_LEN \in Nat \ {0} /\ MESSAGE_LENGTH_LIMIT \in Nat
    /\ Length \subseteq Nat /\ OutLimit \in Nat \ {0} /\ SocketLimit \in Nat \ {0}
    /\ MaxMsgs \in Nat

VARIABLES
    sent,           \* history: lengths of the messages send_message accepted
    handled,        \* history: the messages router.call was given
    obuf, popped,   \* the output bytes; io_buf::head is not 0
    net,            \* bytes in the sockets
    ibuf,
    pc,             \* where the receiver is in do_read
    out,            \* EPOLLOUT is registered by the sender
    sender, receiver    \* "open", "closed" or the assert that failed

vars == <<sent, handled, obuf, popped, net, ibuf, pc, out, sender, receiver>>

Ends == {"open", "closed", "head", "pop"}

\* The bytes of message m: the head tells the length to whoever has all of it.
Byte(m, len, i) == [msg |-> m, msglen |-> len, at |-> i]
HeadOf(m, len) == [i \in 1 .. MESSAGE_HEAD_LEN |-> Byte(m, len, i)]
BodyOf(m, len) == [i \in 1 .. len |-> Byte(m, len, MESSAGE_HEAD_LEN + i)]
Drop(s, n) == SubSeq(s, n + 1, Len(s))

-----------------------------------------------------------------------------
(* The sending end                                                         *)

\* output_buf::send_data asserts that io_buf::head is 0.
send_assert ==
    /\ sender = "open" /\ Len(sent) < MaxMsgs
    /\ popped /\ obuf # <<>>
    /\ sender' = "head"
    /\ UNCHANGED <<sent, handled, obuf, popped, net, ibuf, pc, out, receiver>>

Room(len) == Len(obuf) + MESSAGE_HEAD_LEN + len <= OutLimit

CanSend == sender = "open" /\ Len(sent) < MaxMsgs /\ ~popped

send_message(len) ==
    LET m == Len(sent) + 1 IN
    /\ CanSend
    /\ Room(len)
    /\ obuf' = obuf \o HeadOf(m, len) \o BodyOf(m, len)
    /\ sent' = Append(sent, len)
    /\ out' = (out \/ obuf = <<>>)
    /\ UNCHANGED <<handled, popped, net, ibuf, pc, sender, receiver>>

\* There is room for the head and none for the body: obuf.pop takes bytes
\* from the front of obuf.  A buffer that becomes empty gives its block back.
send_message_fails(len) ==
    LET m == Len(sent) + 1 IN
    /\ CanSend
    /\ Room(0) /\ ~Room(len)
    /\ obuf' = Drop(obuf \o HeadOf(m, len), MESSAGE_HEAD_LEN)
    /\ popped' = (obuf' # <<>>)
    /\ UNCHANGED <<sent, handled, net, ibuf, pc, out, sender, receiver>>

\* Mutant: what was written stays in obuf.
do_write_Again(n) ==
    /\ sender = "open" /\ receiver = "open" /\ out /\ ~popped
    /\ n \in 1 .. Len(obuf) /\ Len(net) + n <= SocketLimit
    /\ net' = net \o SubSeq(obuf, 1, n)
    /\ out' = (n # Len(obuf))
    /\ UNCHANGED <<sent, handled, obuf, popped, ibuf, pc, sender, receiver>>

\* Some of the bytes go out; when all have, EPOLLOUT is removed.
do_write(n) ==
    /\ sender = "open" /\ receiver = "open" /\ out /\ ~popped
    /\ n \in 1 .. Len(obuf) /\ Len(net) + n <= SocketLimit
    /\ net' = net \o SubSeq(obuf, 1, n)
    /\ obuf' = Drop(obuf, n)
    /\ out' = (n # Len(obuf))
    /\ UNCHANGED <<sent, handled, popped, ibuf, pc, sender, receiver>>

\* output_buf::write2fd asserts that io_buf::head is 0.
do_write_assert ==
    /\ sender = "open" /\ out /\ popped /\ obuf # <<>>
    /\ sender' = "head"
    /\ UNCHANGED <<sent, handled, obuf, popped, net, ibuf, pc, out, receiver>>

\* write or read fails, or read returns 0, since the other end is gone.
sender_clean_conn ==
    /\ sender = "open" /\ receiver # "open"
    /\ sender' = "closed" /\ obuf' = <<>> /\ popped' = FALSE /\ out' = FALSE
    /\ UNCHANGED <<sent, handled, net, ibuf, pc, receiver>>

-----------------------------------------------------------------------------
(* The receiving end                                                       *)

\* input_buf::read_data reads what the socket holds.
read_data(n) ==
    /\ receiver = "open" /\ pc = "epoll"
    /\ n \in 1 .. Len(net)
    /\ ibuf' = ibuf \o SubSeq(net, 1, n)
    /\ net' = Drop(net, n)
    /\ pc' = "loop"
    /\ UNCHANGED <<sent, handled, obuf, popped, out, sender, receiver>>

Head1 == ibuf[1].msglen
HasHead == Len(ibuf) >= MESSAGE_HEAD_LEN

\* Mutant: a message that fills what is left of ibuf waits for more.
Whole_Strict == Len(ibuf) > MESSAGE_HEAD_LEN + Head1

Whole == Len(ibuf) >= MESSAGE_HEAD_LEN + Head1

\* Mutant: the body is popped without the head.
do_read_BodyOnly ==
    /\ receiver = "open" /\ pc = "loop" /\ HasHead
    /\ Head1 <= MESSAGE_LENGTH_LIMIT /\ Whole
    /\ Len(ibuf) > MESSAGE_HEAD_LEN
    /\ handled' = Append(handled, SubSeq(ibuf, 1, MESSAGE_HEAD_LEN + Head1))
    /\ ibuf' = Drop(ibuf, Head1)
    /\ UNCHANGED <<sent, obuf, popped, net, pc, out, sender, receiver>>

\* One round of the loop: pop of the head, router.call, pop of the body.
do_read ==
    /\ receiver = "open" /\ pc = "loop" /\ HasHead
    /\ Head1 <= MESSAGE_LENGTH_LIMIT /\ Whole
    /\ Len(ibuf) > MESSAGE_HEAD_LEN
    /\ handled' = Append(handled, SubSeq(ibuf, 1, MESSAGE_HEAD_LEN + Head1))
    /\ ibuf' = Drop(ibuf, MESSAGE_HEAD_LEN + Head1)
    /\ UNCHANGED <<sent, obuf, popped, net, pc, out, sender, receiver>>

\* The head was all there is: its pop gave the block back, so that _buf is
\* NULL when the pop of the empty body asserts that it is not.
do_read_assert ==
    /\ receiver = "open" /\ pc = "loop" /\ Len(ibuf) = MESSAGE_HEAD_LEN
    /\ Head1 <= MESSAGE_LENGTH_LIMIT /\ Whole
    /\ handled' = Append(handled, ibuf) /\ ibuf' = <<>>
    /\ receiver' = "pop"
    /\ UNCHANGED <<sent, obuf, popped, net, pc, out, sender>>

\* The rest is not a whole message: adjust, and back to the event loop.
do_read_end ==
    /\ receiver = "open" /\ pc = "loop"
    /\ HasHead => Head1 <= MESSAGE_LENGTH_LIMIT /\ ~Whole
    /\ pc' = "epoll"
    /\ UNCHANGED <<sent, handled, obuf, popped, net, ibuf, out, sender, receiver>>

\* Mutant: a body of the largest length is refused.
receiver_clean_conn_AtLimit ==
    /\ receiver = "open"
    /\ \/ pc = "loop" /\ HasHead /\ Head1 >= MESSAGE_LENGTH_LIMIT
       \/ pc = "epoll" /\ sender # "open" /\ net = <<>>
    /\ receiver' = "closed" /\ ibuf' = <<>> /\ pc' = "epoll"
    /\ UNCHANGED <<sent, handled, obuf, popped, net, out, sender>>

\* The length in the head is beyond the limit, or the other end has closed.
receiver_clean_conn ==
    /\ receiver = "open"
    /\ \/ pc = "loop" /\ HasHead /\ Head1 > MESSAGE_LENGTH_LIMIT
       \/ pc = "epoll" /\ sender # "open" /\ net = <<>>
    /\ receiver' = "closed" /\ ibuf' = <<>> /\ pc' = "epoll"
    /\ UNCHANGED <<sent, handled, obuf, popped, net, out, sender>>

-----------------------------------------------------------------------------

Init ==
    /\ sent = <<>> /\ handled = <<>>
    /\ obuf = <<>> /\ popped = FALSE /\ net = <<>> /\ ibuf = <<>>
    /\ pc = "epoll" /\ out = FALSE
    /\ sender = "open" /\ receiver = "open"

Write == do_write_assert \/ sender_clean_conn \/ \E n \in 1 .. SocketLimit : do_write(n)
Receive == \/ do_read \/ do_read_assert \/ do_read_end \/ receiver_clean_conn
           \/ \E n \in 1 .. SocketLimit : read_data(n)

Next ==
    \/ \E len \in Length : send_message(len) \/ send_message_fails(len)
    \/ send_assert
    \/ Write
    \/ Receive

Spec == Init /\ [][Next]_vars

\* The event loop of each end runs the handlers of the events that are
\* there; nothing makes anybody send.
FairSpec == Spec /\ WF_vars(Write) /\ WF_vars(Receive)

-----------------------------------------------------------------------------
(* Properties                                                              *)

\* The sequences of seqs one after the other.
Flatten(seqs) ==
    LET flat[i \in 0 .. Len(seqs)] == IF i = 0 THEN <<>> ELSE flat[i - 1] \o seqs[i]
    IN  flat[Len(seqs)]

Message(m) == HeadOf(m, sent[m]) \o BodyOf(m, sent[m])
Stream == Flatten([m \in 1 .. Len(sent) |-> Message(m)])
OnTheWay == Flatten(handled) \o ibuf \o net \o obuf

\* The bytes handled, held by the buffers and held by the sockets are the
\* messages send_message accepted, none missing, while both ends are open.
\* (tcp_conn.cpp:161-177.)  A failed send_message breaks this: see the next.
StreamIntact == sender = "open" /\ receiver = "open" => OnTheWay = Stream

\* Only a message whose body found no room breaks the stream.
OnlyFailedBodyBreaks == popped \/ StreamIntact

\* Every message handed to the router is one that was sent, whole, and in
\* the order of sending, however TCP cuts the bytes (tcp_conn.cpp:79-110).
WholeMessagesInOrder ==
    /\ Len(handled) <= Len(sent)
    /\ \A m \in 1 .. Len(handled) : handled[m] = Message(m)

\* A message that send_message has accepted is handled, unless an end closes
\* or stops.  (tcp_conn.cpp:58-141.)
Delivered ==
    \A m \in 1 .. MaxMsgs :
        Len(sent) >= m ~> \/ Len(handled) >= m
                          \/ sender # "open" \/ receiver # "open"

\* The receiver closes a connection whose sender is open only if a body longer
\* than the limit was sent or a failed send broke the stream: do_read never
\* takes other bytes for a head (tcp_conn.cpp:79-110).
OnlyLongBodyCloses ==
    receiver = "closed" /\ sender = "open" /\ ~popped =>
        \E m \in 1 .. Len(sent) : sent[m] > MESSAGE_LENGTH_LIMIT
=============================================================================
