----------------------------- MODULE ReactorBuf -----------------------------
(***************************************************************************)
(* The buffers of the reactor: the io_buf blocks (io_buf.cpp) that         *)
(* buf_pool (buf_pool.cpp) lends to the input_buf and output_buf of every  *)
(* connection (reactor_buf.cpp).  Connections live in different threads    *)
(* and share the pool; alloc_buf and revert run under its mutex and are    *)
(* separate steps of an operation that needs both.                         *)
(*                                                                         *)
(* Sizes are small numbers; the sizes of the pool's lists are Cap.  The    *)
(* bytes put into a buffer are numbered, so that what comes out can be     *)
(* told.  A byte never written is Garbage.                                 *)
(***************************************************************************)
EXTENDS Integers, Sequences, Functions, FiniteSets, FiniteSetsExt

CONSTANTS
    Owner,          \* input_buf and output_buf objects
    Cap,            \* the sizes of the lists: m4K .. m8M
    InitialSizes,   \* the sizes of the blocks that make_io_buf_list makes
    MEM_LIMIT,
    MaxChunk,       \* bound: bytes put in at once
    MaxBytes        \* bound: bytes put into one buffer

ASSUME BufAssumption ==
    /\ Cap \subseteq Nat \ {0} /\ Cap # {} /\ InitialSizes \in Seq(Cap)
    /\ MEM_LIMIT \in Nat /\ MaxChunk \in Nat /\ MaxBytes \in Nat

VARIABLES
    blocks,         \* every io_buf made so far
    pool,           \* buf_pool::_pool: the free blocks of each size
    total_mem,
    buf,            \* reactor_buf::_buf
    old,            \* block being reverted
    exited,         \* the process has exited for want of memory
    put, got        \* history: bytes put into and taken out of a buffer

vars == <<blocks, pool, total_mem, buf, old, exited, put, got>>

NULL == 0
Garbage == 0
io_buf(size) == [capacity |-> size, length |-> 0, head |-> 0,
                 data |-> [i \in 1 .. size |-> Garbage]]

-----------------------------------------------------------------------------
(* io_buf                                                                  *)

io_pop(b, len) == [b EXCEPT !.length = @ - len, !.head = @ + len]

\* Mutant: the bytes are not moved to the front.
adjust_HeadOnly(b) == [b EXCEPT !.head = 0]

\* memmove of the bytes not yet handled to the front.
adjust(b) == [b EXCEPT !.head = 0, !.data =
                 [i \in DOMAIN @ |-> IF i <= b.length THEN @[b.head + i] ELSE @[i]]]

copy(b, other) ==
    [b EXCEPT !.head = 0, !.length = other.length, !.data =
        [i \in DOMAIN @ |-> IF i <= other.length THEN other.data[other.head + i] ELSE @[i]]]

\* memcpy or read to data + length.
filled(b, bytes) ==
    [b EXCEPT !.length = @ + Len(bytes), !.data =
        [i \in DOMAIN @ |-> IF i \in b.length + 1 .. b.length + Len(bytes)
                            THEN bytes[i - b.length] ELSE @[i]]]

-----------------------------------------------------------------------------
(* buf_pool                                                                *)

Fits(n) == {c \in Cap : n <= c}
Index(n) == Min(Fits(n))

TooMuch(c) == pool[c] = <<>> /\ total_mem + c >= MEM_LIMIT

\* Mutant: the block stays at the head of its list.
alloc_free_Keep(c) == [id |-> Head(pool[c]), blocks |-> blocks,
                       pool |-> pool, mem |-> total_mem]

\* The block alloc_buf returns, the blocks and the pool it leaves.  A block
\* that comes from a list keeps its old bytes.
alloc_new(c) == [id |-> Len(blocks) + 1, blocks |-> Append(blocks, io_buf(c)),
                 pool |-> pool, mem |-> total_mem + c]
alloc_free(c) == [id |-> Head(pool[c]), blocks |-> blocks,
                  pool |-> [pool EXCEPT ![c] = Tail(@)], mem |-> total_mem]

alloc_buf(c) == IF pool[c] = <<>> THEN alloc_new(c) ELSE alloc_free(c)

emptied(b) == [b EXCEPT !.length = 0, !.head = 0]
revert(id) ==
    /\ blocks' = [blocks EXCEPT ![id] = emptied(@)]
    /\ pool' = [pool EXCEPT ![blocks[id].capacity] = <<id>> \o @]

-----------------------------------------------------------------------------
(* reactor_buf: input_buf::read_data and output_buf::send_data             *)

Bytes(o, n) == [i \in 1 .. n |-> put[o] + i]

Room(o) == blocks[buf[o]].capacity - blocks[buf[o]].length
Busy(o) == exited \/ old[o] # NULL

\* What read_data, send_data and write2fd assert of the block.  The failed
\* send_message that leaves one popped is in TcpConn.
Adjusted(o) == buf[o] # NULL => blocks[buf[o]].head = 0

\* There is room in the block.
send_data(o, n) ==
    /\ ~Busy(o) /\ Adjusted(o) /\ put[o] + n <= MaxBytes
    /\ buf[o] # NULL /\ n <= Room(o)
    /\ blocks' = [blocks EXCEPT ![buf[o]] = filled(@, Bytes(o, n))]
    /\ put' = [put EXCEPT ![o] = @ + n]
    /\ UNCHANGED <<pool, total_mem, buf, old, exited, got>>

Needed(o, n) == IF buf[o] = NULL THEN n ELSE n + blocks[buf[o]].length

\* There is no block, or a larger one is needed: alloc_buf, copy, and the
\* revert of the old block is still to come.  At the end of a stream read_data
\* takes a block for no bytes.
send_data_alloc(o, n) ==
    LET c == Index(Needed(o, n))
        a == alloc_buf(c)
        new == IF buf[o] = NULL THEN a.blocks[a.id] ELSE copy(a.blocks[a.id], blocks[buf[o]])
    IN  /\ ~Busy(o) /\ Adjusted(o) /\ put[o] + n <= MaxBytes
        /\ buf[o] # NULL => n > Room(o)
        /\ Fits(Needed(o, n)) # {} /\ ~TooMuch(c)
        /\ blocks' = [a.blocks EXCEPT ![a.id] = filled(new, Bytes(o, n))]
        /\ pool' = a.pool /\ total_mem' = a.mem
        /\ buf' = [buf EXCEPT ![o] = a.id] /\ old' = [old EXCEPT ![o] = buf[o]]
        /\ put' = [put EXCEPT ![o] = @ + n]
        /\ UNCHANGED <<exited, got>>

\* alloc_buf exits the process.
send_data_exit(o, n) ==
    /\ ~Busy(o) /\ Adjusted(o) /\ put[o] + n <= MaxBytes
    /\ buf[o] # NULL => n > Room(o)
    /\ Fits(Needed(o, n)) # {} /\ TooMuch(Index(Needed(o, n)))
    /\ exited' = TRUE
    /\ UNCHANGED <<blocks, pool, total_mem, buf, old, put, got>>

send_data_revert(o) ==
    /\ ~exited /\ old[o] # NULL
    /\ revert(old[o])
    /\ old' = [old EXCEPT ![o] = NULL]
    /\ UNCHANGED <<total_mem, buf, exited, put, got>>

\* output_buf::write2fd: io_buf::pop and adjust; an empty block is kept.
write2fd(o, n) ==
    /\ ~Busy(o) /\ Adjusted(o) /\ buf[o] # NULL /\ n \in 1 .. blocks[buf[o]].length
    /\ blocks' = [blocks EXCEPT ![buf[o]] = adjust(io_pop(@, n))]
    /\ got' = [got EXCEPT ![o] = @ + n]
    /\ UNCHANGED <<pool, total_mem, buf, old, exited, put>>

\* reactor_buf::pop of a part, and the input_buf::adjust that ends do_read.
pop(o, n) ==
    /\ ~Busy(o) /\ buf[o] # NULL /\ n \in 1 .. blocks[buf[o]].length - 1
    /\ blocks' = [blocks EXCEPT ![buf[o]] = io_pop(@, n)]
    /\ got' = [got EXCEPT ![o] = @ + n]
    /\ UNCHANGED <<pool, total_mem, buf, old, exited, put>>

input_adjust(o) ==
    /\ ~Busy(o) /\ buf[o] # NULL /\ ~Adjusted(o)
    /\ blocks' = [blocks EXCEPT ![buf[o]] = adjust(@)]
    /\ UNCHANGED <<pool, total_mem, buf, old, exited, put, got>>

\* reactor_buf::pop of everything, which gives the block back.
pop_all(o) ==
    /\ ~Busy(o) /\ buf[o] # NULL
    /\ got' = [got EXCEPT ![o] = @ + blocks[buf[o]].length]
    /\ revert(buf[o])
    /\ buf' = [buf EXCEPT ![o] = NULL]
    /\ UNCHANGED <<total_mem, old, exited, put>>

-----------------------------------------------------------------------------

\* The memory of some blocks.
Memory(bs) ==
    LET sum[i \in 0 .. Len(bs)] == IF i = 0 THEN 0 ELSE sum[i - 1] + bs[i].capacity
    IN  sum[Len(bs)]

InitialBlocks == [i \in 1 .. Len(InitialSizes) |-> io_buf(InitialSizes[i])]
OfSize(c) == {i \in 1 .. Len(InitialSizes) : InitialSizes[i] = c}

ASSUME LimitAssumption == Memory(InitialBlocks) < MEM_LIMIT

\* The lists hold the blocks of their size.  Nothing depends on the order.
Orders(S) == Bijection(1 .. Cardinality(S), S)
Lists == {p \in [Cap -> UNION {Orders(OfSize(c)) : c \in Cap}] :
            \A c \in Cap : p[c] \in Orders(OfSize(c))}

Init ==
    /\ blocks = InitialBlocks
    /\ pool \in Lists
    /\ total_mem = Memory(blocks)
    /\ buf = [o \in Owner |-> NULL] /\ old = [o \in Owner |-> NULL]
    /\ exited = FALSE
    /\ put = [o \in Owner |-> 0] /\ got = [o \in Owner |-> 0]

Next ==
    \E o \in Owner :
        \/ \E n \in 0 .. MaxChunk : \/ send_data(o, n) \/ send_data_alloc(o, n)
                                    \/ send_data_exit(o, n)
        \/ send_data_revert(o) \/ pop_all(o) \/ input_adjust(o)
        \/ \E n \in 1 .. MaxBytes : write2fd(o, n) \/ pop(o, n)

Spec == Init /\ [][Next]_vars

-----------------------------------------------------------------------------
(* Properties                                                              *)

\* A block has one place: it is in the list of its size, once, or it is the
\* block of one buffer, or the one that buffer is giving back.  Nothing is
\* lost, lent twice or put into a wrong list, and _total_mem counts every block
\* ever made and stays below the limit (buf_pool.cpp:58-151).
InLists(id) == UNION {{<<c, i>> : i \in {i \in DOMAIN pool[c] : pool[c][i] = id}}
                        : c \in {c \in Cap : blocks[id].capacity = c}}
AsBuf(id) == {<<o, "buf">> : o \in {o \in Owner : buf[o] = id}}
AsOld(id) == {<<o, "old">> : o \in {o \in Owner : old[o] = id}}
Places(id) == InLists(id) \cup AsBuf(id) \cup AsOld(id)
OnePlaceEach ==
    /\ \A id \in DOMAIN blocks : Cardinality(Places(id)) = 1
    /\ total_mem = Memory(blocks)
    /\ total_mem < MEM_LIMIT

\* A buffer is a queue of bytes, whatever blocks it has moved through: its
\* contents are the bytes put in and not yet taken out, in order
\* (reactor_buf.cpp:59-227, io_buf.cpp:27-53).
Contents(o) == IF buf[o] = NULL THEN <<>>
               ELSE LET b == blocks[buf[o]] IN SubSeq(b.data, b.head + 1, b.head + b.length)
BytesInOrder ==
    \A o \in Owner : Contents(o) = [i \in 1 .. put[o] - got[o] |-> got[o] + i]
=============================================================================
