------------------------------ MODULE ByteStream ------------------------------
(***************************************************************************)
(* The bytes of one direction of a socket, from the buffers of a gathered  *)
(* write to the reads of the other end.  A write is a sequence of parts,   *)
(* any of them empty, which the socket takes in pieces of any size.  The   *)
(* other end reads exact sizes: through the read-ahead buffer of a client  *)
(* (BufferedReader), or, for a worker that leased a connection, first from *)
(* the bytes the reactor had read and then from the socket without reading *)
(* ahead (StreamByteSource).                                               *)
(*                                                                         *)
(* The bytes are numbered in the order they are handed to the writer.      *)
(***************************************************************************)
EXTENDS Integers, SequencesExt, FiniteSetsExt

CONSTANTS
    Capacity,       \* read_ahead_capacity
    Room,           \* bytes the socket holds
    Plans           \* what is written and read: see Init

VARIABLES
    plan,           \* the member of Plans
    writes,         \* the writes that are not finished, as parts that are sequences of bytes
    socket,         \* bytes written and not read
    hungUp,         \* the writer is gone
    demands,        \* sizes of the reads that have not begun
    need,           \* bytes the current read lacks
    direct,         \* it is in read_direct
    buffer,         \* bytes read ahead
    got,            \* bytes delivered to the reads
    failed          \* a read threw

vars == <<plan, writes, socket, hungUp, demands, need, direct, buffer, got, failed>>

Sum(sizes) == FoldLeft(LAMBDA x, y : x + y, 0, sizes)
Bytes(first, size) == [i \in 1..size |-> first + i - 1]

\* The parts of a write whose first byte has the number first.
Parts(first, sizes) ==
    [i \in DOMAIN sizes |-> Bytes(first + Sum(SubSeq(sizes, 1, i - 1)), sizes[i])]

\* The lease begins with the first plan.lead bytes read by the reactor, the client
\* with none.
Init ==
    /\ plan \in Plans
    /\ writes = [i \in DOMAIN plan.writes |->
                    Parts(plan.lead + 1 + Sum([j \in 1..(i - 1) |-> Sum(plan.writes[j])]),
                          plan.writes[i])]
    /\ socket = <<>> /\ hungUp = FALSE
    /\ demands = plan.reads /\ need = 0 /\ direct = FALSE
    /\ buffer = Bytes(1, plan.lead)
    /\ got = <<>> /\ failed = FALSE

\* Faulty: the part that was sent in part is sent again from its start.
AdvanceWhole(parts, n) ==
    FoldLeft(LAMBDA acc, p : IF acc.left >= Len(p) THEN [acc EXCEPT !.left = @ - Len(p)]
                             ELSE [left |-> 0, parts |-> Append(acc.parts, p)],
             [left |-> n, parts |-> <<>>], parts).parts

\* What is left of the parts after n bytes of them were sent.
Advance(parts, n) ==
    FoldLeft(LAMBDA acc, p : IF acc.left >= Len(p) THEN [acc EXCEPT !.left = @ - Len(p)]
                             ELSE [left |-> 0,
                                   parts |-> Append(acc.parts, SubSeq(p, acc.left + 1, Len(p)))],
             [left |-> n, parts |-> <<>>], parts).parts

\* One call of sendmsg; the write returns when no part has a byte left.
WriteSome ==
    /\ ~hungUp /\ writes # <<>>
    /\ LET parts == Head(writes)
           all == FlattenSeq(parts)
       IN  \E n \in (IF all = <<>> THEN {0} ELSE 1..Min({Len(all), Room - Len(socket)})) :
               /\ socket' = socket \o SubSeq(all, 1, n)
               /\ LET rest == Advance(parts, n)
                  IN  writes' = IF rest = <<>> THEN Tail(writes) ELSE <<rest>> \o Tail(writes)
    /\ UNCHANGED <<plan, hungUp, demands, need, direct, buffer, got, failed>>

WriterCloses ==
    /\ ~hungUp
    /\ hungUp' = TRUE
    /\ UNCHANGED <<plan, writes, socket, demands, need, direct, buffer, got, failed>>

ReadBegins ==
    /\ need = 0 /\ demands # <<>> /\ ~failed
    /\ need' = Head(demands) /\ demands' = Tail(demands)
    /\ direct' = FALSE
    /\ UNCHANGED <<plan, writes, socket, hungUp, buffer, got, failed>>

\* The bytes at hand come first, for the client and for the lease.
FromBuffer ==
    /\ need > 0 /\ ~direct /\ ~failed /\ buffer # <<>>
    /\ LET take == Min({need, Len(buffer)})
       IN  /\ got' = got \o SubSeq(buffer, 1, take)
           /\ buffer' = SubSeq(buffer, take + 1, Len(buffer))
           /\ need' = need - take
    /\ UNCHANGED <<plan, writes, socket, hungUp, demands, direct, failed>>

\* A read that lacks as much as the buffer could hold bypasses it, to its end; the
\* lease has no buffer to fill.
WantsDirect == buffer = <<>> /\ (plan.lease \/ direct \/ need >= Capacity)

ReceiveDirect ==
    /\ need > 0 /\ ~failed /\ WantsDirect /\ socket # <<>>
    /\ \E n \in 1..Min({need, Len(socket)}) :
          /\ got' = got \o SubSeq(socket, 1, n)
          /\ socket' = SubSeq(socket, n + 1, Len(socket))
          /\ need' = need - n
    /\ direct' = TRUE
    /\ UNCHANGED <<plan, writes, hungUp, demands, buffer, failed>>

\* One recv into the empty buffer.
Fill ==
    /\ need > 0 /\ ~failed /\ buffer = <<>> /\ ~WantsDirect /\ socket # <<>>
    /\ \E n \in 1..Min({Capacity, Len(socket)}) :
          /\ buffer' = SubSeq(socket, 1, n)
          /\ socket' = SubSeq(socket, n + 1, Len(socket))
    /\ UNCHANGED <<plan, writes, hungUp, demands, need, direct, got, failed>>

\* recv returns 0.
EndOfStream ==
    /\ need > 0 /\ ~failed /\ buffer = <<>> /\ socket = <<>> /\ hungUp
    /\ failed' = TRUE
    /\ UNCHANGED <<plan, writes, socket, hungUp, demands, need, direct, buffer, got>>

Progress == WriteSome \/ ReadBegins \/ FromBuffer \/ ReceiveDirect \/ Fill \/ EndOfStream

\* Nothing more is asked of the reader.
Ended == failed \/ (need = 0 /\ demands = <<>>)

Next == Progress \/ WriterCloses \/ (Ended /\ UNCHANGED vars)

-----------------------------------------------------------------------------
Unsent == FlattenSeq([i \in DOMAIN writes |-> FlattenSeq(writes[i])])
Total == plan.lead + Sum([i \in DOMAIN plan.writes |-> Sum(plan.writes[i])])

\* No byte is lost, repeated or overtaken between the parts of a write and the reads
\* of the other end, whatever pieces the socket takes and gives
\* (write_iovecs_exact, BufferedReader, StreamByteSource).
BytesInOrder == got \o buffer \o socket \o Unsent = Bytes(1, Total)

=============================================================================
