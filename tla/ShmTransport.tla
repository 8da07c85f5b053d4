---------------------------- MODULE ShmTransport ----------------------------
(***************************************************************************)
(* The shared-memory transports of experiments/0.6: a request ring and a   *)
(* response ring in memfds, each with one producer, one consumer and an    *)
(* eventfd, and the socketpair they are measured against.                  *)
(*                                                                         *)
(* The atomics are release and acquire, so a store may linger in its       *)
(* thread's store buffer: Flush makes the oldest one visible.  An exchange *)
(* and a system call on the eventfd take place on an empty buffer.         *)
(* Copying a frame out of its slot and validating it in place make the     *)
(* same loads, so the two modes are one here; spinning before the sleep is *)
(* only a later Check.                                                     *)
(***************************************************************************)
EXTENDS Integers, Sequences

CONSTANTS Slots,            \* ring_slots: 8 in the code
          SocketCapacity,   \* half frames a socket buffers
          Rounds            \* bound: frames each way

ASSUME RingAssumption == {Slots, SocketCapacity, Rounds} \subseteq Nat \ {0}

Threads == {"client", "server"}
Rings == {"request", "response"}
Out(t) == IF t = "client" THEN "request" ELSE "response"
In(t) == IF t = "client" THEN "response" ELSE "request"

\* What a thread's frames travel through, and how its peer is woken:
\* the transport, framed and process probes, in the order of their files.
Modes == {"stream", "socket_stream", "framed", "socket_framed", "always", "conditional",
          "socket"}

Streaming == {"stream", "socket_stream"}   \* one way only
Sockets == {"socket_stream", "socket_framed", "socket"}
Handshake == {"always", "conditional", "socket"}   \* a child says that it is ready

Halves == {"head", "body"}
Locations == (Halves \X Rings \X (0..(Slots - 1)))
                 \cup ({"wseq", "rseq", "sleeping"} \X Rings \X {0})
                 \cup {<<"stats", "request", 0>>}

VARIABLES mode,      \* fixed for a behaviour
          mem,       \* the shared mappings
          buf,       \* each thread's stores that are not visible yet
          event,     \* the eventfd counters
          sock,      \* half frames in the socket, by direction
          control,   \* the last message on the control socket
          pc, round, \* where each thread is, and in which round
          part,      \* half frames sent or received through a socket
          got        \* the half frames a consumer has loaded

shared == <<mem, buf, event, sock>>
shmVars == <<mode, shared, control, pc, round, part, got>>

ShmTypeOK ==
    /\ mode \in Modes
    /\ mem \in [Locations -> 0..Rounds]
    /\ buf \in [Threads -> Seq([loc : Locations, val : 0..Rounds])]
    /\ event \in [Rings -> 0..Rounds]
    /\ sock \in [Rings -> Seq(1..Rounds)]
    /\ control \in {"none", "fds", "ready", "complete"}
    /\ pc \in [Threads -> {"setup", "ready", "write", "publish", "exchange", "signal", "check",
                           "announce", "recheck", "wait", "load", "release", "send", "receive",
                           "stats", "complete", "join", "done", "threw"}]
    /\ round \in [Threads -> 0..Rounds]
    /\ part \in [Threads -> 0..1]
    /\ got \in [Threads -> Seq(0..Rounds)]

ShmInit ==
    /\ mode \in Modes
    /\ mem = [l \in Locations |-> 0]
    /\ buf = [t \in Threads |-> <<>>] /\ got = buf
    /\ event = [r \in Rings |-> 0] /\ sock = [r \in Rings |-> <<>>]
    /\ control = "none"
    /\ pc = [t \in Threads |-> "setup"]
    /\ round = [t \in Threads |-> 0] /\ part = round

-----------------------------------------------------------------------------
\* Memory.

Jump(t, p) == pc' = [pc EXCEPT ![t] = p]
Drained(t) == buf[t] = <<>>
Slot(half, r, n) == <<half, r, n % Slots>>
Written(r) == mem[<<"wseq", r, 0>>]
Read(r) == mem[<<"rseq", r, 0>>]

Store(t, stores) == buf' = [buf EXCEPT ![t] = @ \o stores]

Assign(l, v) == [loc |-> l, val |-> v]

\* The oldest buffered store reaches memory.
Flush(t) ==
    /\ ~Drained(t)
    /\ LET store == Head(buf[t])
       IN  mem' = [mem EXCEPT ![store.loc] = store.val]
    /\ buf' = [buf EXCEPT ![t] = Tail(@)]
    /\ UNCHANGED <<mode, event, sock, control, pc, round, part, got>>

-----------------------------------------------------------------------------
\* Setup.  The server gets its descriptors, or a start flag; in another process
\* it reports back before the first frame.

FirstStep(t) ==
    IF mode \in Sockets THEN IF t = "client" THEN "send" ELSE "receive"
    ELSE IF t = "client" THEN "write" ELSE "check"

StartClient(modes, next) ==
    /\ pc["client"] = "setup" /\ mode \in modes
    /\ control' = "fds"
    /\ Jump("client", next)
    /\ UNCHANGED <<mode, shared, round, part, got>>

StartStream == StartClient(Streaming, FirstStep("client"))
StartFramed == StartClient({"framed"}, FirstStep("client"))
StartSocketFramed == StartClient({"socket_framed"}, FirstStep("client"))
StartProcess == StartClient({"always", "conditional"}, "ready")
StartSocketProcess == StartClient({"socket"}, "ready")

StartServer(modes) ==
    /\ pc["server"] = "setup" /\ control = "fds" /\ mode \in modes
    /\ Jump("server", FirstStep("server"))
    /\ UNCHANGED <<mode, shared, round, part, got>>

ServerThread == StartServer(Modes \ Handshake) /\ UNCHANGED control
ReceiveFds == StartServer(Handshake) /\ control' = "ready"

AwaitReady ==
    /\ pc["client"] = "ready" /\ control = "ready"
    /\ Jump("client", FirstStep("client"))
    /\ UNCHANGED <<mode, shared, control, round, part, got>>

-----------------------------------------------------------------------------
\* The loops of the probes: what follows a frame that was sent, or received.

EndRound(t) ==
    /\ round' = [round EXCEPT ![t] = @ + 1]
    /\ Jump(t, IF round[t] + 1 < Rounds THEN FirstStep(t)
               ELSE IF t = "client" THEN "join"
               ELSE IF mode \in {"always", "conditional"} THEN "stats" ELSE "complete")

Then(t, p) == Jump(t, p) /\ UNCHANGED round

StreamRound(t) == mode = "stream" /\ EndRound(t)
SocketStreamRound(t) == mode = "socket_stream" /\ EndRound(t)

FramedRound(t, sent) ==
    /\ mode = "framed"
    /\ IF sent = (t = "server") THEN EndRound(t) ELSE Then(t, IF sent THEN "check" ELSE "write")

SocketFramedRound(t, sent) ==
    /\ mode = "socket_framed"
    /\ IF sent = (t = "server") THEN EndRound(t) ELSE Then(t, IF sent THEN "receive" ELSE "send")

ParentRound(t, sent) ==
    /\ t = "client" /\ mode \in {"always", "conditional"}
    /\ IF sent THEN Then(t, "check") ELSE EndRound(t)

ChildRound(t, sent) ==
    /\ t = "server" /\ mode \in {"always", "conditional"}
    /\ IF sent THEN EndRound(t) ELSE Then(t, "write")

SocketParentRound(t, sent) ==
    /\ t = "client" /\ mode = "socket"
    /\ IF sent THEN Then(t, "receive") ELSE EndRound(t)

SocketChildRound(t, sent) ==
    /\ t = "server" /\ mode = "socket"
    /\ IF sent THEN EndRound(t) ELSE Then(t, "send")

After(t, sent) ==
    \/ StreamRound(t) \/ SocketStreamRound(t) \/ FramedRound(t, sent)
    \/ SocketFramedRound(t, sent)
    \/ ParentRound(t, sent) \/ ChildRound(t, sent)
    \/ SocketParentRound(t, sent) \/ SocketChildRound(t, sent)

-----------------------------------------------------------------------------
\* The producer of a ring: write_slot with write_frame, publish_slot.

\* write_frame, into the slot of the round.
FrameStores(t) ==
    <<Assign(Slot("head", Out(t), round[t]), round[t] + 1),
      Assign(Slot("body", Out(t), round[t]), round[t] + 1)>>

\* The producer spins while the ring is full.
RingFull(t) == round[t] - Read(Out(t)) >= Slots

\* Faulty: one frame more than there are slots.
WriteFull(t) ==
    /\ pc[t] = "write"
    /\ round[t] - Read(Out(t)) <= Slots
    /\ Store(t, FrameStores(t))
    /\ Jump(t, "publish")
    /\ UNCHANGED <<mode, mem, event, sock, control, round, part, got>>

Write(t) ==
    /\ pc[t] = "write"
    /\ ~RingFull(t)
    /\ Store(t, FrameStores(t))
    /\ Jump(t, "publish")
    /\ UNCHANGED <<mode, mem, event, sock, control, round, part, got>>

Publish(t) ==
    /\ pc[t] = "publish"
    /\ Store(t, <<Assign(<<"wseq", Out(t), 0>>, round[t] + 1)>>)
    /\ Jump(t, IF mode = "conditional" THEN "exchange" ELSE "signal")
    /\ UNCHANGED <<mode, mem, event, sock, control, round, part, got>>

\* The exchange on sleeping, an atomic read-modify-write.
Exchange(t) ==
    /\ pc[t] = "exchange" /\ Drained(t)
    /\ mem' = [mem EXCEPT ![<<"sleeping", Out(t), 0>>] = 0]
    /\ IF mem[<<"sleeping", Out(t), 0>>] # 0 THEN Jump(t, "signal") /\ UNCHANGED round
       ELSE After(t, TRUE)
    /\ UNCHANGED <<mode, buf, event, sock, control, part, got>>

SignalEvent(t) ==
    /\ pc[t] = "signal" /\ Drained(t)
    /\ event' = [event EXCEPT ![Out(t)] = @ + 1]
    /\ After(t, TRUE)
    /\ UNCHANGED <<mode, mem, buf, sock, control, part, got>>

-----------------------------------------------------------------------------
\* The consumer of a ring: read_slot with validate_frame, release_slot.

Check(t) ==
    /\ pc[t] = "check"
    /\ Jump(t, IF round[t] < Written(In(t)) THEN "load"
               ELSE IF mode = "conditional" THEN "announce" ELSE "wait")
    /\ UNCHANGED <<mode, shared, control, round, part, got>>

\* Faulty: a plain store where the code has an exchange.
AnnounceStore(t) ==
    /\ pc[t] = "announce"
    /\ Store(t, <<Assign(<<"sleeping", In(t), 0>>, 1)>>)
    /\ Jump(t, "recheck")
    /\ UNCHANGED <<mode, mem, event, sock, control, round, part, got>>

Announce(t) ==
    /\ pc[t] = "announce" /\ Drained(t)
    /\ mem' = [mem EXCEPT ![<<"sleeping", In(t), 0>>] = 1]
    /\ Jump(t, "recheck")
    /\ UNCHANGED <<mode, buf, event, sock, control, round, part, got>>

Recheck(t) ==
    /\ pc[t] = "recheck"
    /\ \/ /\ round[t] < Written(In(t))
          /\ Store(t, <<Assign(<<"sleeping", In(t), 0>>, 0)>>)
          /\ Jump(t, "check")
       \/ /\ round[t] >= Written(In(t))
          /\ Jump(t, "wait") /\ UNCHANGED buf
    /\ UNCHANGED <<mode, mem, event, sock, control, round, part, got>>

\* The read of the eventfd returns the count and clears it.
WaitForEvent(t) ==
    /\ pc[t] = "wait" /\ event[In(t)] > 0
    /\ event' = [event EXCEPT ![In(t)] = 0]
    /\ Store(t, <<Assign(<<"sleeping", In(t), 0>>, 0)>>)
    /\ Jump(t, "check")
    /\ UNCHANGED <<mode, mem, sock, control, round, part, got>>

Valid(t, frame) == frame = <<round[t] + 1, round[t] + 1>>

\* The two halves of the frame are loaded one after the other.
Load(t) ==
    /\ pc[t] = "load"
    /\ LET half == IF got[t] = <<>> THEN "head" ELSE "body"
           frame == Append(got[t], mem[Slot(half, In(t), round[t])])
       IN  IF half = "head"
           THEN got' = [got EXCEPT ![t] = frame] /\ UNCHANGED pc
           ELSE got' = [got EXCEPT ![t] = <<>>]
                /\ Jump(t, IF Valid(t, frame) THEN "release" ELSE "threw")
    /\ UNCHANGED <<mode, shared, control, round, part>>

Release(t) ==
    /\ pc[t] = "release"
    /\ Store(t, <<Assign(<<"rseq", In(t), 0>>, round[t] + 1)>>)
    /\ After(t, FALSE)
    /\ UNCHANGED <<mode, mem, event, sock, control, part, got>>

-----------------------------------------------------------------------------
\* The socket: write_exact and read_exact move a part of the frame at a time.

WriteExact(t) ==
    /\ pc[t] = "send" /\ Len(sock[Out(t)]) < SocketCapacity
    /\ sock' = [sock EXCEPT ![Out(t)] = Append(@, round[t] + 1)]
    /\ part' = [part EXCEPT ![t] = 1 - @]
    /\ IF part[t] = 0 THEN UNCHANGED <<pc, round>> ELSE After(t, TRUE)
    /\ UNCHANGED <<mode, mem, buf, event, control, got>>

ReadExact(t) ==
    /\ pc[t] = "receive" /\ sock[In(t)] # <<>>
    /\ sock' = [sock EXCEPT ![In(t)] = Tail(@)]
    /\ LET frame == Append(got[t], Head(sock[In(t)]))
       IN  IF Len(frame) = 1 THEN got' = [got EXCEPT ![t] = frame] /\ UNCHANGED <<pc, round>>
           ELSE /\ got' = [got EXCEPT ![t] = <<>>]
                /\ IF Valid(t, frame) THEN After(t, FALSE)
                   ELSE Jump(t, "threw") /\ UNCHANGED round
    /\ UNCHANGED <<mode, mem, buf, event, control, part>>

-----------------------------------------------------------------------------
\* The end: the server leaves its statistics in the mapping and says that it is
\* complete (through its socket: both in one message), or its thread ends; the client joins it.

Stats ==
    /\ pc["server"] = "stats"
    /\ Store("server", <<Assign(<<"stats", "request", 0>>, 1)>>)
    /\ Jump("server", "complete")
    /\ UNCHANGED <<mode, mem, event, sock, control, round, part, got>>

Complete ==
    /\ pc["server"] = "complete" /\ Drained("server")
    /\ control' = "complete"
    /\ Jump("server", "done")
    /\ UNCHANGED <<mode, shared, round, part, got>>

Join ==
    /\ pc["client"] = "join" /\ control = "complete"
    /\ Jump("client", "done")
    /\ UNCHANGED <<mode, shared, control, round, part, got>>

Step(t) ==
    \/ Write(t) \/ Publish(t) \/ Exchange(t) \/ SignalEvent(t)
    \/ Check(t) \/ Announce(t) \/ Recheck(t) \/ WaitForEvent(t) \/ Load(t) \/ Release(t)
    \/ WriteExact(t) \/ ReadExact(t)

Client ==
    \/ StartStream \/ StartFramed \/ StartSocketFramed \/ StartProcess \/ StartSocketProcess
    \/ AwaitReady
    \/ Step("client") \/ Join

Server == ServerThread \/ ReceiveFds \/ Step("server") \/ Stats \/ Complete

ShmNext == Client \/ Server \/ \E t \in Threads : Flush(t)

ShmSpec == ShmInit /\ [][ShmNext]_shmVars

\* Both threads run, and a store does not stay in a store buffer for ever.
ShmFairness ==
    /\ WF_shmVars(Client) /\ WF_shmVars(Server)
    /\ \A t \in Threads : WF_shmVars(Flush(t))

ShmFairSpec == ShmSpec /\ ShmFairness

-----------------------------------------------------------------------------
\* Properties.

\* validate_frame never throws: every frame is the one of its round, and both
\* halves belong together, however stores are delayed and slots are used again.
FramesIntact == \A t \in Threads : pc[t] # "threw"

\* Every transport that starts finishes all rounds, with or without unconditional
\* wakes, and both sides end.
RunEnds == pc["client"] # "setup" ~> \A t \in Threads : pc[t] = "done"
=============================================================================
