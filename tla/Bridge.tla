------------------------------- MODULE Bridge -------------------------------
(***************************************************************************)
(* The F-Stack bridge of the relay (fstack-bridge/src/bridge.rs): one      *)
(* driver thread that owns every socket, and the tokio side, which never   *)
(* touches one.  Events go through the RX ring, commands through the TX    *)
(* ring.  The driver's loop drains the TX ring, flushes what it has        *)
(* parked, wakes a writer, takes a batch of kernel events and delivers     *)
(* what did not fit in the RX ring.  On the other side bridge_worker hands *)
(* events to the task of each connection, by fd.                           *)
(*                                                                         *)
(* A connection is the value of the accept counter when it was accepted,   *)
(* its generation.  Data are units numbered per connection and direction.  *)
(* Left out: the listeners (see RelayRegistry), the buffer pool and the    *)
(* recycling of receive buffers, the byte budget of the TX ring (its slots *)
(* stand for both), the rate of handshakes and the address table of the    *)
(* admission policy (a refusal for any reason).                            *)
(***************************************************************************)
EXTENDS Integers, Sequences, FiniteSets, SequencesExt

CONSTANTS
    MaxPeers,   \* bound: connections accepted
    MaxFd,      \* bound: sockets open at one time
    MaxSlots,   \* max_connections of the admission policy
    TxCap,      \* slots of the TX ring
    RxCap,      \* slots of the RX ring; PENDING_RX holds as many more
    InboxCap,   \* BRIDGE_RX_CAP of a connection's channel
    ParkBudget, \* MAX_PENDING_SEND_BYTES, in units
    OwedCap,    \* MAX_CONN_PENDING_BYTES, in units
    Size,       \* units of a write
    MaxWrites,  \* bound: writes of each connection
    MaxChunks   \* bound: units received from each peer

ASSUME BridgeAssumption ==
    /\ {MaxPeers, MaxFd, MaxSlots, TxCap, RxCap, InboxCap, OwedCap, Size} \subseteq Nat \ {0}
    /\ ParkBudget \in Nat
    /\ MaxWrites \in [1..MaxPeers -> Nat] /\ MaxChunks \in [1..MaxPeers -> Nat]

Fd  == 1..MaxFd
Gen == 1..MaxPeers

VARIABLES
    owner,      \* driver, FD_GEN: the connection that owns each fd, 0 for none
    accepts,    \* driver, ACCEPTS
    slots,      \* driver, admission policy: connections counted as active
    parked,     \* driver, PENDING_SEND: the writes each fd has yet to take
    late,       \* driver, PENDING_RX
    phase,      \* driver: where its loop is
    batch,      \* driver: the sockets the phase has yet to look at
    tx,         \* the TX ring
    rx,         \* the RX ring
    owed,       \* tx_pending of each connection
    waker,      \* TX_SPACE: the task it wakes, 0 for none
    conns,      \* bridge_worker: the connection each fd's data go to, 0 for none
    inbox,      \* the channel of each connection
    task,       \* the ws_task of each connection
    fdOf,       \* the fd each task was given
    writes,     \* writes each task has made
    wire,       \* history: units written to each open socket
    taken,      \* history: units received from each open socket
    heard,      \* history: units each live task has read
    overrun     \* history: an event was lost, or overtook another

sockets == <<owner, accepts, slots>>
inward  == <<late, rx, overrun>>
outward == <<parked, owed, wire>>
loop    == <<phase, batch>>
tokio   == <<conns, inbox, task, fdOf, writes, heard>>

bridgeVars == <<sockets, inward, outward, loop, tokio, tx, waker, taken>>

BridgeInit ==
    /\ owner = [f \in Fd |-> 0] /\ accepts = 0 /\ slots = 0
    /\ parked = [f \in Fd |-> <<>>] /\ late = <<>>
    /\ phase = "drain" /\ batch = <<>>
    /\ tx = <<>> /\ rx = <<>>
    /\ owed = [g \in Gen |-> 0] /\ waker = 0
    /\ conns = [f \in Fd |-> 0] /\ inbox = [g \in Gen |-> <<>>]
    /\ task = [g \in Gen |-> "none"] /\ fdOf = [g \in Gen |-> 0]
    /\ writes = [g \in Gen |-> 0]
    /\ wire = [g \in Gen |-> <<>>] /\ taken = [g \in Gen |-> 0]
    /\ heard = [g \in Gen |-> <<>>] /\ overrun = FALSE

-----------------------------------------------------------------------------
(* Driver: what its steps share.                                           *)

\* Mutant: PENDING_RX takes any number of events.
LostNever == FALSE

\* push_rx: the ring, else PENDING_RX, else the event is lost.  An event that
\* finds room in the ring passes those parked before it.
Lost == Len(rx) = RxCap /\ Len(late) = RxCap

PushRx(ev) ==
    /\ rx' = IF Len(rx) < RxCap THEN Append(rx, ev) ELSE rx
    /\ late' = IF Len(rx) < RxCap \/ Lost THEN late ELSE Append(late, ev)
    /\ overrun' = (overrun \/ Lost \/ (Len(rx) < RxCap /\ late # <<>>))

\* The units a write has yet to put on the wire, and those of a backlog.
Units(p) == p.upto - p.from + 1
Total(q) == SumFunction([i \in DOMAIN q |-> Units(q[i])])

\* Mutant: bytes on the wire are not taken off the counter.
RepayNothing(g, n) == UNCHANGED owed

\* A counter goes with the task that reads it.
Repay(g, n) == owed' = IF task[g] = "ended" THEN owed ELSE [owed EXCEPT ![g] = @ - n]

\* close_fd, on an fd that may have been closed, or reused, since its event.  Of
\* the bytes owed, n are dropped here.
CloseFd(f, n) ==
    LET g == owner[f] IN
    /\ PushRx([kind |-> "closed", fd |-> f])
    /\ UNCHANGED accepts
    /\ IF g = 0
       THEN UNCHANGED <<owner, slots, outward, taken>>
       ELSE /\ owner' = [owner EXCEPT ![f] = 0]
            /\ slots' = slots - 1
            /\ parked' = [parked EXCEPT ![f] = <<>>]
            /\ Repay(g, n)
            /\ wire' = [wire EXCEPT ![g] = <<>>]
            /\ taken' = [taken EXCEPT ![g] = 0]

\* PENDING_SEND_BYTES.
Fits(n) == SumFunction([f \in Fd |-> Total(parked[f])]) + n <= ParkBudget

\* ff_write gives the socket the first k units.
PutOnWire(p, k) ==
    wire' = [wire EXCEPT ![owner[p.fd]] = @ \o [i \in 1..k |-> <<p.gen, p.from + i - 1>>]]

Rest(p, k) == [p EXCEPT !.from = @ + k]

ParkFront(p) == parked' = [parked EXCEPT ![p.fd] = <<p>> \o @]
Park(p)      == parked' = [parked EXCEPT ![p.fd] = Append(@, p)]

-----------------------------------------------------------------------------
(* Driver: drain_tx.                                                       *)

\* Mutant: any connection will do, so long as the fd is open.
CurrentAnyone(c) == owner[c.fd] # 0

\* The command comes from the connection that has the fd.
Current(c) == owner[c.fd] = c.gen

SendStale(p) ==
    /\ ~Current(p)
    /\ Repay(p.gen, Units(p))
    /\ UNCHANGED <<sockets, inward, parked, wire, taken>>

\* Behind the backlog if there is one; a write beyond the budget closes the fd.
SendBehind(p) ==
    /\ Current(p)
    /\ parked[p.fd] # <<>>
    /\ IF Fits(Units(p))
       THEN Park(p) /\ UNCHANGED <<owed, wire, sockets, inward, taken>>
       ELSE CloseFd(p.fd, Total(parked[p.fd]))

\* Mutant: a write does not wait behind the backlog.
SendOvertaking(p) ==
    /\ Current(p)
    /\ \E k \in 0..Units(p) :
        IF k < Units(p) /\ ~Fits(Units(p) - k)
        THEN CloseFd(p.fd, k)
        ELSE /\ PutOnWire(p, k)
             /\ Repay(p.gen, k)
             /\ IF k = Units(p) THEN UNCHANGED parked ELSE ParkFront(Rest(p, k))
             /\ UNCHANGED <<sockets, inward, taken>>

\* Straight to the socket, which takes all, some or nothing of it.
SendNow(p) ==
    /\ Current(p)
    /\ parked[p.fd] = <<>>
    /\ \E k \in 0..Units(p) :
        IF k < Units(p) /\ ~Fits(Units(p) - k)
        THEN CloseFd(p.fd, k)
        ELSE /\ PutOnWire(p, k)
             /\ Repay(p.gen, k)
             /\ IF k = Units(p) THEN UNCHANGED parked ELSE ParkFront(Rest(p, k))
             /\ UNCHANGED <<sockets, inward, taken>>

SendFails(p) ==
    /\ Current(p)
    /\ parked[p.fd] = <<>>
    /\ CloseFd(p.fd, Units(p))

\* Cmd::Close.
CloseAsked(c) ==
    IF Current(c)
    THEN CloseFd(c.fd, Total(parked[c.fd]))
    ELSE UNCHANGED <<sockets, inward, outward, taken>>

Drain ==
    /\ phase = "drain"
    /\ tx # <<>>
    /\ tx' = Tail(tx)
    /\ LET c == Head(tx) IN
       \/ c.kind = "send" /\ (SendStale(c) \/ SendBehind(c) \/ SendNow(c) \/ SendFails(c))
       \/ c.kind = "close" /\ CloseAsked(c)
    /\ UNCHANGED <<loop, tokio, waker>>

-----------------------------------------------------------------------------
(* Driver: the rest of its loop.                                           *)

\* A socket to look at, and the filter that reports it.
Event(filter, f, eof) == [filter |-> filter, fd |-> f, eof |-> eof]

Backlogged == {f \in Fd : parked[f] # <<>>}

\* The ring is empty: flush_all_pending_send.
Drained ==
    /\ phase = "drain" /\ phase' = "flush"
    /\ tx = <<>>
    /\ batch' \in SetToSeqs({Event("write", f, FALSE) : f \in Backlogged})
    /\ UNCHANGED <<sockets, inward, outward, tokio, tx, waker, taken>>

\* TX_SPACE.wake, then what kqueue reports, in any order: open sockets, of which
\* some have data and some are at their end (on either filter), and the listener.
Poll ==
    /\ phase = "flush" /\ phase' = "events"
    /\ batch = <<>>
    /\ waker' = 0
    /\ task' = [g \in Gen |-> IF g = waker /\ task[g] = "parked" THEN "idle" ELSE task[g]]
    /\ \E ended \in SUBSET {f \in Fd : owner[f] # 0} :
           batch' \in SetToSeqs(
               {Event("read", f, f \in ended) :
                    f \in {f \in Fd : owner[f] # 0 /\ (f \in ended \/ taken[owner[f]] < MaxChunks[owner[f]])}}
               \cup {Event("write", f, f \in ended) : f \in Backlogged}
               \cup {Event("accept", 0, FALSE) : n \in accepts + 1..MaxPeers})
    /\ UNCHANGED <<sockets, inward, outward, conns, inbox, fdOf, writes, heard, tx, taken>>

\* The batch is done; events parked in PENDING_RX follow as the ring has room.
Deliver ==
    /\ phase = "events"
    /\ batch = <<>>
    /\ IF late # <<>> /\ Len(rx) < RxCap
       THEN rx' = Append(rx, Head(late)) /\ late' = Tail(late) /\ UNCHANGED phase
       ELSE phase' = "drain" /\ UNCHANGED <<rx, late>>
    /\ UNCHANGED <<sockets, overrun, outward, batch, tokio, tx, waker, taken>>

\* accept_pending: the lowest free fd, if the admission policy takes the peer.  An
\* accept whose event is lost is undone.
Admit(f) ==
    LET g == accepts + 1 IN
    /\ owner[f] = 0 /\ \A e \in 1..f - 1 : owner[e] # 0
    /\ accepts < MaxPeers
    /\ slots < MaxSlots
    /\ accepts' = g
    /\ PushRx([kind |-> "accept", fd |-> f, gen |-> g])
    /\ IF Lost
       THEN UNCHANGED <<owner, slots>>
       ELSE owner' = [owner EXCEPT ![f] = g] /\ slots' = slots + 1
    /\ UNCHANGED <<outward, taken>>

\* zc_read: data, the end of the stream, or nothing (also on an fd closed since).
Receive(f) ==
    LET g == owner[f] IN
    /\ g # 0
    /\ taken[g] < MaxChunks[g]
    /\ taken' = [taken EXCEPT ![g] = @ + 1]
    /\ PushRx([kind |-> "data", fd |-> f, unit |-> <<g, taken[g] + 1>>])
    /\ UNCHANGED <<sockets, outward>>

ZcRead(f) ==
    \/ Receive(f)
    \/ owner[f] # 0 /\ CloseFd(f, Total(parked[f]))
    \/ UNCHANGED <<sockets, inward, outward, taken>>

\* flush_write, one write of the backlog: all of it and on to the next...
FlushAll(f) ==
    LET p == Head(parked[f]) IN
    /\ PutOnWire(p, Units(p))
    /\ Repay(p.gen, Units(p))
    /\ parked' = [parked EXCEPT ![f] = Tail(@)]
    /\ UNCHANGED <<sockets, inward, taken>>

\* ...a part of it, the rest being parked again, or an error, or nothing for ten
\* seconds (which are counted only while another write waits behind).
FlushPart(f) ==
    LET p == Head(parked[f]) IN
    \/ \E k \in 0..Units(p) - 1 :
           /\ PutOnWire(p, k)
           /\ Repay(p.gen, k)
           /\ parked' = [parked EXCEPT ![f] = <<Rest(p, k)>> \o Tail(@)]
           /\ UNCHANGED <<sockets, inward, taken>>
    \/ CloseFd(f, Total(parked[f]))

\* The next socket of the batch.
Service ==
    /\ batch # <<>>
    /\ LET e    == Head(batch)
           done == batch' = Tail(batch)
           flushing == e.filter = "write" /\ ~e.eof /\ parked[e.fd] # <<>>
       IN
       \/ e.filter = "accept" /\ UNCHANGED batch /\ \E f \in Fd : Admit(f)
       \/ /\ done  \* no other peer waits, or the policy turns it away
          /\ e.filter = "accept" \/ (e.filter = "write" /\ ~e.eof /\ ~flushing)
          /\ UNCHANGED <<sockets, inward, outward, taken>>
       \/ e.eof /\ done /\ CloseFd(e.fd, IF owner[e.fd] = 0 THEN 0 ELSE Total(parked[e.fd]))
       \/ e.filter = "read" /\ ~e.eof /\ done /\ ZcRead(e.fd)
       \/ flushing /\ ((UNCHANGED batch /\ FlushAll(e.fd)) \/ (done /\ FlushPart(e.fd)))
    /\ UNCHANGED <<phase, tokio, tx, waker>>

-----------------------------------------------------------------------------
(* Tokio.                                                                  *)

\* bridge_worker: the next event of the ring.  A full channel is dropped, which
\* ends the connection's stream; data no channel takes are dropped too.
Dispatch ==
    /\ rx # <<>>
    /\ rx' = Tail(rx)
    /\ LET ev == Head(rx)
           g  == conns[ev.fd]
       IN
       \/ /\ ev.kind = "accept"
          /\ conns' = [conns EXCEPT ![ev.fd] = ev.gen]
          /\ task' = [task EXCEPT ![ev.gen] = "idle"]
          /\ fdOf' = [fdOf EXCEPT ![ev.gen] = ev.fd]
          /\ UNCHANGED inbox
       \/ /\ ev.kind = "closed"
          /\ conns' = [conns EXCEPT ![ev.fd] = 0]
          /\ UNCHANGED <<inbox, task, fdOf>>
       \/ /\ ev.kind = "data"
          /\ IF g # 0 /\ task[g] # "ended" /\ Len(inbox[g]) = InboxCap
             THEN conns' = [conns EXCEPT ![ev.fd] = 0] /\ UNCHANGED inbox
             ELSE /\ inbox' = IF g = 0 \/ task[g] = "ended" THEN inbox
                              ELSE [inbox EXCEPT ![g] = Append(@, ev.unit)]
                  /\ UNCHANGED conns
          /\ UNCHANGED <<task, fdOf>>
    /\ UNCHANGED <<sockets, late, overrun, outward, loop, writes, heard, tx, waker, taken>>

TaskOf(g, from, to) == task[g] = from /\ task' = [task EXCEPT ![g] = to]

\* poll_read.
Hear(g) ==
    /\ task[g] = "idle"
    /\ inbox[g] # <<>>
    /\ heard' = [heard EXCEPT ![g] = Append(@, Head(inbox[g]))]
    /\ inbox' = [inbox EXCEPT ![g] = Tail(@)]
    /\ UNCHANGED <<sockets, inward, outward, loop, conns, task, fdOf, writes,
                   tx, waker, taken>>

Room == Len(tx) < TxCap

\* poll_write queues the bytes and only then counts them.
CanWrite(g) == owed[g] < OwedCap /\ Room

Enqueue(g) ==
    /\ TaskOf(g, "idle", "counting")
    /\ writes[g] < MaxWrites[g]
    /\ CanWrite(g)
    /\ tx' = Append(tx, [kind |-> "send", fd |-> fdOf[g], gen |-> g,
                         from |-> writes[g] * Size + 1, upto |-> (writes[g] + 1) * Size])
    /\ writes' = [writes EXCEPT ![g] = @ + 1]
    /\ UNCHANGED <<sockets, inward, outward, loop, conns, inbox, fdOf, heard, waker, taken>>

Count(g) ==
    /\ TaskOf(g, "counting", "idle")
    /\ owed' = [owed EXCEPT ![g] = @ + Size]
    /\ UNCHANGED <<sockets, inward, parked, wire, loop, conns, inbox, fdOf, writes, heard, tx, waker, taken>>

\* poll_write without room, or poll_flush before everything is out.
Wait(g) ==
    /\ TaskOf(g, "idle", "parked")
    /\ owed[g] > 0 \/ (writes[g] < MaxWrites[g] /\ ~CanWrite(g))
    /\ waker' = g
    /\ UNCHANGED <<sockets, inward, outward, loop, conns, inbox, fdOf, writes, heard, tx, taken>>

\* The task's own timeout polls it again.
TimesOut(g) ==
    /\ TaskOf(g, "parked", "idle")
    /\ waker' = IF waker = g THEN 0 ELSE waker
    /\ UNCHANGED <<sockets, inward, outward, loop, conns, inbox, fdOf, writes, heard, tx, taken>>

CloseCmd(g) == [kind |-> "close", fd |-> fdOf[g], gen |-> g]

\* poll_shutdown, when there is room.
Shutdown(g) ==
    /\ TaskOf(g, "idle", "shut")
    /\ Room
    /\ tx' = Append(tx, CloseCmd(g))
    /\ UNCHANGED <<sockets, inward, outward, loop, conns, inbox, fdOf, writes, heard, waker, taken>>

\* The task ends, for whatever reason, and drops its Conn; with the ring full the
\* socket is not closed.
End(g) ==
    /\ task[g] \in {"idle", "shut"}
    /\ task' = [task EXCEPT ![g] = "ended"]
    /\ tx' = IF Room THEN Append(tx, CloseCmd(g)) ELSE tx
    /\ inbox' = [inbox EXCEPT ![g] = <<>>]
    /\ writes' = [writes EXCEPT ![g] = 0]
    /\ heard' = [heard EXCEPT ![g] = <<>>]
    /\ owed' = [owed EXCEPT ![g] = 0]
    /\ UNCHANGED <<sockets, inward, parked, wire, loop, conns, fdOf, waker, taken>>

DriverStep == Drain \/ Drained \/ Poll \/ Service \/ Deliver

TaskStep(g) ==
    \/ Hear(g) \/ Enqueue(g) \/ Count(g) \/ Wait(g) \/ TimesOut(g)
    \/ Shutdown(g) \/ End(g)

BridgeNext == DriverStep \/ Dispatch \/ \E g \in Gen : TaskStep(g)

BridgeSpec == BridgeInit /\ [][BridgeNext]_bridgeVars

-----------------------------------------------------------------------------
(* Properties.                                                             *)

\* Every variable has its type (fstack-bridge/src/bridge.rs, the shared state).
BridgeTypeOK ==
    /\ owner \in [Fd -> 0..MaxPeers] /\ accepts \in 0..MaxPeers /\ slots \in 0..MaxSlots
    /\ Len(rx) <= RxCap /\ Len(late) <= RxCap /\ Len(tx) <= TxCap
    /\ phase \in {"drain", "flush", "events"}
    /\ waker \in 0..MaxPeers
    /\ conns \in [Fd -> 0..MaxPeers] /\ fdOf \in [Gen -> 0..MaxFd]
    /\ task \in [Gen -> {"none", "idle", "counting", "parked", "shut", "ended"}]
    /\ \A g \in Gen : Len(inbox[g]) <= InboxCap

InOrder(units, g) == units = [i \in 1..Len(units) |-> <<g, i>>]

\* What an open socket has been given are its own task's bytes, in order and
\* without a gap, through partial writes, backlogs and reused fds: "strict FIFO
\* sequence across the entire TLS/TCP stream" (fstack-bridge/src/bridge.rs:1217).
WireInOrder == \A g \in Gen : InOrder(wire[g], g)

\* What a task reads is what its own peer sent, in order and without a gap, unless
\* the RX ring has been full (bridge_worker, sow-relay/src/main.rs:2127).
HeardInOrder == ~overrun => \A g \in Gen : InOrder(heard[g], g)

\* Both directions of a connection are streams of its own bytes, in order.
BytesInOrder == WireInOrder /\ HeardInOrder

\* The bytes a connection has in the ring.
Sends(g)  == {i \in DOMAIN tx : tx[i].kind = "send" /\ tx[i].gen = g}
InRing(g) == SumFunction([i \in Sends(g) |-> Units(tx[i])])

\* The backpressure of an open connection is exact: it owes what is in the ring
\* and in its backlog, so that it neither waits for ever nor writes without end;
\* and the admission policy counts the open connections (poll_write, release_peer).
CountersExact ==
    /\ slots = Cardinality({f \in Fd : owner[f] # 0})
    /\ \A f \in Fd, g \in Gen : owner[f] = g /\ task[g] # "ended" =>
           owed[g] + (IF task[g] = "counting" THEN Size ELSE 0) = InRing(g) + Total(parked[f])

\* What a connection counts on: its bytes, in order, and none of them forgotten.
StreamsExact == BytesInOrder /\ CountersExact

Open(g) == \E f \in Fd : owner[f] = g

\* A command closes the connection it comes from and no other, and a Close only
\* one whose task is done with it: a stale Close "must not kill the new one"
\* (fstack-bridge/src/bridge.rs:1199).
ClosedForCause ==
    [][\A g \in Gen : phase = "drain" /\ Open(g) /\ ~Open(g)' =>
          /\ Head(tx).gen = g
          /\ Head(tx).kind = "close" => task[g] \in {"shut", "ended"}]_bridgeVars

=============================================================================
