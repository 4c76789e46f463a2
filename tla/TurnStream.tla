------------------------------ MODULE TurnStream ------------------------------
(***************************************************************************)
(* The turns of one match, from the tick task that numbers them            *)
(* (sow-relay/src/main.rs) to the replay file and to the engines of the    *)
(* players (sow-client).                                                   *)
(*                                                                         *)
(* A turn is named by its number, 1 for the first.  The tick task appends  *)
(* a turn to the replay journal (a bounded queue to a writer task, and the *)
(* bounded live history), then broadcasts it to the registered channels.   *)
(* A connection that registers is first inserted among the clients, then   *)
(* sent a snapshot of the live history through the same bounded channel,   *)
(* which nothing drains until the registration is over.  The client queues *)
(* what it receives and hands it to its engine.                            *)
(*                                                                         *)
(* Who may register is the subject of RelayLobby.  A player here has one   *)
(* connection at a time; frames of an earlier one reach nobody.            *)
(***************************************************************************)
EXTENDS Naturals, Sequences, Functions

CONSTANTS
    Players,      \* the roster
    MaxTurns,     \* bound: turns emitted
    MaxLinks,     \* bound: connections a player opens
    QueueCap,     \* REPLAY_QUEUE_CAP
    LiveCap,      \* LIVE_HISTORY_CAP
    ChannelCap,   \* PER_CLIENT_CHANNEL
    MaxMissed,    \* MAX_MISSED_TICKS
    DiskFails,    \* bound: the journal's disk may fail
    LoadedFirst   \* bound: engines are initialised before the socket is open

ASSUME StreamAssumption ==
    /\ MaxTurns \in Nat
    /\ MaxLinks \in Nat
    /\ QueueCap \in Nat \ {0}
    /\ LiveCap \in Nat \ {0}
    /\ ChannelCap \in Nat \ {0}
    /\ MaxMissed \in Nat \ {0}
    /\ DiskFails \in BOOLEAN
    /\ LoadedFirst \in BOOLEAN

VARIABLES
    turns,      \* turns numbered so far (tick_number)
    tick,       \* where the tick task stands
    queue,      \* commands waiting for the writer: turns, or Finalize
    writer,     \* replay_writer
    file,       \* the records of the journal file
    live,       \* ReplayJournal.live
    final,      \* the task of trigger_match_finalize, up to its artifact
    artifact,   \* the canonical replay, in a set: none or one
    clients,    \* players with a channel in LobbyState.clients
    missed,     \* ClientChannel.missed_ticks
    reg,        \* the registration of each player's current connection
    hist,       \* what the registration has still to send of its snapshot
    chan,       \* frames waiting in that connection's direct_rx
    shed,       \* history: turns a full channel refused to this connection
    owed,       \* history: the first turn this connection has to be sent
    sent,       \* history: turns this connection has been sent
    link,       \* the client holds an open socket (net.client)
    links,      \* connections opened so far
    turnQueue,  \* sim.turn_queue
    engine,     \* sim.engine
    applied     \* the turns the engine has executed

tickVars    == <<turns, tick>>
journalVars == <<queue, writer, file, live, final, artifact>>
relayVars   == <<clients, missed>>
connVars    == <<reg, hist, chan, shed, owed, sent>>
clientVars  == <<link, links, turnQueue, engine, applied>>

vars == <<tickVars, journalVars, relayVars, connVars, clientVars>>

Finalize == 0

Ticks   == {"idle", "append", "push", "broadcast", "ended"}
Writers == {"opening", "running", "done", "failed"}
Finals  == {"no", "requested", "sent", "ok", "err"}
Regs    == {"off", "inserted", "replaying", "running"}
Engines == {"none", "loading", "ready"}

Init ==
    /\ turns = 0
    /\ tick = "idle"
    /\ queue = <<>>
    /\ writer = "opening"
    /\ file = <<>>
    /\ live = <<>>
    /\ final = "no"
    /\ artifact = {}
    /\ clients = {}
    /\ missed = [p \in Players |-> 0]
    /\ reg    = [p \in Players |-> "off"]
    /\ hist   = [p \in Players |-> <<>>]
    /\ chan   = [p \in Players |-> <<>>]
    /\ shed   = [p \in Players |-> {}]
    /\ owed   = [p \in Players |-> 1]
    /\ sent   = [p \in Players |-> {}]
    /\ link   = [p \in Players |-> FALSE]
    /\ links  = [p \in Players |-> 0]
    /\ turnQueue = [p \in Players |-> <<>>]
    /\ engine = [p \in Players |-> "none"]
    /\ applied = [p \in Players |-> <<>>]

-----------------------------------------------------------------------------
(* The tick task.  It holds the clients lock from TickStart to Broadcast,  *)
(* and waits in Append when the writer is behind.                          *)

WriterListens == writer \in {"opening", "running"}

TickStart ==
    /\ tick = "idle"
    /\ clients # {}
    /\ turns < MaxTurns
    /\ turns' = turns + 1
    /\ tick' = "append"
    /\ UNCHANGED <<journalVars, relayVars, connVars, clientVars>>

\* Mutant: The receiver outlives the failure, so the send never returns.
AppendWaits ==
    /\ writer = "done"
    /\ tick' = "broadcast"
    /\ UNCHANGED queue

\* An append that fails is logged and the turn is broadcast all the same.
AppendFails ==
    /\ ~WriterListens
    /\ tick' = "broadcast"
    /\ UNCHANGED queue

\* Mutant: try_send instead of the awaited send: a full queue loses the record.
AppendLossy ==
    /\ WriterListens
    /\ queue' = IF Len(queue) < QueueCap THEN Append(queue, turns) ELSE queue
    /\ tick' = "push"

AppendQueued ==
    /\ WriterListens
    /\ Len(queue) < QueueCap
    /\ queue' = Append(queue, turns)
    /\ tick' = "push"

TickAppend ==
    /\ tick = "append"
    /\ AppendFails \/ AppendQueued
    /\ UNCHANGED <<turns, writer, file, live, final, artifact, relayVars,
                   connVars, clientVars>>

\* Mutant: pop_back instead of pop_front.
Oldest(s) == IF Len(s) > LiveCap THEN SubSeq(s, 1, LiveCap) ELSE s

\* Mutant: the live history is not trimmed.
Untrimmed(s) == s

Newest(s) == IF Len(s) > LiveCap THEN Tail(s) ELSE s

TickPush ==
    /\ tick = "push"
    /\ live' = Newest(Append(live, turns))
    /\ tick' = "broadcast"
    /\ UNCHANGED <<turns, queue, writer, file, final, artifact, relayVars,
                   connVars, clientVars>>

Full(p) == Len(chan[p]) >= ChannelCap

Broadcast ==
    /\ chan' = [p \in Players |-> IF p \in clients /\ ~Full(p)
                                  THEN Append(chan[p], turns) ELSE chan[p]]
    /\ sent' = [p \in Players |-> IF p \in clients /\ ~Full(p)
                                  THEN sent[p] \cup {turns} ELSE sent[p]]
    /\ shed' = [p \in Players |-> IF p \in clients /\ Full(p)
                                  THEN shed[p] \cup {turns} ELSE shed[p]]
    /\ missed' = [p \in Players |-> IF p \in clients /\ Full(p)
                                    THEN missed[p] + 1 ELSE 0]
    /\ clients' = {p \in clients : Full(p) => missed[p] + 1 < MaxMissed}

TickBroadcast ==
    /\ tick = "broadcast"
    /\ Broadcast
    /\ tick' = "idle"
    /\ UNCHANGED <<turns, journalVars, reg, hist, owed, clientVars>>

\* However the match ends (RelayLobby), its finalize task is spawned.
TickEnd ==
    /\ tick = "idle"
    /\ tick' = "ended"
    /\ final' = "requested"
    /\ UNCHANGED <<turns, queue, writer, file, live, artifact, relayVars,
                   connVars, clientVars>>

-----------------------------------------------------------------------------
(* The writer task and the finalize task.                                  *)

WriterOpens ==
    /\ writer = "opening"
    /\ writer' = "running"
    /\ UNCHANGED <<tickVars, queue, file, live, final, artifact, relayVars,
                   connVars, clientVars>>

WriterAppends ==
    /\ writer = "running"
    /\ queue # <<>> /\ Head(queue) # Finalize
    /\ file' = Append(file, Head(queue))
    /\ queue' = Tail(queue)
    /\ UNCHANGED <<tickVars, writer, live, final, artifact, relayVars,
                   connVars, clientVars>>

\* Creating the file, or one record, fails or would pass MAX_REPLAY_BYTES: the
\* task ends, the channel closes and what it held is gone.
WriterFails ==
    /\ DiskFails
    /\ \/ writer = "opening"
       \/ writer = "running" /\ queue # <<>>
    /\ writer' = "failed"
    /\ queue' = <<>>
    /\ final' = IF final = "sent" THEN "err" ELSE final
    /\ UNCHANGED <<tickVars, file, live, artifact, relayVars, connVars, clientVars>>

\* Mutant: The command overtakes the appends still queued.
FinalizeFirst ==
    /\ final = "requested"
    /\ \/ /\ WriterListens
          /\ queue' = <<Finalize>>
          /\ final' = "sent"
       \/ /\ ~WriterListens
          /\ final' = "err"
          /\ UNCHANGED queue
    /\ UNCHANGED <<tickVars, writer, file, live, artifact, relayVars, connVars,
                   clientVars>>

\* Mutant: A writer that stopped is not noticed by the finalize task.
FinalizeBlocks ==
    /\ final = "requested"
    /\ WriterListens
    /\ Len(queue) < QueueCap
    /\ queue' = Append(queue, Finalize)
    /\ final' = "sent"
    /\ UNCHANGED <<tickVars, writer, file, live, artifact, relayVars, connVars,
                   clientVars>>

\* journal.finalize: the command queues behind the appends.
FinalizeSends ==
    /\ final = "requested"
    /\ \/ /\ WriterListens
          /\ Len(queue) < QueueCap
          /\ queue' = Append(queue, Finalize)
          /\ final' = "sent"
       \/ /\ ~WriterListens
          /\ final' = "err"
          /\ UNCHANGED queue
    /\ UNCHANGED <<tickVars, writer, file, live, artifact, relayVars, connVars,
                   clientVars>>

\* The journal is synced, read back, decoded and renamed to the replay; the
\* reply clears the live history.
WriterFinalizes ==
    /\ writer = "running"
    /\ queue # <<>> /\ Head(queue) = Finalize
    /\ artifact' = {file}
    /\ writer' = "done"
    /\ queue' = <<>>
    /\ final' = "ok"
    /\ live' = <<>>
    /\ UNCHANGED <<tickVars, file, relayVars, connVars, clientVars>>

-----------------------------------------------------------------------------
(* Registration of a connection (try_register_with_admission).             *)

\* The client's socket opens and its first frame is admitted; inserting the
\* channel needs the clients lock, and a lobby that ended is not found.
Insert(p) ==
    /\ ~link[p] /\ links[p] < MaxLinks
    /\ LoadedFirst => engine[p] = "ready"
    /\ tick = "idle"
    /\ link' = [link EXCEPT ![p] = TRUE]
    /\ links' = [links EXCEPT ![p] = links[p] + 1]
    /\ clients' = clients \cup {p}
    /\ missed' = [missed EXCEPT ![p] = 0]
    /\ reg'  = [reg EXCEPT ![p] = "inserted"]
    /\ hist' = [hist EXCEPT ![p] = <<>>]
    /\ chan' = [chan EXCEPT ![p] = <<>>]
    /\ shed' = [shed EXCEPT ![p] = {}]
    /\ sent' = [sent EXCEPT ![p] = {}]
    /\ owed' = [owed EXCEPT ![p] = turns + 1]
    /\ UNCHANGED <<tickVars, journalVars, turnQueue, engine, applied>>

Snapshot(p) ==
    /\ reg[p] = "inserted"
    /\ reg' = [reg EXCEPT ![p] = "replaying"]
    /\ hist' = [hist EXCEPT ![p] = live]
    /\ owed' = [owed EXCEPT ![p] = IF live # <<>> /\ Head(live) < @ THEN Head(live) ELSE @]
    /\ UNCHANGED <<tickVars, journalVars, relayVars, chan, shed, sent, clientVars>>

\* Each past turn waits 500 ms for room and is skipped without it.
Replay(p) ==
    /\ reg[p] = "replaying" /\ hist[p] # <<>>
    /\ hist' = [hist EXCEPT ![p] = Tail(@)]
    /\ \/ /\ ~Full(p)
          /\ chan' = [chan EXCEPT ![p] = Append(@, Head(hist[p]))]
          /\ sent' = [sent EXCEPT ![p] = @ \cup {Head(hist[p])}]
          /\ UNCHANGED shed
       \/ /\ Full(p)
          /\ shed' = [shed EXCEPT ![p] = @ \cup {Head(hist[p])}]
          /\ UNCHANGED <<chan, sent>>
    /\ UNCHANGED <<tickVars, journalVars, relayVars, reg, owed, clientVars>>

Registered(p) ==
    /\ reg[p] = "replaying" /\ hist[p] = <<>>
    /\ reg' = [reg EXCEPT ![p] = "running"]
    /\ UNCHANGED <<tickVars, journalVars, relayVars, hist, chan, shed, owed, sent,
                   clientVars>>

\* A Leave, the reaper or a closed channel takes a lost connection out.
Unregister(p) ==
    /\ ~link[p] /\ p \in clients
    /\ tick \in {"idle", "ended"}
    /\ clients' = clients \ {p}
    /\ UNCHANGED <<tickVars, journalVars, missed, connVars, clientVars>>

-----------------------------------------------------------------------------
(* The client.                                                             *)

LoseLink(p) ==
    /\ link[p]
    /\ link' = [link EXCEPT ![p] = FALSE]
    /\ UNCHANGED <<tickVars, journalVars, relayVars, connVars, links, turnQueue,
                   engine, applied>>

\* ServerMessage::Turn: the turn is queued, whatever its number.
Receive(p) ==
    /\ link[p] /\ reg[p] = "running" /\ chan[p] # <<>>
    /\ turnQueue' = [turnQueue EXCEPT ![p] = Append(@, Head(chan[p]))]
    /\ chan' = [chan EXCEPT ![p] = Tail(@)]
    /\ UNCHANGED <<tickVars, journalVars, relayVars, reg, hist, shed, owed, sent,
                   link, links, engine, applied>>

\* The queue empties into the engine while playing or loading; without an engine
\* the turn is gone.
Execute(p) ==
    /\ link[p] /\ turnQueue[p] # <<>>
    /\ turnQueue' = [turnQueue EXCEPT ![p] = Tail(@)]
    /\ applied' = [applied EXCEPT ![p] =
                     IF engine[p] = "ready" THEN Append(@, Head(turnQueue[p])) ELSE @]
    /\ UNCHANGED <<tickVars, journalVars, relayVars, connVars, link, links, engine>>

StartLoading(p) ==
    /\ engine[p] = "none"
    /\ engine' = [engine EXCEPT ![p] = "loading"]
    /\ turnQueue' = [turnQueue EXCEPT ![p] = <<>>]
    /\ UNCHANGED <<tickVars, journalVars, relayVars, connVars, link, links, applied>>

FinishLoading(p) ==
    /\ engine[p] = "loading"
    /\ engine' = [engine EXCEPT ![p] = "ready"]
    /\ UNCHANGED <<tickVars, journalVars, relayVars, connVars, link, links,
                   turnQueue, applied>>

-----------------------------------------------------------------------------
Tick    == TickStart \/ TickAppend \/ TickPush \/ TickBroadcast
Writer  == WriterOpens \/ WriterAppends \/ WriterFails \/ WriterFinalizes
Joining(p) == Insert(p) \/ Snapshot(p) \/ Replay(p) \/ Registered(p) \/ Unregister(p)
Playing(p) == LoseLink(p) \/ Receive(p) \/ Execute(p) \/ StartLoading(p) \/ FinishLoading(p)

Next ==
    \/ Tick
    \/ TickEnd
    \/ Writer
    \/ FinalizeSends
    \/ \E p \in Players : Joining(p) \/ Playing(p)

Spec == Init /\ [][Next]_vars

\* Tokio keeps running the tick task, the writer and the finalize task; an end of
\* the match is not forced here.
FairSpec ==
    /\ Spec
    /\ WF_vars(Tick)
    /\ WF_vars(WriterOpens \/ WriterAppends \/ WriterFinalizes)
    /\ WF_vars(FinalizeSends)

-----------------------------------------------------------------------------
(* Properties.                                                             *)

Turn == 1..MaxTurns

TypeOK ==
    /\ turns \in 0..MaxTurns
    /\ tick \in Ticks
    /\ queue \in Seq(0..MaxTurns) /\ Len(queue) <= QueueCap
    /\ writer \in Writers
    /\ file \in Seq(Turn)
    /\ live \in Seq(Turn) /\ Len(live) <= LiveCap
    /\ final \in Finals
    /\ artifact \subseteq {file}
    /\ clients \subseteq Players
    /\ missed \in [Players -> 0..MaxMissed]
    /\ reg \in [Players -> Regs]
    /\ hist \in [Players -> Seq(Turn)]
    /\ chan \in [Players -> Seq(Turn)]
    /\ \A p \in Players : Len(chan[p]) <= ChannelCap
    /\ shed \in [Players -> SUBSET Turn]
    /\ owed \in [Players -> 1..MaxTurns + 1]
    /\ sent \in [Players -> SUBSET Turn]
    /\ link \in [Players -> BOOLEAN]
    /\ links \in [Players -> 0..MaxLinks]
    /\ turnQueue \in [Players -> Seq(Turn)]
    /\ engine \in [Players -> Engines]
    /\ applied \in [Players -> Seq(Turn)]

AllTurns == [i \in 1..turns |-> i]

\* A replay that is archived holds every turn of the match, in order, however far
\* the writer was behind: append waits for room and finalize waits its turn.
ReplayFaithful == \A r \in artifact : r = AllTurns

\* No player sees a turn that the replay could still lack.
JournalFirst ==
    writer # "failed" =>
        \A p \in Players : \A t \in sent[p] :
            t <= Len(file) + Len(queue) \/ artifact # {}

\* Turns the tick task is done with.
Broadcasted == IF tick \in {"idle", "ended"} THEN turns ELSE turns - 1

\* A registering connection misses nothing between its snapshot and the turns
\* broadcast to it, other than what its full channel shed.
NothingBetween ==
    writer # "failed" =>
        \A p \in clients :
            reg[p] \in {"replaying", "running"} =>
                owed[p]..Broadcasted \subseteq sent[p] \cup Range(hist[p]) \cup shed[p]

\* The match's turns and its replay, as TurnLog describes them.
Log == INSTANCE TurnLog
    WITH log <- AllTurns, open <- tick # "ended", archive <- artifact
ImplementsLog == Log!LogSpec

\* The tick task, which holds the clients lock while it appends, is not stopped
\* for ever by a writer that is behind or dead.
TickReturns == tick \in {"append", "push", "broadcast"} ~> tick = "idle"

\* The finalize task of an ended match comes to an artifact or an error.
FinalizeSettles == final = "requested" ~> final \in {"ok", "err"}

\* sow-client/src/sim/update.rs: "Multiplayer: lockstep execution dictated by
\* server".  Every engine has executed the first turns of the match, in order.
Lockstep ==
    \A p \in Players : \A i \in DOMAIN applied[p] : applied[p][i] = i

=============================================================================
