--------------------------- MODULE TurnStreamProofs ---------------------------
(* Theorems about TurnStream, for every number of players, turns and           *)
(* connections and every capacity.                                             *)
EXTENDS TurnStream, SequenceTheorems, TLAPS

-----------------------------------------------------------------------------
(* Types, by the group of variables an action changes.                         *)

TickType ==
    /\ turns \in 0..MaxTurns
    /\ tick \in Ticks
    /\ tick \in {"append", "push", "broadcast"} => turns \in Turn

JournalType ==
    /\ queue \in Seq(0..MaxTurns) /\ Len(queue) <= QueueCap
    /\ writer \in Writers
    /\ file \in Seq(Turn)
    /\ live \in Seq(Turn) /\ Len(live) <= LiveCap
    /\ final \in Finals

RelayType ==
    /\ clients \subseteq Players
    /\ missed \in [Players -> 0..MaxMissed]
    /\ \A p \in clients : missed[p] < MaxMissed

ConnType ==
    /\ reg \in [Players -> Regs]
    /\ hist \in [Players -> Seq(Turn)]
    /\ chan \in [Players -> Seq(Turn)]
    /\ \A p \in Players : Len(chan[p]) <= ChannelCap
    /\ shed \in [Players -> SUBSET Turn]
    /\ owed \in [Players -> 1..MaxTurns + 1]
    /\ sent \in [Players -> SUBSET Turn]

ClientType ==
    /\ link \in [Players -> BOOLEAN]
    /\ links \in [Players -> 0..MaxLinks]
    /\ turnQueue \in [Players -> Seq(Turn)]
    /\ engine \in [Players -> Engines]
    /\ applied \in [Players -> Seq(Turn)]

Typed == TickType /\ JournalType /\ RelayType /\ ConnType /\ ClientType

\* A group of variables that does not change keeps its type.
LEMMA TypeStable ==
    /\ TickType /\ UNCHANGED tickVars => TickType'
    /\ JournalType /\ UNCHANGED <<queue, writer, file, live, final>> => JournalType'
    /\ RelayType /\ UNCHANGED relayVars => RelayType'
    /\ ConnType /\ UNCHANGED connVars => ConnType'
    /\ ClientType /\ UNCHANGED clientVars => ClientType'
<1>1. TickType /\ UNCHANGED tickVars => TickType'
  BY DEF TickType, tickVars
<1>2. JournalType /\ UNCHANGED <<queue, writer, file, live, final>> => JournalType'
  BY DEF JournalType
<1>3. RelayType /\ UNCHANGED relayVars => RelayType'
  BY DEF RelayType, relayVars
<1>4. ConnType /\ UNCHANGED connVars => ConnType'
  BY DEF ConnType, connVars
<1>5. ClientType /\ UNCHANGED clientVars => ClientType'
  BY DEF ClientType, clientVars
<1> QED BY <1>1, <1>2, <1>3, <1>4, <1>5

LEMMA TypedInit == Init => Typed
<1> SUFFICES ASSUME Init PROVE Typed
  OBVIOUS
<1> USE StreamAssumption, EmptySeq
<1>1. TickType
  BY DEF Init, TickType, Ticks
<1>2. JournalType
  <2>1. queue \in Seq(0..MaxTurns) /\ file \in Seq(Turn) /\ live \in Seq(Turn)
    BY DEF Init
  <2>2. Len(queue) = 0 /\ Len(live) = 0
    BY DEF Init
  <2> QED BY <2>1, <2>2 DEF Init, JournalType, Writers, Finals
<1>3. RelayType
  BY DEF Init, RelayType
<1>4. ConnType
  <2>1. hist \in [Players -> Seq(Turn)] /\ chan \in [Players -> Seq(Turn)]
    BY DEF Init
  <2>2. \A p \in Players : Len(chan[p]) <= ChannelCap
    BY DEF Init
  <2>3. owed \in [Players -> 1..MaxTurns + 1]
    BY DEF Init
  <2> QED BY <2>1, <2>2, <2>3 DEF Init, ConnType, Regs
<1>5. ClientType
  BY DEF Init, ClientType, Engines
<1> QED BY <1>1, <1>2, <1>3, <1>4, <1>5 DEF Typed

-----------------------------------------------------------------------------
(* What each action does to the types of the groups it changes.                *)

LEMMA TickTyped == Typed /\ Tick => Typed'
<1> SUFFICES ASSUME Typed, Tick PROVE Typed'
  OBVIOUS
<1> USE StreamAssumption DEF Typed
<1>1. CASE TickStart
  <2>1. TickType'
    BY <1>1 DEF TickStart, TickType, Ticks, Turn
  <2> QED BY <1>1, <2>1, TypeStable DEF TickStart, journalVars
<1>2. CASE TickAppend
  <2>1. tick' \in {"push", "broadcast"} /\ turns' = turns /\ tick = "append"
    BY <1>2 DEF TickAppend, AppendFails, AppendQueued
  <2>2. TickType'
    BY <2>1 DEF TickType, Ticks
  <2>3. turns \in 0..MaxTurns
    BY DEF TickType
  <2>4. queue' \in Seq(0..MaxTurns) /\ Len(queue') <= QueueCap
    <3>1. queue \in Seq(0..MaxTurns) /\ Len(queue) <= QueueCap
      BY DEF JournalType
    <3>2. CASE AppendFails
      BY <3>1, <3>2 DEF AppendFails
    <3>3. CASE AppendQueued
      <4>1. queue' = Append(queue, turns) /\ Len(queue) < QueueCap
        BY <3>3 DEF AppendQueued
      <4> QED BY <2>3, <3>1, <4>1
    <3> QED BY <1>2, <3>2, <3>3 DEF TickAppend
  <2>5. JournalType'
    BY <1>2, <2>4 DEF TickAppend, JournalType
  <2> QED BY <1>2, <2>2, <2>5, TypeStable DEF TickAppend
<1>3. CASE TickPush
  <2>1. TickType'
    BY <1>3 DEF TickPush, TickType, Ticks
  <2>2. turns \in Turn
    BY <1>3 DEF TickPush, TickType
  <2>3. live' \in Seq(Turn) /\ Len(live') <= LiveCap
    <3> DEFINE longer == Append(live, turns)
    <3>1. /\ longer \in Seq(Turn)
          /\ longer # <<>>
          /\ Len(longer) <= LiveCap + 1
      <4>1. live \in Seq(Turn) /\ Len(live) <= LiveCap
        BY DEF JournalType
      <4>2. longer \in Seq(Turn) /\ Len(longer) = Len(live) + 1
        BY <2>2, <4>1
      <4> QED BY <4>1, <4>2
    <3>2. Tail(longer) \in Seq(Turn) /\ Len(Tail(longer)) = Len(longer) - 1
      BY <3>1
    <3>3. live' = IF Len(longer) > LiveCap THEN Tail(longer) ELSE longer
      BY <1>3 DEF TickPush, Newest
    <3> HIDE DEF longer
    <3> QED BY <3>1, <3>2, <3>3
  <2>4. JournalType'
    BY <1>3, <2>3 DEF TickPush, JournalType
  <2> QED BY <1>3, <2>1, <2>4, TypeStable DEF TickPush
<1>4. CASE TickBroadcast
  <2>1. TickType'
    BY <1>4 DEF TickBroadcast, TickType, Ticks
  <2>2. turns \in Turn
    BY <1>4 DEF TickBroadcast, TickType
  <2>3. RelayType'
    <3>1. missed' \in [Players -> 0..MaxMissed]
      <4> SUFFICES ASSUME NEW p \in Players
                   PROVE  (IF p \in clients /\ Full(p) THEN missed[p] + 1 ELSE 0) \in 0..MaxMissed
        BY <1>4 DEF TickBroadcast, Broadcast
      <4> QED BY DEF RelayType
    <3>2. \A p \in clients' : missed'[p] < MaxMissed
      <4> TAKE p \in clients'
      <4>1. p \in clients /\ p \in Players /\ (Full(p) => missed[p] + 1 < MaxMissed)
        BY <1>4 DEF TickBroadcast, Broadcast, RelayType
      <4>2. missed'[p] = IF p \in clients /\ Full(p) THEN missed[p] + 1 ELSE 0
        BY <1>4, <4>1 DEF TickBroadcast, Broadcast
      <4> QED BY <4>1, <4>2
    <3>3. clients' \subseteq Players
      BY <1>4 DEF TickBroadcast, Broadcast, RelayType
    <3> QED BY <3>1, <3>2, <3>3 DEF RelayType
  <2>4. ConnType'
    <3>1. chan' \in [Players -> Seq(Turn)]
      BY <1>4, <2>2 DEF TickBroadcast, Broadcast, ConnType
    <3>2. ASSUME NEW p \in Players PROVE Len(chan'[p]) <= ChannelCap
      <4>1. chan'[p] = IF p \in clients /\ ~Full(p) THEN Append(chan[p], turns) ELSE chan[p]
        BY <1>4 DEF TickBroadcast, Broadcast
      <4>2. chan[p] \in Seq(Turn) /\ Len(chan[p]) <= ChannelCap
        BY DEF ConnType
      <4> QED BY <4>1, <4>2 DEF Full
    <3>3. sent' \in [Players -> SUBSET Turn] /\ shed' \in [Players -> SUBSET Turn]
      BY <1>4, <2>2 DEF TickBroadcast, Broadcast, ConnType
    <3> QED BY <1>4, <3>1, <3>2, <3>3 DEF TickBroadcast, ConnType
  <2> QED BY <1>4, <2>1, <2>3, <2>4, TypeStable DEF TickBroadcast, journalVars
<1> QED BY <1>1, <1>2, <1>3, <1>4 DEF Tick

LEMMA WriterTyped == Typed /\ (TickEnd \/ Writer \/ FinalizeSends) => Typed'
<1> SUFFICES ASSUME Typed, TickEnd \/ Writer \/ FinalizeSends PROVE Typed'
  OBVIOUS
<1> USE StreamAssumption, EmptySeq DEF Typed
<1>1. CASE TickEnd
  <2>1. TickType' /\ JournalType'
    BY <1>1 DEF TickEnd, TickType, Ticks, JournalType, Finals
  <2> QED BY <1>1, <2>1, TypeStable DEF TickEnd
<1>2. CASE WriterOpens
  <2>1. JournalType'
    BY <1>2 DEF WriterOpens, JournalType, Writers
  <2> QED BY <1>2, <2>1, TypeStable DEF WriterOpens
<1>3. CASE WriterAppends
  <2>1. queue \in Seq(0..MaxTurns) /\ queue # <<>> /\ Head(queue) # 0
    BY <1>3 DEF WriterAppends, JournalType, Finalize
  <2>2. Head(queue) \in Turn
    BY <2>1 DEF Turn
  <2>3. file' \in Seq(Turn)
    BY <1>3, <2>2 DEF WriterAppends, JournalType
  <2>4. queue' \in Seq(0..MaxTurns) /\ Len(queue') <= QueueCap
    BY <1>3, <2>1 DEF WriterAppends, JournalType
  <2>5. JournalType'
    BY <1>3, <2>3, <2>4 DEF WriterAppends, JournalType
  <2> QED BY <1>3, <2>5, TypeStable DEF WriterAppends
<1>4. CASE WriterFails
  <2>1. queue' \in Seq(0..MaxTurns) /\ Len(queue') <= QueueCap
    BY <1>4 DEF WriterFails
  <2>2. JournalType'
    BY <1>4, <2>1 DEF WriterFails, JournalType, Writers, Finals
  <2> QED BY <1>4, <2>2, TypeStable DEF WriterFails
<1>5. CASE WriterFinalizes
  <2>1. queue' \in Seq(0..MaxTurns) /\ Len(queue') <= QueueCap
    BY <1>5 DEF WriterFinalizes
  <2>2. live' \in Seq(Turn) /\ Len(live') <= LiveCap
    BY <1>5 DEF WriterFinalizes
  <2>3. JournalType'
    BY <1>5, <2>1, <2>2 DEF WriterFinalizes, JournalType, Writers, Finals
  <2> QED BY <1>5, <2>3, TypeStable DEF WriterFinalizes
<1>6. CASE FinalizeSends
  <2>1. queue' \in Seq(0..MaxTurns) /\ Len(queue') <= QueueCap
    <3>1. queue \in Seq(0..MaxTurns) /\ Len(queue) <= QueueCap /\ 0 \in 0..MaxTurns
      BY DEF JournalType
    <3>2. CASE queue' = queue
      BY <3>1, <3>2
    <3>3. CASE queue' = Append(queue, 0) /\ Len(queue) < QueueCap
      BY <3>1, <3>3
    <3> QED BY <1>6, <3>2, <3>3 DEF FinalizeSends, Finalize
  <2>2. JournalType'
    BY <1>6, <2>1 DEF FinalizeSends, JournalType, Finals
  <2> QED BY <1>6, <2>2, TypeStable DEF FinalizeSends
<1> QED BY <1>1, <1>2, <1>3, <1>4, <1>5, <1>6 DEF Writer

LEMMA JoiningTyped == ASSUME Typed, NEW p \in Players, Joining(p) PROVE Typed'
<1> USE StreamAssumption, EmptySeq DEF Typed
<1>1. CASE Insert(p)
  <2>1. RelayType'
    BY <1>1 DEF Insert, RelayType
  <2>2. turns \in 0..MaxTurns
    BY DEF TickType
  <2>3. hist' \in [Players -> Seq(Turn)] /\ chan' \in [Players -> Seq(Turn)]
    BY <1>1 DEF Insert, ConnType
  <2>4. \A q \in Players : Len(chan'[q]) <= ChannelCap
    BY <1>1 DEF Insert, ConnType
  <2>5. owed' \in [Players -> 1..MaxTurns + 1]
    BY <1>1, <2>2 DEF Insert, ConnType
  <2>6. ConnType'
    BY <1>1, <2>3, <2>4, <2>5 DEF Insert, ConnType, Regs
  <2>7. ClientType'
    BY <1>1 DEF Insert, ClientType
  <2> QED BY <1>1, <2>1, <2>6, <2>7, TypeStable DEF Insert, journalVars
<1>2. CASE Snapshot(p)
  <2>1. hist' \in [Players -> Seq(Turn)]
    BY <1>2 DEF Snapshot, ConnType, JournalType
  <2>2. live # <<>> => Head(live) \in Turn
    BY DEF JournalType
  <2>3. owed' \in [Players -> 1..MaxTurns + 1]
    BY <1>2, <2>2 DEF Snapshot, ConnType, Turn
  <2>4. ConnType'
    BY <1>2, <2>1, <2>3 DEF Snapshot, ConnType, Regs
  <2> QED BY <1>2, <2>4, TypeStable DEF Snapshot, journalVars
<1>3. CASE Replay(p)
  <2>1. hist[p] \in Seq(Turn) /\ hist[p] # <<>>
    BY <1>3 DEF Replay, ConnType
  <2>2. Head(hist[p]) \in Turn /\ Tail(hist[p]) \in Seq(Turn)
    BY <2>1
  <2>3. hist' \in [Players -> Seq(Turn)]
    BY <1>3, <2>2 DEF Replay, ConnType
  <2> DEFINE t == Head(hist[p])
  <2>4. \/ /\ Len(chan[p]) < ChannelCap
           /\ chan' = [chan EXCEPT ![p] = Append(chan[p], t)]
           /\ sent' = [sent EXCEPT ![p] = sent[p] \cup {t}]
           /\ shed' = shed
        \/ /\ shed' = [shed EXCEPT ![p] = shed[p] \cup {t}]
           /\ chan' = chan /\ sent' = sent
    <3>1. chan[p] \in Seq(Turn)
      BY DEF ConnType
    <3> QED BY <1>3, <3>1 DEF Replay, Full
  <2>5. /\ chan' \in [Players -> Seq(Turn)]
        /\ \A q \in Players : Len(chan'[q]) <= ChannelCap
    <3> HIDE DEF t
    <3>1. t \in Turn
      BY <2>2 DEF t
    <3>2. CASE chan' = chan
      BY <3>2 DEF ConnType
    <3>3. CASE chan' = [chan EXCEPT ![p] = Append(chan[p], t)] /\ Len(chan[p]) < ChannelCap
      <4>1. chan[p] \in Seq(Turn)
        BY DEF ConnType
      <4>2. Append(chan[p], t) \in Seq(Turn) /\ Len(Append(chan[p], t)) <= ChannelCap
        BY <3>1, <3>3, <4>1
      <4> QED BY <3>3, <4>2 DEF ConnType
    <3> QED BY <2>4, <3>2, <3>3
  <2>6. sent' \in [Players -> SUBSET Turn] /\ shed' \in [Players -> SUBSET Turn]
    <3> HIDE DEF t
    <3>1. t \in Turn
      BY <2>2 DEF t
    <3>2. CASE sent' = sent /\ shed' = [shed EXCEPT ![p] = shed[p] \cup {t}]
      BY <3>1, <3>2 DEF ConnType
    <3>3. CASE shed' = shed /\ sent' = [sent EXCEPT ![p] = sent[p] \cup {t}]
      BY <3>1, <3>3 DEF ConnType
    <3> QED BY <2>4, <3>2, <3>3
  <2>7. ConnType'
    BY <1>3, <2>3, <2>5, <2>6 DEF Replay, ConnType
  <2> QED BY <1>3, <2>7, TypeStable DEF Replay, journalVars
<1>4. CASE Registered(p)
  <2>1. ConnType'
    BY <1>4 DEF Registered, ConnType, Regs
  <2> QED BY <1>4, <2>1, TypeStable DEF Registered, journalVars
<1>5. CASE Unregister(p)
  <2>1. RelayType'
    BY <1>5 DEF Unregister, RelayType
  <2> QED BY <1>5, <2>1, TypeStable DEF Unregister, journalVars
<1> QED BY <1>1, <1>2, <1>3, <1>4, <1>5 DEF Joining

LEMMA PlayingTyped == ASSUME Typed, NEW p \in Players, Playing(p) PROVE Typed'
<1> USE StreamAssumption, EmptySeq DEF Typed
<1>1. CASE LoseLink(p)
  <2>1. ClientType'
    BY <1>1 DEF LoseLink, ClientType
  <2> QED BY <1>1, <2>1, TypeStable DEF LoseLink, journalVars
<1>2. CASE Receive(p)
  <2>1. chan[p] \in Seq(Turn) /\ chan[p] # <<>> /\ Len(chan[p]) <= ChannelCap
    BY <1>2 DEF Receive, ConnType
  <2>2. /\ Head(chan[p]) \in Turn
        /\ Tail(chan[p]) \in Seq(Turn)
        /\ Len(Tail(chan[p])) <= ChannelCap
    BY <2>1
  <2>3. ConnType'
    <3>1. chan' \in [Players -> Seq(Turn)]
      BY <1>2, <2>2 DEF Receive, ConnType
    <3>2. \A q \in Players : Len(chan'[q]) <= ChannelCap
      BY <1>2, <2>2 DEF Receive, ConnType
    <3> QED BY <1>2, <3>1, <3>2 DEF Receive, ConnType
  <2>4. turnQueue' \in [Players -> Seq(Turn)]
    BY <1>2, <2>2 DEF Receive, ClientType
  <2>5. ClientType'
    BY <1>2, <2>4 DEF Receive, ClientType
  <2> QED BY <1>2, <2>3, <2>5, TypeStable DEF Receive, journalVars
<1>3. CASE Execute(p)
  <2>1. turnQueue[p] \in Seq(Turn) /\ turnQueue[p] # <<>>
    BY <1>3 DEF Execute, ClientType
  <2>2. Head(turnQueue[p]) \in Turn /\ Tail(turnQueue[p]) \in Seq(Turn)
    BY <2>1
  <2>3. turnQueue' \in [Players -> Seq(Turn)] /\ applied' \in [Players -> Seq(Turn)]
    BY <1>3, <2>2 DEF Execute, ClientType
  <2>4. ClientType'
    BY <1>3, <2>3 DEF Execute, ClientType
  <2> QED BY <1>3, <2>4, TypeStable DEF Execute, journalVars
<1>4. CASE StartLoading(p)
  <2>1. turnQueue' \in [Players -> Seq(Turn)]
    BY <1>4 DEF StartLoading, ClientType
  <2>2. ClientType'
    BY <1>4, <2>1 DEF StartLoading, ClientType, Engines
  <2> QED BY <1>4, <2>2, TypeStable DEF StartLoading, journalVars
<1>5. CASE FinishLoading(p)
  <2>1. ClientType'
    BY <1>5 DEF FinishLoading, ClientType, Engines
  <2> QED BY <1>5, <2>1, TypeStable DEF FinishLoading, journalVars
<1> QED BY <1>1, <1>2, <1>3, <1>4, <1>5 DEF Playing

LEMMA TypedStep == Typed /\ [Next]_vars => Typed'
<1>1. ASSUME Typed, UNCHANGED vars PROVE Typed'
  BY <1>1, TypeStable DEF Typed, vars, journalVars
<1> QED BY <1>1, TickTyped, WriterTyped, JoiningTyped, PlayingTyped DEF Next

LEMMA TypedCorrect == Spec => []Typed
<1> QED BY TypedInit, TypedStep, PTL DEF Spec

-----------------------------------------------------------------------------
(* The journal.  While the writer listens, the file and the queue hold the     *)
(* turns appended so far, in order, and the finalize command can only be the   *)
(* last of the queue.                                                          *)

Recorded == IF tick = "append" THEN turns - 1 ELSE turns

Commands == IF final = "sent" THEN 1 ELSE 0

FileInOrder == \A i \in 1..Len(file) : file[i] = i

QueueInOrder ==
    \A i \in 1..Len(queue) :
        \/ queue[i] = Len(file) + i /\ i <= Len(queue) - Commands
        \/ queue[i] = Finalize /\ final = "sent" /\ i = Len(queue)

RecordsCounted == Len(file) + Len(queue) = Recorded + Commands

Stages ==
    /\ tick = "ended" <=> final # "no"
    /\ final = "sent" => WriterListens
    /\ writer = "done" => final = "ok"
    /\ writer = "done" <=> artifact # {}

JournalInv ==
    /\ Stages
    /\ WriterListens => FileInOrder /\ QueueInOrder /\ RecordsCounted
    /\ artifact # {} => artifact = {file} /\ FileInOrder /\ Len(file) = turns

LEMMA JournalInvInit == Init => JournalInv
<1> SUFFICES ASSUME Init PROVE JournalInv
  OBVIOUS
<1>1. Len(file) = 0 /\ Len(queue) = 0
  BY DEF Init
<1> QED BY <1>1 DEF Init, JournalInv, Stages, FileInOrder, QueueInOrder, RecordsCounted,
      Recorded, Commands, WriterListens

\* Neither the registrations nor the clients touch the journal.
LEMMA JournalInvFrame ==
    JournalInv /\ UNCHANGED <<tickVars, journalVars>> => JournalInv'
<1> QED BY DEF JournalInv, Stages, FileInOrder, QueueInOrder, RecordsCounted,
      Recorded, Commands, WriterListens, tickVars, journalVars

LEMMA JournalInvStep == Typed /\ JournalInv /\ [Next]_vars => JournalInv'
<1> SUFFICES ASSUME Typed, JournalInv, [Next]_vars PROVE JournalInv'
  OBVIOUS
<1> USE StreamAssumption
<1>t. /\ turns \in Nat
      /\ queue \in Seq(0..MaxTurns) /\ Len(queue) \in Nat
      /\ file \in Seq(Turn) /\ Len(file) \in Nat
      /\ tick \in {"append", "push", "broadcast"} => turns >= 1
  BY DEF Typed, TickType, JournalType, Turn
<1>1. CASE TickStart
  <2>1. /\ tick = "idle" /\ tick' = "append" /\ turns' = turns + 1
        /\ UNCHANGED <<queue, writer, file, live, final, artifact>>
    BY <1>1 DEF TickStart, journalVars
  <2>2. Recorded' = Recorded /\ Commands' = Commands
    BY <1>t, <2>1 DEF Recorded, Commands
  <2>3. Stages' /\ artifact = {} /\ artifact' = {}
    BY <2>1 DEF JournalInv, Stages, WriterListens
  <2> QED BY <2>1, <2>2, <2>3 DEF JournalInv, FileInOrder, QueueInOrder, RecordsCounted,
        WriterListens
<1>2. CASE TickAppend
  <2>1. /\ tick = "append" /\ final = "no" /\ artifact = {}
        /\ UNCHANGED <<turns, writer, file, live, final, artifact>>
    BY <1>2 DEF TickAppend, JournalInv, Stages
  <2>2. CASE AppendFails
    BY <2>1, <2>2 DEF AppendFails, JournalInv, Stages, WriterListens
  <2>3. CASE AppendQueued
    <3>1. /\ WriterListens /\ queue' = Append(queue, turns) /\ tick' = "push"
      BY <2>3 DEF AppendQueued
    <3>2. Commands = 0 /\ Commands' = 0 /\ Recorded = turns - 1 /\ Recorded' = turns
      BY <2>1, <3>1 DEF Commands, Recorded
    <3>3. Len(file) + Len(queue) = turns - 1
      BY <3>1, <3>2, <1>t DEF JournalInv, RecordsCounted
    <3>4. Len(queue') = Len(queue) + 1
      BY <1>t, <3>1
    <3>5. RecordsCounted'
      BY <2>1, <3>2, <3>3, <3>4, <1>t DEF RecordsCounted
    <3>6. QueueInOrder'
      <4>1. ASSUME NEW i \in 1..Len(queue') PROVE queue'[i] = Len(file) + i
        <5>1. CASE i = Len(queue) + 1
          BY <5>1, <1>t, <3>1, <3>3
        <5>2. CASE i \in 1..Len(queue)
          <6>1. queue[i] = Len(file) + i
            BY <5>2, <2>1, <3>1 DEF JournalInv, QueueInOrder
          <6> QED BY <5>2, <6>1, <1>t, <3>1
        <5> QED BY <5>1, <5>2, <3>4, <1>t
      <4> QED BY <4>1, <3>2, <3>4, <2>1, <1>t DEF QueueInOrder
    <3>7. FileInOrder' /\ Stages'
      BY <2>1, <3>1 DEF JournalInv, FileInOrder, Stages, WriterListens
    <3> QED BY <3>5, <3>6, <3>7, <2>1 DEF JournalInv
  <2> QED BY <1>2, <2>2, <2>3 DEF TickAppend
<1>3. CASE TickPush \/ TickBroadcast
  <2>1. /\ tick \in {"push", "broadcast"} /\ tick' \in {"broadcast", "idle"}
        /\ UNCHANGED <<turns, queue, writer, file, final, artifact>>
    BY <1>3 DEF TickPush, TickBroadcast, journalVars
  <2>2. Recorded' = Recorded /\ Commands' = Commands
    BY <2>1 DEF Recorded, Commands
  <2>3. Stages'
    BY <2>1 DEF JournalInv, Stages, WriterListens
  <2> QED BY <2>1, <2>2, <2>3 DEF JournalInv, FileInOrder, QueueInOrder, RecordsCounted,
        WriterListens
<1>4. CASE TickEnd
  <2>1. /\ tick = "idle" /\ tick' = "ended" /\ final = "no" /\ final' = "requested"
        /\ UNCHANGED <<turns, queue, writer, file, artifact>>
    BY <1>4 DEF TickEnd, JournalInv, Stages
  <2>2. Recorded' = Recorded /\ Commands' = Commands
    BY <2>1 DEF Recorded, Commands
  <2>3. Stages'
    BY <2>1 DEF JournalInv, Stages, WriterListens
  <2> QED BY <2>1, <2>2, <2>3 DEF JournalInv, FileInOrder, QueueInOrder, RecordsCounted,
        WriterListens
<1>5. CASE WriterOpens
  <2>1. /\ WriterListens /\ writer' = "running" /\ writer = "opening"
        /\ UNCHANGED <<turns, tick, queue, file, final, artifact>>
    BY <1>5 DEF WriterOpens, WriterListens, tickVars
  <2>2. Recorded' = Recorded /\ Commands' = Commands
    BY <2>1 DEF Recorded, Commands
  <2>3. Stages'
    BY <2>1 DEF JournalInv, Stages, WriterListens
  <2> QED BY <2>1, <2>2, <2>3 DEF JournalInv, FileInOrder, QueueInOrder, RecordsCounted
<1>6. CASE WriterAppends
  <2>1. /\ WriterListens /\ WriterListens' /\ writer = "running"
        /\ queue # <<>> /\ Head(queue) # Finalize
        /\ file' = Append(file, Head(queue)) /\ queue' = Tail(queue)
        /\ UNCHANGED <<turns, tick, writer, final, artifact>>
    BY <1>6 DEF WriterAppends, WriterListens, tickVars
  <2>2. Recorded' = Recorded /\ Commands' = Commands
    BY <2>1 DEF Recorded, Commands
  <2>3. Stages' /\ artifact = {} /\ artifact' = {}
    BY <2>1 DEF JournalInv, Stages, WriterListens
  <2>4. Len(queue) >= 1 /\ queue[1] = Head(queue)
    BY <2>1, <1>t
  <2>5. queue[1] = Len(file) + 1
    BY <2>1, <2>4, <1>t DEF JournalInv, QueueInOrder
  <2>6. /\ Len(file') = Len(file) + 1 /\ Len(queue') = Len(queue) - 1
        /\ \A i \in 1..Len(file) : file'[i] = file[i]
        /\ file'[Len(file) + 1] = Len(file) + 1
        /\ \A i \in 1..Len(queue) - 1 : queue'[i] = queue[i + 1]
    <3>1. Head(queue) \in 0..MaxTurns
      BY <1>t, <2>1
    <3> QED BY <1>t, <2>1, <2>4, <2>5, <3>1
  <2>7. FileInOrder'
    <3> SUFFICES ASSUME NEW i \in 1..Len(file') PROVE file'[i] = i
      BY DEF FileInOrder
    <3>1. i \in 1..Len(file) \/ i = Len(file) + 1
      BY <2>6, <1>t
    <3>2. i \in 1..Len(file) => file[i] = i
      BY <2>1 DEF JournalInv, FileInOrder
    <3> QED BY <3>1, <3>2, <2>6
  <2>8. QueueInOrder'
    <3> SUFFICES ASSUME NEW i \in 1..Len(queue')
                 PROVE  \/ queue'[i] = Len(file') + i /\ i <= Len(queue') - Commands'
                        \/ queue'[i] = Finalize /\ final' = "sent" /\ i = Len(queue')
      BY DEF QueueInOrder
    <3>n. Len(queue) \in Nat /\ Len(queue') = Len(queue) - 1
      BY <2>6, <1>t
    <3>a. i \in 1..Len(queue) - 1 /\ i + 1 \in 1..Len(queue)
      <4>1. i \in Nat /\ 1 <= i /\ i <= Len(queue')
        BY <3>n
      <4> QED BY <4>1, <3>n
    <3>b. queue'[i] = queue[i + 1]
      BY <2>6, <3>a
    <3>1. i + 1 \in 1..Len(queue) /\ queue'[i] = queue[i + 1]
      BY <3>a, <3>b
    <3>2. \/ queue[i + 1] = Len(file) + (i + 1) /\ i + 1 <= Len(queue) - Commands
          \/ queue[i + 1] = Finalize /\ final = "sent" /\ i + 1 = Len(queue)
      BY <3>1, <2>1 DEF JournalInv, QueueInOrder
    <3>3. Commands \in Nat /\ Commands' = Commands /\ final' = final
      BY <2>1, <2>2 DEF Commands
    <3>4. Len(file') = Len(file) + 1 /\ Len(queue') = Len(queue) - 1 /\ i \in Nat
      BY <2>6, <1>t
    <3>5. CASE queue[i + 1] = Len(file) + (i + 1) /\ i + 1 <= Len(queue) - Commands
      <4>1. queue'[i] = Len(file') + i /\ i <= Len(queue') - Commands'
        BY <3>1, <3>3, <3>4, <3>5, <1>t
      <4> QED BY <4>1
    <3>6. CASE queue[i + 1] = Finalize /\ final = "sent" /\ i + 1 = Len(queue)
      <4>1. i = Len(queue')
        BY <3>4, <3>6, <1>t
      <4> QED BY <3>1, <3>3, <3>6, <4>1
    <3> QED BY <3>2, <3>5, <3>6
  <2>9. RecordsCounted'
    <3>1. Recorded \in Int /\ Commands \in Nat
      BY <1>t DEF Recorded, Commands
    <3>2. Len(file) + Len(queue) = Recorded + Commands
      BY <2>1 DEF JournalInv, RecordsCounted
    <3>3. Len(file') + Len(queue') = Len(file) + Len(queue)
      BY <2>6, <1>t
    <3> QED BY <2>2, <3>2, <3>3 DEF RecordsCounted
  <2> QED BY <2>3, <2>7, <2>8, <2>9 DEF JournalInv
<1>7. CASE WriterFails
  <2>1. /\ writer \in {"opening", "running"} /\ writer' = "failed"
        /\ final' = IF final = "sent" THEN "err" ELSE final
        /\ UNCHANGED <<turns, tick, file, artifact>>
    BY <1>7 DEF WriterFails, tickVars
  <2> QED BY <2>1 DEF JournalInv, Stages, WriterListens
<1>8. CASE FinalizeSends
  <2>1. /\ final = "requested" /\ tick = "ended"
        /\ UNCHANGED <<turns, tick, writer, file, artifact>>
    BY <1>8 DEF FinalizeSends, JournalInv, Stages, tickVars
  <2>2. CASE ~WriterListens
    BY <1>8, <2>1, <2>2 DEF FinalizeSends, JournalInv, Stages, WriterListens
  <2>3. CASE WriterListens
    <3>1. queue' = Append(queue, 0) /\ final' = "sent"
      BY <1>8, <2>3 DEF FinalizeSends, Finalize
    <3>2. Commands = 0 /\ Commands' = 1 /\ Recorded' = Recorded /\ Recorded = turns
      BY <2>1, <3>1 DEF Commands, Recorded
    <3>3. Len(queue') = Len(queue) + 1
      BY <1>t, <3>1
    <3>4. RecordsCounted'
      <4>1. Len(file) + Len(queue) = turns
        BY <2>3, <3>2, <1>t DEF JournalInv, RecordsCounted
      <4>2. file' = file
        BY <2>1
      <4>3. Len(file') + Len(queue') = turns + 1
        BY <3>3, <4>1, <4>2, <1>t
      <4>4. Recorded' = turns
        BY <3>2
      <4> QED BY <3>2, <4>3, <4>4 DEF RecordsCounted
    <3>5. QueueInOrder'
      <4> SUFFICES ASSUME NEW i \in 1..Len(queue')
                   PROVE  \/ queue'[i] = Len(file') + i /\ i <= Len(queue') - Commands'
                          \/ queue'[i] = Finalize /\ final' = "sent" /\ i = Len(queue')
        BY DEF QueueInOrder
      <4>1. CASE i = Len(queue) + 1
        BY <4>1, <3>1, <3>3, <1>t DEF Finalize
      <4>2. CASE i \in 1..Len(queue)
        <5>1. queue[i] = Len(file) + i
          BY <4>2, <2>1, <2>3 DEF JournalInv, QueueInOrder
        <5> QED BY <4>2, <5>1, <2>1, <3>1, <3>2, <3>3, <1>t
      <4> QED BY <4>1, <4>2, <3>3, <1>t
    <3>6. FileInOrder' /\ Stages'
      BY <2>1, <2>3, <3>1 DEF JournalInv, FileInOrder, Stages, WriterListens
    <3>7. artifact' = {}
      BY <2>1, <2>3 DEF JournalInv, Stages, WriterListens
    <3> QED BY <3>4, <3>5, <3>6, <3>7 DEF JournalInv
  <2> QED BY <2>2, <2>3
<1>9. CASE WriterFinalizes
  <2>1. /\ WriterListens /\ queue # <<>> /\ Head(queue) = Finalize
        /\ artifact' = {file} /\ writer' = "done" /\ final' = "ok"
        /\ UNCHANGED <<turns, tick, file>>
    BY <1>9 DEF WriterFinalizes, WriterListens, tickVars
  <2>2. Len(queue) >= 1 /\ queue[1] = 0
    BY <2>1, <1>t DEF Finalize
  <2>3. final = "sent" /\ Len(queue) = 1
    <3>1. \/ queue[1] = Len(file) + 1
          \/ final = "sent" /\ 1 = Len(queue)
      <4>1. QueueInOrder /\ 1 \in 1..Len(queue)
        BY <2>1, <2>2, <1>t DEF JournalInv
      <4> QED BY <4>1 DEF QueueInOrder
    <3> QED BY <3>1, <2>2, <1>t
  <2>4. tick = "ended" /\ Recorded = turns /\ Commands = 1
    BY <2>3 DEF JournalInv, Stages, Recorded, Commands
  <2>5. Len(file) = turns
    BY <2>1, <2>3, <2>4, <1>t DEF JournalInv, RecordsCounted
  <2>6. FileInOrder'
    BY <2>1 DEF JournalInv, FileInOrder
  <2>7. Stages' /\ ~WriterListens'
    BY <2>1, <2>4 DEF Stages, WriterListens
  <2> QED BY <2>1, <2>5, <2>6, <2>7 DEF JournalInv
<1>10. CASE \E p \in Players : Joining(p) \/ Playing(p)
  <2>1. UNCHANGED <<tickVars, journalVars>>
    BY <1>10 DEF Joining, Playing, Insert, Snapshot, Replay, Registered, Unregister,
          LoseLink, Receive, Execute, StartLoading, FinishLoading
  <2> QED BY <2>1, JournalInvFrame
<1>11. CASE UNCHANGED vars
  BY <1>11, JournalInvFrame DEF vars
<1> QED BY <1>1, <1>2, <1>3, <1>4, <1>5, <1>6, <1>7, <1>8, <1>9, <1>10, <1>11
      DEF Next, Tick, Writer

LEMMA JournalInvCorrect == Spec => []JournalInv
<1>1. Typed /\ JournalInv /\ [Next]_vars => Typed' /\ JournalInv'
  BY TypedStep, JournalInvStep
<1> QED BY <1>1, TypedInit, JournalInvInit, PTL DEF Spec

LEMMA ArtifactWhole == Typed /\ JournalInv => \A r \in artifact : r = AllTurns
<1> SUFFICES ASSUME Typed, JournalInv, NEW r \in artifact PROVE r = AllTurns
  OBVIOUS
<1>1. r = file /\ FileInOrder /\ Len(file) = turns
  BY DEF JournalInv
<1>2. file \in Seq(Turn) /\ turns \in Nat
  BY DEF Typed, JournalType, TickType
<1>3. DOMAIN file = 1..turns /\ file = [i \in DOMAIN file |-> file[i]]
  BY <1>1, <1>2
<1> QED BY <1>1, <1>3 DEF FileInOrder, AllTurns

\* Every reachable state is well-typed: the writer's queue, the live history and
\* every connection's channel keep within their capacities.
THEOREM TypeCorrect == Spec => []TypeOK
<1>1. Typed /\ JournalInv => TypeOK
  BY DEF Typed, JournalInv, TypeOK, TickType, JournalType, RelayType, ConnType, ClientType
<1> QED BY <1>1, TypedCorrect, JournalInvCorrect, PTL

\* Whatever the writer's delays and failures, what is archived is the whole match.
THEOREM ReplayFaithfulCorrect == Spec => []ReplayFaithful
<1>1. Typed /\ JournalInv => ReplayFaithful
  BY ArtifactWhole DEF ReplayFaithful
<1> QED BY <1>1, TypedCorrect, JournalInvCorrect, PTL

-----------------------------------------------------------------------------
(* Steps of the log.                                                           *)

LEMMA AllTurnsGrows ==
    ASSUME turns \in Nat, turns' = turns + 1
    PROVE  AllTurns' = Append(AllTurns, Len(AllTurns) + 1)
<1>1. AllTurns \in Seq(Nat) /\ Len(AllTurns) = turns
  BY DEF AllTurns
<1> DEFINE longer == Append(AllTurns, Len(AllTurns) + 1)
<1>2. longer \in Seq(Nat) /\ Len(longer) = turns + 1
  BY <1>1
<1>3. DOMAIN longer = 1..turns + 1 /\ longer = [i \in 1..turns + 1 |-> longer[i]]
  BY <1>2
<1>4. ASSUME NEW i \in 1..turns + 1 PROVE longer[i] = i
  <2>0. i = turns + 1 \/ i \in 1..turns
    OBVIOUS
  <2>1. CASE i = turns + 1
    BY <2>1, <1>1
  <2>2. CASE i \in 1..turns
    <3>1. longer[i] = AllTurns[i]
      BY <2>2, <1>1
    <3> QED BY <2>2, <3>1 DEF AllTurns
  <2> HIDE DEF longer
  <2> QED BY <2>0, <2>1, <2>2
<1>5. AllTurns' = [i \in 1..turns + 1 |-> i]
  BY DEF AllTurns
<1> HIDE DEF longer
<1>6. AllTurns' = longer
  BY <1>3, <1>4, <1>5
<1> QED BY <1>6 DEF longer

\* Every step of the stream is a step of the log: the tick task numbers a turn, the
\* match closes, the artifact is written; anything else leaves the log alone.
LEMMA LogStep == Typed /\ JournalInv /\ JournalInv' /\ [Next]_vars => [Log!LogNext]_Log!logVars
<1> SUFFICES ASSUME Typed, JournalInv, JournalInv', [Next]_vars
             PROVE  [Log!LogNext]_Log!logVars
  OBVIOUS
<1>t. turns \in Nat
  BY StreamAssumption DEF Typed, TickType
<1>1. CASE TickStart
  <2>1. turns' = turns + 1 /\ tick = "idle" /\ tick' = "append" /\ artifact' = artifact
    BY <1>1 DEF TickStart, journalVars
  <2>2. AllTurns' = Append(AllTurns, Len(AllTurns) + 1)
    BY <1>t, <2>1, AllTurnsGrows
  <2>3. Log!Emit
    BY <2>1, <2>2 DEF Log!Emit
  <2> QED BY <2>3 DEF Log!LogNext
<1>2. CASE TickEnd
  <2>1. turns' = turns /\ tick = "idle" /\ tick' = "ended" /\ artifact' = artifact
    BY <1>2 DEF TickEnd
  <2>2. AllTurns' = AllTurns
    BY <2>1 DEF AllTurns
  <2>3. Log!Close
    BY <2>1, <2>2 DEF Log!Close
  <2> QED BY <2>3 DEF Log!LogNext
<1>3. CASE WriterFinalizes
  <2>1. /\ writer = "running" /\ artifact' = {file}
        /\ turns' = turns /\ tick' = tick /\ final' = "ok"
    BY <1>3 DEF WriterFinalizes, tickVars
  <2>2. artifact = {} /\ tick = "ended"
    BY <2>1 DEF JournalInv, Stages
  <2>3. AllTurns' = AllTurns
    BY <2>1 DEF AllTurns
  <2>4. file = AllTurns
    <3>1. file' = file
      BY <1>3 DEF WriterFinalizes
    <3>2. FileInOrder' /\ Len(file') = turns'
      BY <2>1 DEF JournalInv
    <3>3. file \in Seq(Turn)
      BY DEF Typed, JournalType
    <3>4. DOMAIN file = 1..turns /\ file = [i \in DOMAIN file |-> file[i]]
      BY <2>1, <3>1, <3>2, <3>3, <1>t
    <3>5. \A i \in 1..turns : file[i] = i
      BY <2>1, <3>1, <3>2, <1>t DEF FileInOrder
    <3> QED BY <3>4, <3>5 DEF AllTurns
  <2>5. Log!Publish
    BY <2>1, <2>2, <2>3, <2>4 DEF Log!Publish
  <2> QED BY <2>5 DEF Log!LogNext
<1>4. ASSUME turns' = turns, artifact' = artifact,
             tick # "ended" <=> tick' # "ended"
      PROVE  UNCHANGED Log!logVars
  <2>1. AllTurns' = AllTurns
    BY <1>4 DEF AllTurns
  <2>2. (tick # "ended")' = (tick # "ended")
    BY <1>4
  <2> QED BY <1>4, <2>1, <2>2 DEF Log!logVars
<1>5. CASE TickAppend \/ TickPush \/ TickBroadcast
  BY <1>4, <1>5 DEF TickAppend, AppendFails, AppendQueued, TickPush, TickBroadcast, journalVars
<1>6. CASE WriterOpens \/ WriterAppends \/ WriterFails \/ FinalizeSends
  BY <1>4, <1>6 DEF WriterOpens, WriterAppends, WriterFails, FinalizeSends, tickVars
<1>7. CASE \E p \in Players : Joining(p) \/ Playing(p)
  BY <1>4, <1>7 DEF Joining, Playing, Insert, Snapshot, Replay, Registered, Unregister,
        LoseLink, Receive, Execute, StartLoading, FinishLoading, tickVars, journalVars
<1>8. CASE UNCHANGED vars
  BY <1>4, <1>8 DEF vars, tickVars, journalVars
<1> QED BY <1>1, <1>2, <1>3, <1>5, <1>6, <1>7, <1>8 DEF Next, Tick, Writer

\* The stream implements the log: turns are numbered one after the other until the
\* match closes, and the archive is written once, with all of them.
THEOREM ImplementsLogCorrect == Spec => ImplementsLog
<1>1. Init => Log!LogInit
  BY DEF Init, Log!LogInit, AllTurns
<1>2. Typed /\ JournalInv /\ JournalInv' /\ [Next]_vars => [Log!LogNext]_Log!logVars
  BY LogStep
<1> QED BY <1>1, <1>2, TypedCorrect, JournalInvCorrect, PTL DEF Spec, ImplementsLog, Log!LogSpec

-----------------------------------------------------------------------------
(* What the connections are sent.  The live history ends with the turn pushed  *)
(* last and has no hole, as long as the writer has not failed.                 *)

Pushed == IF tick \in {"append", "push"} THEN turns - 1 ELSE turns

LiveRecent ==
    /\ writer # "failed" /\ artifact = {} =>
           \A i \in 1..Len(live) : live[i] = Pushed - Len(live) + i
    /\ artifact # {} => live = <<>>

\* No turn reaches a client, or its snapshot, before it is recorded.
NothingEarly ==
    /\ \A i \in 1..Len(live) : live[i] <= Recorded
    /\ \A p \in Players :
        /\ \A i \in 1..Len(hist[p]) : hist[p][i] <= Recorded
        /\ \A t \in sent[p] : t <= Recorded

LEMMA LiveInit == Init => LiveRecent /\ NothingEarly
<1> SUFFICES ASSUME Init PROVE LiveRecent /\ NothingEarly
  OBVIOUS
<1>1. Len(live) = 0 /\ \A p \in Players : Len(hist[p]) = 0 /\ sent[p] = {}
  BY DEF Init
<1> QED BY <1>1 DEF Init, LiveRecent, NothingEarly

LEMMA LiveRecentStep ==
    Typed /\ JournalInv /\ LiveRecent /\ [Next]_vars => LiveRecent'
<1> SUFFICES ASSUME Typed, JournalInv, LiveRecent, [Next]_vars PROVE LiveRecent'
  OBVIOUS
<1> USE StreamAssumption
<1>t. /\ turns \in Nat
      /\ live \in Seq(Turn) /\ Len(live) \in Nat
      /\ tick = "push" => turns \in Turn
  BY DEF Typed, TickType, JournalType, Turn
<1>1. CASE TickStart
  <2>1. Pushed' = Pushed /\ UNCHANGED <<live, writer, artifact>>
    BY <1>1, <1>t DEF TickStart, journalVars, Pushed
  <2> QED BY <2>1 DEF LiveRecent
<1>2. CASE TickAppend
  <2>1. CASE AppendFails
    <3>1. writer' \in {"done", "failed"} /\ UNCHANGED <<live, writer, artifact>>
      BY <1>2, <2>1 DEF TickAppend, AppendFails, WriterListens, Typed, JournalType, Writers
    <3>2. tick = "append" => artifact = {}
      BY DEF JournalInv, Stages
    <3> QED BY <1>2, <3>1, <3>2 DEF TickAppend, LiveRecent, JournalInv, Stages
  <2>2. CASE AppendQueued
    <3>1. Pushed' = Pushed /\ UNCHANGED <<live, writer, artifact>>
      BY <1>2, <2>2 DEF TickAppend, AppendQueued, Pushed
    <3> QED BY <3>1 DEF LiveRecent
  <2> QED BY <1>2, <2>1, <2>2 DEF TickAppend
<1>3. CASE TickPush
  <2>1. /\ tick = "push" /\ tick' = "broadcast" /\ turns' = turns
        /\ UNCHANGED <<writer, artifact>> /\ artifact = {}
    BY <1>3 DEF TickPush, JournalInv, Stages
  <2>2. Pushed = turns - 1 /\ Pushed' = turns
    BY <2>1 DEF Pushed
  <2> DEFINE longer == Append(live, turns)
  <2>3. /\ longer \in Seq(Turn) /\ Len(longer) = Len(live) + 1
        /\ \A i \in 1..Len(live) : longer[i] = live[i]
        /\ longer[Len(live) + 1] = turns
    BY <1>t, <2>1
  <2>4. live' = IF Len(longer) > LiveCap THEN Tail(longer) ELSE longer
    BY <1>3 DEF TickPush, Newest
  <2>5. SUFFICES ASSUME writer # "failed" PROVE \A i \in 1..Len(live') : live'[i] = turns - Len(live') + i
    BY <2>1, <2>2 DEF LiveRecent
  <2>6. \A i \in 1..Len(live) : live[i] = (turns - 1) - Len(live) + i
    BY <2>1, <2>2, <2>5 DEF LiveRecent
  <2> HIDE DEF longer
  <2>7. \A i \in 1..Len(longer) : longer[i] = turns - Len(longer) + i
    <3> TAKE i \in 1..Len(longer)
    <3>1. i \in 1..Len(live) \/ i = Len(live) + 1
      BY <2>3, <1>t
    <3>2. CASE i = Len(live) + 1
      BY <2>3, <3>2, <1>t
    <3>3. CASE i \in 1..Len(live)
      <4>1. longer[i] = (turns - 1) - Len(live) + i
        BY <2>3, <2>6, <3>3
      <4> QED BY <2>3, <4>1, <1>t
    <3> QED BY <3>1, <3>2, <3>3
  <2>8. CASE live' = longer
    BY <2>7, <2>8
  <2>9. CASE live' = Tail(longer)
    <3>1. Len(Tail(longer)) = Len(longer) - 1
      BY <2>3, <1>t
    <3>2. \A i \in 1..Len(longer) - 1 : Tail(longer)[i] = longer[i + 1]
      BY <2>3, <1>t
    <3> TAKE i \in 1..Len(live')
    <3>3. i + 1 \in 1..Len(longer) /\ live'[i] = longer[i + 1]
      BY <2>3, <2>9, <3>1, <3>2, <1>t
    <3>4. live'[i] = turns - Len(longer) + (i + 1)
      BY <2>7, <3>3
    <3>5. Len(live') = Len(longer) - 1
      BY <2>9, <3>1
    <3> QED BY <2>3, <3>4, <3>5, <1>t
  <2> QED BY <2>4, <2>8, <2>9
<1>4. CASE TickBroadcast \/ TickEnd
  <2>1. Pushed' = Pushed /\ UNCHANGED <<live, writer, artifact>>
    BY <1>4 DEF TickBroadcast, TickEnd, journalVars, Pushed
  <2> QED BY <2>1 DEF LiveRecent
<1>5. CASE WriterOpens \/ WriterAppends \/ FinalizeSends
  <2>1. /\ Pushed' = Pushed /\ UNCHANGED <<live, artifact>>
        /\ writer' # "failed" => writer # "failed"
    BY <1>5 DEF WriterOpens, WriterAppends, FinalizeSends, tickVars, Pushed
  <2> QED BY <2>1 DEF LiveRecent
<1>6. CASE WriterFails
  <2>1. writer' = "failed" /\ UNCHANGED <<live, artifact>>
    BY <1>6 DEF WriterFails
  <2> QED BY <2>1 DEF LiveRecent
<1>7. CASE WriterFinalizes
  <2>1. live' = <<>> /\ artifact' # {}
    BY <1>7 DEF WriterFinalizes
  <2> QED BY <2>1 DEF LiveRecent
<1>8. CASE (\E p \in Players : Joining(p) \/ Playing(p)) \/ UNCHANGED vars
  <2>1. UNCHANGED <<tickVars, journalVars>>
    BY <1>8 DEF Joining, Playing, Insert, Snapshot, Replay, Registered, Unregister,
          LoseLink, Receive, Execute, StartLoading, FinishLoading, vars
  <2>2. Pushed' = Pushed /\ UNCHANGED <<live, writer, artifact>>
    BY <2>1 DEF tickVars, journalVars, Pushed
  <2> QED BY <2>2 DEF LiveRecent
<1> QED BY <1>1, <1>2, <1>3, <1>4, <1>5, <1>6, <1>7, <1>8 DEF Next, Tick, Writer

LEMMA NothingEarlyStep ==
    Typed /\ NothingEarly /\ [Next]_vars => NothingEarly'
<1> SUFFICES ASSUME Typed, NothingEarly, [Next]_vars PROVE NothingEarly'
  OBVIOUS
<1> USE StreamAssumption
<1>t. /\ turns \in Nat
      /\ live \in Seq(Turn) /\ Len(live) \in Nat
      /\ \A p \in Players : hist[p] \in Seq(Turn) /\ Len(hist[p]) \in Nat
      /\ \A p \in Players : sent[p] \subseteq Turn
  BY DEF Typed, TickType, JournalType, ConnType
<1>r. Recorded \in Int /\ Turn \subseteq Int
  BY <1>t DEF Recorded, Turn
<1>1. ASSUME Recorded' \in Int, Recorded <= Recorded', UNCHANGED <<live, hist, sent>>
      PROVE  NothingEarly'
  <2>1. ASSUME NEW i \in 1..Len(live') PROVE live'[i] <= Recorded'
    <3>1. live' = live /\ i \in 1..Len(live)
      BY <1>1
    <3>2. live[i] \in Turn
      BY <1>t, <3>1
    <3>3. live[i] \in Int /\ live[i] <= Recorded
      BY <3>1, <3>2, <1>r DEF NothingEarly
    <3> QED BY <1>1, <3>1, <3>3, <1>r
  <2>2. ASSUME NEW p \in Players, NEW i \in 1..Len(hist'[p]) PROVE hist'[p][i] <= Recorded'
    <3>1. hist' = hist /\ i \in 1..Len(hist[p])
      BY <1>1
    <3>2. hist[p] \in Seq(Turn)
      BY <1>t
    <3>3. hist[p][i] \in Turn
      BY <3>1, <3>2
    <3>4. hist[p][i] \in Int /\ hist[p][i] <= Recorded
      BY <3>1, <3>3, <1>r DEF NothingEarly
    <3>5. hist'[p][i] = hist[p][i]
      BY <3>1
    <3> QED BY <1>1, <3>4, <3>5, <1>r
  <2>3. ASSUME NEW p \in Players, NEW t \in sent'[p] PROVE t <= Recorded'
    <3>1. t \in sent[p] /\ t \in Turn
      BY <1>1, <1>t
    <3>2. t \in Int /\ t <= Recorded
      BY <3>1, <1>r DEF NothingEarly
    <3> QED BY <1>1, <3>2, <1>r
  <2> QED BY <2>1, <2>2, <2>3 DEF NothingEarly
<1>2. CASE TickStart \/ TickAppend
  <2>1. /\ Recorded' \in Int /\ Recorded <= Recorded'
        /\ UNCHANGED <<live, hist, sent>>
    BY <1>2, <1>t DEF TickStart, TickAppend, AppendFails, AppendQueued, journalVars, connVars,
          Recorded
  <2> QED BY <1>1, <2>1
<1>3. CASE TickPush
  <2>1. Recorded = turns /\ Recorded' = turns /\ UNCHANGED <<hist, sent>> /\ turns \in Turn
    BY <1>3 DEF TickPush, Recorded, connVars, Typed, TickType
  <2> DEFINE longer == Append(live, turns)
  <2>2. /\ longer \in Seq(Turn) /\ Len(longer) = Len(live) + 1
        /\ \A i \in 1..Len(live) : longer[i] = live[i]
        /\ longer[Len(live) + 1] = turns
    BY <1>t, <2>1
  <2>3. live' = IF Len(longer) > LiveCap THEN Tail(longer) ELSE longer
    BY <1>3 DEF TickPush, Newest
  <2> HIDE DEF longer
  <2>4. \A i \in 1..Len(longer) : longer[i] <= turns
    <3> TAKE i \in 1..Len(longer)
    <3>1. i \in 1..Len(live) \/ i = Len(live) + 1
      BY <2>2, <1>t
    <3> QED BY <2>1, <2>2, <3>1, <1>t DEF NothingEarly
  <2>5. \A i \in 1..Len(live') : live'[i] <= turns
    <3>1. CASE live' = longer
      BY <2>4, <3>1
    <3>2. CASE live' = Tail(longer)
      <4>1. Len(Tail(longer)) = Len(longer) - 1
        BY <2>2, <1>t
      <4>2. \A i \in 1..Len(longer) - 1 : Tail(longer)[i] = longer[i + 1]
        BY <2>2, <1>t
      <4> TAKE i \in 1..Len(live')
      <4>3. i + 1 \in 1..Len(longer) /\ live'[i] = longer[i + 1]
        BY <2>2, <3>2, <4>1, <4>2, <1>t
      <4> QED BY <2>4, <4>3
    <3> QED BY <2>3, <3>1, <3>2
  <2> QED BY <2>1, <2>5 DEF NothingEarly
<1>4. CASE TickBroadcast
  <2>1. Recorded = turns /\ Recorded' = turns /\ UNCHANGED <<live, hist>>
    BY <1>4 DEF TickBroadcast, Recorded, journalVars
  <2>2. ASSUME NEW p \in Players, NEW t \in sent'[p] PROVE t <= turns
    <3>1. t \in sent[p] \/ t = turns
      BY <1>4, <2>2 DEF TickBroadcast, Broadcast
    <3> QED BY <2>1, <3>1, <1>t DEF NothingEarly
  <2> QED BY <2>1, <2>2 DEF NothingEarly
<1>5. CASE TickEnd \/ WriterOpens \/ WriterAppends \/ WriterFails \/ FinalizeSends
  <2>1. Recorded' = Recorded /\ UNCHANGED <<live, hist, sent>>
    BY <1>5 DEF TickEnd, WriterOpens, WriterAppends, WriterFails, FinalizeSends, tickVars,
          connVars, Recorded
  <2> QED BY <1>1, <1>r, <2>1
<1>6. CASE WriterFinalizes
  <2>1. Recorded' = Recorded /\ live' = <<>> /\ UNCHANGED <<hist, sent>>
    BY <1>6 DEF WriterFinalizes, tickVars, connVars, Recorded
  <2>2. Len(live') = 0
    BY <2>1
  <2> QED BY <2>1, <2>2 DEF NothingEarly
<1>7. ASSUME NEW p \in Players, Insert(p) \/ Snapshot(p) \/ Replay(p) PROVE NothingEarly'
  <2>1. Recorded' = Recorded /\ live' = live
    BY <1>7 DEF Insert, Snapshot, Replay, tickVars, journalVars, Recorded
  <2>2. CASE Insert(p)
    <3>1. /\ \A q \in Players : hist'[q] = IF q = p THEN <<>> ELSE hist[q]
          /\ \A q \in Players : sent'[q] = IF q = p THEN {} ELSE sent[q]
      BY <2>2 DEF Insert, Typed, ConnType
    <3>2. Len(<<>>) = 0
      OBVIOUS
    <3> QED BY <2>1, <3>1, <3>2 DEF NothingEarly
  <2>3. CASE Snapshot(p)
    <3>1. /\ \A q \in Players : hist'[q] = IF q = p THEN live ELSE hist[q]
          /\ sent' = sent
      BY <2>3 DEF Snapshot, Typed, ConnType
    <3> QED BY <2>1, <3>1 DEF NothingEarly
  <2>4. CASE Replay(p)
    <3>1. /\ hist[p] # <<>>
          /\ \A q \in Players : hist'[q] = IF q = p THEN Tail(hist[p]) ELSE hist[q]
          /\ \A q \in Players : sent'[q] \subseteq sent[q] \cup {Head(hist[q])}
          /\ \A q \in Players : q # p => sent'[q] = sent[q]
      BY <2>4 DEF Replay, Typed, ConnType
    <3>2. /\ Len(Tail(hist[p])) = Len(hist[p]) - 1 /\ Len(hist[p]) >= 1
          /\ Head(hist[p]) = hist[p][1]
          /\ \A i \in 1..Len(hist[p]) - 1 : Tail(hist[p])[i] = hist[p][i + 1]
      BY <3>1, <1>t
    <3>3. Head(hist[p]) <= Recorded
      BY <3>2, <1>t DEF NothingEarly
    <3>4. ASSUME NEW i \in 1..Len(hist'[p]) PROVE hist'[p][i] <= Recorded
      <4>1. i + 1 \in 1..Len(hist[p]) /\ hist'[p][i] = hist[p][i + 1]
        <5>1. hist'[p] = Tail(hist[p])
          BY <3>1
        <5>2. i \in 1..Len(hist[p]) - 1 /\ Len(hist[p]) \in Nat
          BY <3>2, <5>1, <1>t
        <5> QED BY <3>2, <5>1, <5>2
      <4> QED BY <4>1 DEF NothingEarly
    <3>5. ASSUME NEW t \in sent'[p] PROVE t <= Recorded
      BY <3>1, <3>3 DEF NothingEarly
    <3> QED BY <2>1, <3>1, <3>4, <3>5 DEF NothingEarly
  <2> QED BY <1>7, <2>2, <2>3, <2>4
<1>8. ASSUME NEW p \in Players, Registered(p) \/ Unregister(p) \/ Playing(p) PROVE NothingEarly'
  <2>1. UNCHANGED <<tickVars, live, hist, sent>>
    BY <1>8 DEF Playing, Registered, Unregister, LoseLink, Receive, Execute, StartLoading,
          FinishLoading, journalVars, connVars
  <2>2. Recorded' = Recorded
    BY <2>1 DEF tickVars, Recorded
  <2> QED BY <1>1, <1>r, <2>1, <2>2
<1>9. CASE UNCHANGED vars
  <2>1. Recorded' = Recorded /\ UNCHANGED <<live, hist, sent>>
    BY <1>9 DEF vars, tickVars, journalVars, connVars, Recorded
  <2> QED BY <1>1, <1>r, <2>1
<1> QED BY <1>2, <1>3, <1>4, <1>5, <1>6, <1>7, <1>8, <1>9 DEF Next, Tick, Writer, Joining

StreamInv == Typed /\ JournalInv /\ LiveRecent /\ NothingEarly

LEMMA StreamInvCorrect == Spec => []StreamInv
<1>1. Init => StreamInv
  BY TypedInit, JournalInvInit, LiveInit DEF StreamInv
<1>2. StreamInv /\ [Next]_vars => StreamInv'
  BY TypedStep, JournalInvStep, LiveRecentStep, NothingEarlyStep DEF StreamInv
<1> QED BY <1>1, <1>2, PTL DEF Spec

\* What any player was sent is in the journal, or in its queue, or archived, unless
\* the writer has failed.
THEOREM JournalFirstCorrect == Spec => []JournalFirst
<1>1. StreamInv => JournalFirst
  <2> SUFFICES ASSUME StreamInv, writer # "failed", NEW p \in Players, NEW t \in sent[p]
               PROVE  t <= Len(file) + Len(queue) \/ artifact # {}
    BY DEF JournalFirst
  <2>1. CASE artifact # {}
    BY <2>1
  <2>2. CASE artifact = {}
    <3>1. WriterListens
      BY <2>2 DEF StreamInv, Typed, JournalType, Writers, JournalInv, Stages, WriterListens
    <3>2. Len(file) + Len(queue) = Recorded + Commands
      BY <3>1 DEF StreamInv, JournalInv, RecordsCounted
    <3>3. t <= Recorded /\ t \in Int
      BY DEF StreamInv, NothingEarly, Typed, ConnType, Turn
    <3>4. Recorded \in Int /\ Commands \in Nat
      BY StreamAssumption DEF StreamInv, Typed, TickType, Recorded, Commands
    <3> QED BY <3>2, <3>3, <3>4
  <2> QED BY <2>1, <2>2
<1> QED BY <1>1, StreamInvCorrect, PTL

-----------------------------------------------------------------------------
(* Nothing falls between the snapshot and the broadcasts.                      *)

\* Turn t was handled for p: sent, shed by a full channel, or still to be replayed.
Handled(p, t) == t \in sent[p] \cup Range(hist[p]) \cup shed[p]

Kept ==
    writer # "failed" =>
        \A p \in clients :
            /\ reg[p] # "off"
            /\ \A t \in owed[p]..Broadcasted : Handled(p, t)

InsertedFresh == \A p \in Players : reg[p] = "inserted" => hist[p] = <<>>

LEMMA InRange == ASSUME NEW s, NEW t PROVE t \in Range(s) <=> \E i \in DOMAIN s : s[i] = t
<1> QED BY DEF Range

\* A step that drops nothing a client was sent or owed, and broadcasts nothing.
LEMMA KeptFrame ==
    ASSUME Kept, writer' # "failed" => writer # "failed",
           clients' \subseteq clients, UNCHANGED <<hist, sent, shed, owed>>,
           Broadcasted' = Broadcasted,
           \A p \in clients' : reg[p] # "off" => reg'[p] # "off"
    PROVE  Kept'
<1> SUFFICES ASSUME writer' # "failed", NEW p \in clients'
             PROVE  /\ reg'[p] # "off"
                    /\ \A t \in owed'[p]..Broadcasted' : Handled(p, t)'
  BY DEF Kept
<1>1. reg[p] # "off" /\ \A t \in owed[p]..Broadcasted : Handled(p, t)
  BY DEF Kept
<1> QED BY <1>1 DEF Handled

\* A step that changes the connection of p alone.
LEMMA KeptOther ==
    ASSUME Kept, NEW p \in Players, writer' = writer, Broadcasted' = Broadcasted,
           \A q \in Players : q # p =>
               /\ q \in clients' => q \in clients
               /\ reg'[q] = reg[q] /\ hist'[q] = hist[q] /\ sent'[q] = sent[q]
               /\ shed'[q] = shed[q] /\ owed'[q] = owed[q],
           clients' \subseteq Players,
           writer # "failed" /\ p \in clients' =>
               /\ reg'[p] # "off"
               /\ \A t \in owed'[p]..Broadcasted : Handled(p, t)'
    PROVE  Kept'
<1> SUFFICES ASSUME writer # "failed", NEW q \in clients'
             PROVE  /\ reg'[q] # "off"
                    /\ \A t \in owed'[q]..Broadcasted : Handled(q, t)'
  BY DEF Kept
<1>1. CASE q = p
  BY <1>1
<1>2. CASE q # p
  <2>1. reg[q] # "off" /\ \A t \in owed[q]..Broadcasted : Handled(q, t)
    BY <1>2 DEF Kept
  <2> QED BY <1>2, <2>1 DEF Handled
<1> QED BY <1>1, <1>2

LEMMA KeptStep ==
    StreamInv /\ Kept /\ InsertedFresh /\ [Next]_vars => Kept' /\ InsertedFresh'
<1> SUFFICES ASSUME StreamInv, Kept, InsertedFresh, [Next]_vars PROVE Kept' /\ InsertedFresh'
  OBVIOUS
<1> USE StreamAssumption
<1>t. /\ turns \in Nat
      /\ live \in Seq(Turn) /\ Len(live) \in Nat
      /\ clients \subseteq Players
      /\ \A p \in Players : hist[p] \in Seq(Turn) /\ Len(hist[p]) \in Nat
      /\ \A p \in Players : owed[p] \in Nat
      /\ Broadcasted \in Int
  BY DEF StreamInv, Typed, TickType, JournalType, RelayType, ConnType, Broadcasted
<1>1. CASE TickStart \/ TickAppend \/ TickPush \/ TickEnd
  <2>1. /\ Broadcasted' = Broadcasted
        /\ UNCHANGED <<writer, relayVars, connVars>>
    BY <1>1, <1>t DEF TickStart, TickAppend, AppendFails, AppendQueued, TickPush, TickEnd,
          journalVars, Broadcasted
  <2> QED BY <2>1, KeptFrame DEF relayVars, connVars, InsertedFresh
<1>2. CASE TickBroadcast
  <2>1. /\ Broadcasted = turns - 1 /\ Broadcasted' = turns
        /\ UNCHANGED <<writer, reg, hist, owed>>
    BY <1>2 DEF TickBroadcast, Broadcasted, journalVars
  <2>2. ASSUME writer # "failed", NEW p \in clients'
        PROVE  reg[p] # "off" /\ \A t \in owed[p]..turns : Handled(p, t)'
    <3>1. p \in clients /\ p \in Players
      BY <1>2, <1>t DEF TickBroadcast, Broadcast
    <3>2. reg[p] # "off" /\ \A t \in owed[p]..turns - 1 : Handled(p, t)
      BY <2>1, <2>2, <3>1 DEF Kept
    <3>3. /\ sent'[p] = IF ~Full(p) THEN sent[p] \cup {turns} ELSE sent[p]
          /\ shed'[p] = IF Full(p) THEN shed[p] \cup {turns} ELSE shed[p]
      BY <1>2, <3>1 DEF TickBroadcast, Broadcast
    <3>4. ASSUME NEW t \in owed[p]..turns PROVE Handled(p, t)'
      <4>1. t = turns \/ t \in owed[p]..turns - 1
        BY <1>t, <3>1
      <4>2. CASE t = turns
        BY <4>2, <3>3 DEF Handled
      <4>3. CASE t \in owed[p]..turns - 1
        BY <4>3, <2>1, <3>2, <3>3 DEF Handled
      <4> QED BY <4>1, <4>2, <4>3
    <3> QED BY <3>2, <3>4
  <2>3. Kept'
    BY <2>1, <2>2 DEF Kept
  <2> QED BY <2>1, <2>3 DEF InsertedFresh
<1>3. CASE Writer \/ FinalizeSends
  <2>1. /\ Broadcasted' = Broadcasted
        /\ UNCHANGED <<relayVars, connVars>>
        /\ writer' # "failed" => writer # "failed"
    BY <1>3 DEF Writer, WriterOpens, WriterAppends, WriterFails, WriterFinalizes,
          FinalizeSends, tickVars, Broadcasted
  <2> QED BY <2>1, KeptFrame DEF relayVars, connVars, InsertedFresh
<1>4. ASSUME NEW p \in Players, Insert(p) PROVE Kept' /\ InsertedFresh'
  <2>1. /\ Broadcasted = turns /\ Broadcasted' = Broadcasted /\ writer' = writer
        /\ clients' = clients \cup {p}
        /\ reg'[p] = "inserted" /\ owed'[p] = turns + 1 /\ hist'[p] = <<>>
        /\ \A q \in Players : q # p =>
               /\ reg'[q] = reg[q] /\ hist'[q] = hist[q] /\ sent'[q] = sent[q]
               /\ shed'[q] = shed[q] /\ owed'[q] = owed[q]
    BY <1>4 DEF Insert, tickVars, journalVars, Broadcasted, StreamInv, Typed, ConnType
  <2>2. owed'[p]..Broadcasted = {}
    BY <2>1, <1>t
  <2>3. Kept'
    BY <2>1, <2>2, <1>t, KeptOther
  <2> QED BY <2>1, <2>3 DEF InsertedFresh
<1>5. ASSUME NEW p \in Players, Snapshot(p) PROVE Kept' /\ InsertedFresh'
  <2>1. /\ Broadcasted' = Broadcasted /\ writer' = writer /\ clients' = clients
        /\ reg[p] = "inserted" /\ reg'[p] = "replaying" /\ hist'[p] = live
        /\ sent' = sent /\ shed' = shed
        /\ owed'[p] = IF live # <<>> /\ Head(live) < owed[p] THEN Head(live) ELSE owed[p]
        /\ \A q \in Players : q # p =>
               reg'[q] = reg[q] /\ hist'[q] = hist[q] /\ owed'[q] = owed[q]
    BY <1>5 DEF Snapshot, tickVars, journalVars, relayVars, Broadcasted, StreamInv, Typed, ConnType
  <2>2. ASSUME writer # "failed", p \in clients, NEW t \in owed'[p]..Broadcasted
        PROVE  Handled(p, t)'
    <3>1. CASE t >= owed[p]
      <4>1. Handled(p, t) /\ hist[p] = <<>>
        BY <2>1, <2>2, <3>1, <1>t DEF Kept, InsertedFresh
      <4>2. Range(hist[p]) = {}
        BY <4>1 DEF Range
      <4> QED BY <2>1, <4>1, <4>2 DEF Handled
    <3>2. CASE ~(t >= owed[p])
      <4>1. live # <<>> /\ owed'[p] = Head(live) /\ Head(live) = live[1] /\ Len(live) >= 1
        BY <2>1, <2>2, <3>2, <1>t
      <4>2. artifact = {}
        BY <4>1 DEF StreamInv, LiveRecent
      <4>3. \A i \in 1..Len(live) : live[i] = Pushed - Len(live) + i
        BY <2>2, <4>2 DEF StreamInv, LiveRecent
      <4>4. Pushed \in Int /\ Broadcasted <= Pushed
        BY <1>t DEF Pushed, Broadcasted
      <4>5. live[1] = Pushed - Len(live) + 1
        BY <4>1, <4>3, <1>t
      <4> DEFINE j == t - Pushed + Len(live)
      <4>6. j \in 1..Len(live)
        BY <2>2, <4>1, <4>4, <4>5, <1>t
      <4>7. live[j] = t
        BY <4>3, <4>4, <4>6, <1>t
      <4>8. t \in Range(live)
        BY <4>6, <4>7, <1>t DEF Range
      <4> QED BY <2>1, <4>8 DEF Handled
    <3> QED BY <3>1, <3>2
  <2>3. Kept'
    BY <2>1, <2>2, <1>t, KeptOther
  <2> QED BY <2>1, <2>3 DEF InsertedFresh
<1>6. ASSUME NEW p \in Players, Replay(p) PROVE Kept' /\ InsertedFresh'
  <2>1. /\ Broadcasted' = Broadcasted /\ writer' = writer /\ clients' = clients
        /\ reg' = reg /\ owed' = owed /\ reg[p] = "replaying"
        /\ hist[p] # <<>> /\ hist'[p] = Tail(hist[p])
        /\ sent[p] \cup shed[p] \cup {Head(hist[p])} = sent'[p] \cup shed'[p]
        /\ \A q \in Players : q # p =>
               hist'[q] = hist[q] /\ sent'[q] = sent[q] /\ shed'[q] = shed[q]
    BY <1>6 DEF Replay, tickVars, journalVars, relayVars, Broadcasted, StreamInv, Typed, ConnType
  <2>2. Range(hist[p]) \subseteq {Head(hist[p])} \cup Range(hist'[p])
    <3> SUFFICES ASSUME NEW i \in DOMAIN hist[p], i # 1
                 PROVE  hist[p][i] \in Range(Tail(hist[p]))
      <4>1. ASSUME NEW y \in Range(hist[p]), y # Head(hist[p]) PROVE y \in Range(hist'[p])
        <5>1. PICK i \in DOMAIN hist[p] : hist[p][i] = y
          BY <4>1 DEF Range
        <5>2. i # 1
          BY <2>1, <4>1, <5>1, <1>t
        <5> QED BY <2>1, <5>1, <5>2
      <4> QED BY <4>1
    <3>1. i - 1 \in DOMAIN Tail(hist[p]) /\ Tail(hist[p])[i - 1] = hist[p][i]
      BY <2>1, <1>t
    <3> QED BY <3>1 DEF Range
  <2>3. ASSUME writer # "failed", p \in clients, NEW t \in owed[p]..Broadcasted
        PROVE  Handled(p, t)'
    <3>1. Handled(p, t)
      BY <2>3 DEF Kept
    <3> QED BY <2>1, <2>2, <3>1 DEF Handled
  <2>4. Kept'
    BY SMTT(40), <2>1, <2>3, <1>t, KeptOther DEF Kept
  <2> QED BY <2>1, <2>4 DEF InsertedFresh
<1>7. ASSUME NEW p \in Players, Registered(p) \/ Unregister(p) \/ Playing(p)
      PROVE  Kept' /\ InsertedFresh'
  <2>1. /\ Broadcasted' = Broadcasted /\ writer' = writer /\ clients' \subseteq clients
        /\ UNCHANGED <<hist, sent, shed, owed>>
        /\ \A q \in Players : reg'[q] = reg[q] \/ reg'[q] = "running"
    BY <1>7 DEF Playing, Registered, Unregister, LoseLink, Receive, Execute, StartLoading,
          FinishLoading, tickVars, journalVars, relayVars, connVars, Broadcasted, StreamInv,
          Typed, ConnType
  <2> QED BY <2>1, <1>t, KeptFrame DEF InsertedFresh
<1>8. CASE UNCHANGED vars
  <2>1. Broadcasted' = Broadcasted /\ UNCHANGED <<writer, clients, connVars>>
    BY <1>8 DEF vars, tickVars, journalVars, relayVars, Broadcasted
  <2> QED BY <2>1, KeptFrame DEF connVars, InsertedFresh
<1> QED BY <1>1, <1>2, <1>3, <1>4, <1>5, <1>6, <1>7, <1>8 DEF Next, Tick, Joining

\* However registrations interleave with the tick task, a registered connection is
\* sent every turn from the oldest of its snapshot on, except what its own full
\* channel shed, unless the writer has failed.
THEOREM NothingBetweenCorrect == Spec => []NothingBetween
<1>1. Init => Kept /\ InsertedFresh
  BY DEF Init, Kept, InsertedFresh
<1>2. StreamInv /\ Kept /\ InsertedFresh /\ [Next]_vars => Kept' /\ InsertedFresh'
  BY KeptStep
<1>3. Kept => NothingBetween
  BY DEF Kept, Handled, NothingBetween
<1> QED BY <1>1, <1>2, <1>3, StreamInvCorrect, PTL DEF Spec

=============================================================================
