---------------------------- MODULE RelayLobbyProofs ----------------------------
(* Theorems about RelayLobby, for every roster and every number of connections. *)
EXTENDS RelayLobby, SequenceTheorems, TLAPS

\* The event channel never holds more than EventCap well-formed events.
LEMMA SendType ==
    ASSUME events \in Seq(Events), Len(events) <= EventCap,
           overflowed \in BOOLEAN,
           NEW kind \in Kinds, NEW p \in Players, NEW c \in Conns,
           Send(kind, p, c)
    PROVE  /\ events' \in Seq(Events)
           /\ Len(events') <= EventCap
           /\ overflowed' \in BOOLEAN
<1> DEFINE e == [kind |-> kind, player |-> p, gen |-> c]
<1>1. e \in Events
  BY DEF Events, Conns, ConnOrNone
<1>2. CASE ended \/ ~(Len(events) < EventCap)
  BY <1>2 DEF Send, eventVars
<1>3. CASE ~ended /\ Len(events) < EventCap
  <2>1. events' = Append(events, e) /\ overflowed' = overflowed
    BY <1>3 DEF Send
  <2>2. EventCap \in Nat
    BY RelayAssumption
  <2> QED BY <1>1, <1>3, <2>1, <2>2
<1> QED BY <1>2, <1>3

\* The exit log stays a sequence of accounts.
LEMMA RecordExitType ==
    ASSUME inMatch \subseteq Players, exits \in Seq(Accounts),
           finalized \in BOOLEAN, NEW p \in Players, RecordExit(p)
    PROVE  /\ inMatch' \subseteq Players
           /\ exits' \in Seq(Accounts)
           /\ finalized' \in BOOLEAN
<1> DEFINE left == inMatch \ {p}
           first == IF Loggable(p) THEN Append(exits, p) ELSE exits
<1>1. inMatch' = left
  BY DEF RecordExit
<1>2. first \in Seq(Accounts)
  BY DEF Loggable
<1>3. exits' \in Seq(Accounts) /\ finalized' \in BOOLEAN
  <2>1. CASE ~(Tracked /\ ~finalized)
    BY <2>1 DEF RecordExit
  <2>2. CASE Tracked /\ ~finalized
    <3>1. finalized' = AtMostOne(left)
      BY <2>2 DEF RecordExit
    <3>2. exits' = first \/ \E w \in Survivor(left, first) : exits' = Append(first, w)
      BY <2>2 DEF RecordExit
    <3>3. Survivor(left, first) \subseteq Accounts
      BY DEF Survivor
    <3>4. AtMostOne(left) \in BOOLEAN
      BY DEF AtMostOne
    <3> HIDE DEF first, left
    <3> QED BY <1>2, <3>1, <3>2, <3>3, <3>4
  <2> QED BY <2>1, <2>2
<1> QED BY <1>1, <1>3

\* Taking an event off the channel yields an event.
LEMMA ReceiveType ==
    ASSUME EventTypeOK, NEW kind, Receive(kind)
    PROVE  /\ Head(events) \in Events
           /\ Head(events).player \in Players
           /\ Head(events).gen \in ConnOrNone
           /\ events' = Tail(events)
           /\ events' \in Seq(Events)
           /\ Len(events') <= EventCap
<1>1. events \in Seq(Events) /\ events # <<>> /\ events' = Tail(events)
  BY DEF EventTypeOK, Receive
<1>2. Head(events) \in Events
  BY <1>1
<1>3. Len(events') <= EventCap
  BY <1>1, RelayAssumption DEF EventTypeOK
<1> QED BY <1>1, <1>2, <1>3 DEF Events

\* The connections opened so far are numbered from 1, and owned by a player.
Owned ==
    \A c \in Conns :
        /\ phase[c] # "none" <=> c <= lastGen
        /\ phase[c] # "none" => owner[c] \in Players

LEMMA TypeInit == Init => TypeOK /\ Owned
<1> SUFFICES ASSUME Init PROVE TypeOK /\ Owned
  OBVIOUS
<1> USE RelayAssumption DEF Init
<1>1. /\ phase \in [Conns -> Phases]
      /\ dropping \subseteq Players
      /\ Owned
  BY DEF Phases, Owned, Conns
<1>2. ClientTypeOK /\ AuthTypeOK
  BY DEF ClientTypeOK, AuthTypeOK, Conns, ConnOrNone
<1>3. ChannelTypeOK /\ FrameTypeOK
  BY DEF ChannelTypeOK, FrameTypeOK, Conns, ConnOrNone
<1>4. EventTypeOK
  <2>1. events \in Seq(Events) /\ Len(events) = 0 /\ EventCap \in Nat
    BY EmptySeq
  <2>2. overflowed \in BOOLEAN
    OBVIOUS
  <2> QED BY <2>1, <2>2 DEF EventTypeOK
<1>5. SimTypeOK /\ TrackerTypeOK
  BY EmptySeq DEF SimTypeOK, TrackerTypeOK, Marks
<1>6. LifeTypeOK /\ ClockTypeOK
  BY DEF LifeTypeOK, ClockTypeOK
<1> QED BY <1>1, <1>2, <1>3, <1>4, <1>5, <1>6 DEF TypeOK

\* A group of variables that does not change keeps its types.
LEMMA TypeStable ==
    ASSUME TypeOK
    PROVE  /\ UNCHANGED clientVars => ClientTypeOK'
           /\ UNCHANGED authVars => AuthTypeOK'
           /\ UNCHANGED channelVars => ChannelTypeOK'
           /\ UNCHANGED frameVars => FrameTypeOK'
           /\ UNCHANGED eventVars => EventTypeOK'
           /\ UNCHANGED simVars => SimTypeOK'
           /\ UNCHANGED trackerVars => TrackerTypeOK'
           /\ UNCHANGED lifeVars => LifeTypeOK'
           /\ UNCHANGED clockVars => ClockTypeOK'
<1>1. UNCHANGED clientVars => ClientTypeOK'
  BY DEF TypeOK, ClientTypeOK, clientVars
<1>2. UNCHANGED authVars => AuthTypeOK'
  BY DEF TypeOK, AuthTypeOK, authVars
<1>3. UNCHANGED channelVars => ChannelTypeOK'
  BY DEF TypeOK, ChannelTypeOK, channelVars
<1>4. UNCHANGED frameVars => FrameTypeOK'
  BY DEF TypeOK, FrameTypeOK, frameVars
<1>5. UNCHANGED eventVars => EventTypeOK'
  BY DEF TypeOK, EventTypeOK, eventVars
<1>6. UNCHANGED simVars => SimTypeOK'
  BY DEF TypeOK, SimTypeOK, simVars
<1>7. UNCHANGED trackerVars => TrackerTypeOK'
  BY DEF TypeOK, TrackerTypeOK, trackerVars
<1>8. UNCHANGED lifeVars => LifeTypeOK'
  BY DEF TypeOK, LifeTypeOK, lifeVars
<1>9. UNCHANGED clockVars => ClockTypeOK'
  BY DEF TypeOK, ClockTypeOK, clockVars
<1> QED BY <1>1, <1>2, <1>3, <1>4, <1>5, <1>6, <1>7, <1>8, <1>9

\* Every action keeps the types.
LEMMA TypeStep ==
    ASSUME TypeOK, Owned, [Next]_vars
    PROVE  TypeOK'
<1> USE RelayAssumption DEF TypeOK, Owned
<1>1. ASSUME NEW p \in Players, Connect(p) PROVE TypeOK'
  <2>1. ClientTypeOK'
    BY <1>1 DEF Connect, Conns, ConnOrNone, ClientTypeOK
  <2>2. phase' \in [Conns -> Phases]
    BY <1>1 DEF Connect, Phases
  <2>3. UNCHANGED <<authVars, channelVars, frameVars, eventVars, simVars, trackerVars, lifeVars, clockVars, dropping>>
    BY <1>1 DEF Connect
  <2> QED BY <2>1, <2>2, <2>3, TypeStable
<1>2. ASSUME NEW p \in Players, LoseLink(p) PROVE TypeOK'
  <2>1. ClientTypeOK'
    BY <1>2 DEF LoseLink, Conns, ConnOrNone, ClientTypeOK
  <2>2. UNCHANGED <<authVars, channelVars, frameVars, eventVars, simVars, trackerVars, lifeVars, clockVars, phase, dropping>>
    BY <1>2 DEF LoseLink
  <2> QED BY <2>1, <2>2, TypeStable
<1>3. ASSUME NEW c \in Conns, Authenticate(c) PROVE TypeOK'
  <2>1. AuthTypeOK'
    <3>1. owner[c] \in Players /\ c \in ConnOrNone
      BY <1>3 DEF Authenticate, Conns, ConnOrNone
    <3>2. CASE UNCHANGED authVars
      BY <3>2, TypeStable
    <3>3. CASE initialUsed' \subseteq initialUsed \cup {owner[c]} /\ digests' = Rotated(c)
      BY <3>1, <3>3 DEF Rotated, AuthTypeOK
    <3> QED BY <1>3, <3>2, <3>3 DEF Authenticate
  <2>2. phase' \in [Conns -> Phases]
    BY <1>3 DEF Authenticate, Phases
  <2>3. UNCHANGED <<clientVars, channelVars, frameVars, eventVars, simVars, trackerVars, lifeVars, clockVars, dropping>>
    BY <1>3 DEF Authenticate
  <2> QED BY <2>1, <2>2, <2>3, TypeStable
<1>4. ASSUME NEW c \in Conns, Refuse(c) PROVE TypeOK'
  <2>1. phase' \in [Conns -> Phases]
    BY <1>4 DEF Refuse, Phases
  <2>2. UNCHANGED <<clientVars, authVars, channelVars, frameVars, eventVars, simVars, trackerVars, lifeVars, clockVars, dropping>>
    BY <1>4 DEF Refuse
  <2> QED BY <2>1, <2>2, TypeStable
<1>5. ASSUME NEW c \in Conns, Insert(c) PROVE TypeOK'
  <2>1. ChannelTypeOK'
    BY <1>5 DEF Insert, ClientTypeOK, Conns, ConnOrNone, ChannelTypeOK
  <2>2. phase' \in [Conns -> Phases]
    BY <1>5 DEF Insert, Phases
  <2>3. UNCHANGED <<clientVars, authVars, frameVars, eventVars, simVars, trackerVars, lifeVars, clockVars, dropping>>
    BY <1>5 DEF Insert
  <2> QED BY <2>1, <2>2, <2>3, TypeStable
<1>6. ASSUME NEW c \in Conns, Announce(c) PROVE TypeOK'
  <2>1. FrameTypeOK'
    <3>1. PICK n \in 0..ChannelCap : chan' = [chan EXCEPT ![c] = n]
      BY <1>6 DEF Announce, FrameTypeOK
    <3>2. ticket' = ticket \/ ticket' = [ticket EXCEPT ![c] = c]
      BY <1>6 DEF Announce
    <3>3. chan' \in [Conns -> 0..ChannelCap]
      BY <3>1 DEF FrameTypeOK
    <3>4. ticket' \in [Conns -> ConnOrNone]
      BY <3>2 DEF FrameTypeOK, Conns, ConnOrNone
    <3> QED BY <3>3, <3>4 DEF FrameTypeOK
  <2>2. EventTypeOK'
    BY <1>6, SendType DEF Announce, Kinds, EventTypeOK
  <2>3. phase' \in [Conns -> Phases]
    BY <1>6 DEF Announce, Phases
  <2>4. UNCHANGED <<clientVars, authVars, channelVars, simVars, trackerVars, lifeVars, clockVars, dropping>>
    BY <1>6 DEF Announce
  <2> QED BY <2>1, <2>2, <2>3, <2>4, TypeStable
<1>7. ASSUME NEW c \in Conns, ReReady(c) PROVE TypeOK'
  <2>1. ChannelTypeOK'
    BY <1>7 DEF ReReady, Conns, ConnOrNone, ChannelTypeOK
  <2>2. EventTypeOK'
    BY <1>7, SendType DEF ReReady, Kinds, EventTypeOK
  <2>3. UNCHANGED <<clientVars, authVars, frameVars, simVars, trackerVars, lifeVars, clockVars, phase, dropping>>
    BY <1>7 DEF ReReady
  <2> QED BY <2>1, <2>2, <2>3, TypeStable
<1>8. ASSUME NEW c \in Conns, WriteFrame(c) PROVE TypeOK'
  <2>1. ClientTypeOK'
    BY <1>8 DEF WriteFrame, FrameTypeOK, Conns, ConnOrNone, ClientTypeOK
  <2>2. FrameTypeOK'
    <3>1. chan[c] \in 1..ChannelCap /\ chan' = [chan EXCEPT ![c] = chan[c] - 1]
      BY <1>8 DEF WriteFrame, FrameTypeOK
    <3>2. ticket' = ticket \/ ticket' = [ticket EXCEPT ![c] = 0]
      BY <1>8 DEF WriteFrame
    <3> QED BY <3>1, <3>2 DEF FrameTypeOK, ConnOrNone
  <2>3. UNCHANGED <<authVars, channelVars, eventVars, simVars, trackerVars, lifeVars, clockVars, phase, dropping>>
    BY <1>8 DEF WriteFrame
  <2> QED BY <2>1, <2>2, <2>3, TypeStable
<1>9. ASSUME NEW c \in Conns, NEW kind \in {"resign", "rematch"}, ClientSends(c, kind) PROVE TypeOK'
  <2>1. EventTypeOK'
    BY <1>9, SendType DEF ClientSends, Kinds, EventTypeOK
  <2>2. UNCHANGED <<clientVars, authVars, channelVars, frameVars, simVars, trackerVars, lifeVars, clockVars, phase, dropping>>
    BY <1>9 DEF ClientSends
  <2> QED BY <2>1, <2>2, TypeStable
<1>10. ASSUME NEW c \in Conns, ClientLeaves(c) PROVE TypeOK'
  <2>1. ClientTypeOK'
    BY <1>10 DEF ClientLeaves, Conns, ConnOrNone, ClientTypeOK
  <2>2. EventTypeOK'
    BY <1>10, SendType DEF ClientLeaves, Kinds, EventTypeOK
  <2>3. UNCHANGED <<authVars, channelVars, frameVars, simVars, trackerVars, lifeVars, clockVars, phase, dropping>>
    BY <1>10 DEF ClientLeaves
  <2> QED BY <2>1, <2>2, <2>3, TypeStable
<1>11. ASSUME NEW c \in Conns, Hangup(c) PROVE TypeOK'
  <2>1. FrameTypeOK'
    BY <1>11 DEF Hangup, Conns, ConnOrNone, FrameTypeOK
  <2>2. EventTypeOK'
    BY <1>11, SendType DEF Hangup, Kinds, EventTypeOK
  <2>3. phase' \in [Conns -> Phases]
    BY <1>11 DEF Hangup, Phases
  <2>4. UNCHANGED <<clientVars, authVars, channelVars, simVars, trackerVars, lifeVars, clockVars, dropping>>
    BY <1>11 DEF Hangup
  <2> QED BY <2>1, <2>2, <2>3, <2>4, TypeStable
<1>12. CASE TickEmpty
  <2>1. LifeTypeOK'
    <3>1. emptyLeft' \in Nat
      BY <1>12 DEF TickEmpty, LifeTypeOK
    <3>2. \/ registered' = FALSE /\ ended' = TRUE
          \/ registered' = registered /\ ended' = ended
      BY <1>12 DEF TickEmpty, EndLobby
    <3> QED BY <3>1, <3>2 DEF LifeTypeOK
  <2>2. EventTypeOK'
    <3>1. events' = <<>> \/ events' = events
      BY <1>12 DEF TickEmpty, EndLobby
    <3>2. overflowed' = overflowed
      BY <1>12 DEF TickEmpty
    <3>3. events' \in Seq(Events) /\ Len(events') <= EventCap
      <4>1. CASE events' = <<>>
        BY <4>1, EmptySeq
      <4>2. CASE events' = events
        BY <4>2 DEF EventTypeOK
      <4> QED BY <3>1, <4>1, <4>2
    <3> QED BY <3>2, <3>3 DEF EventTypeOK
  <2>3. UNCHANGED <<clientVars, authVars, channelVars, frameVars, simVars, trackerVars, clockVars, phase, dropping>>
    BY <1>12 DEF TickEmpty
  <2> QED BY <2>1, <2>2, <2>3, TypeStable
<1>13. CASE TickEnd
  <2>1. LifeTypeOK'
    BY <1>13 DEF TickEnd, EndLobby, LifeTypeOK
  <2>2. EventTypeOK'
    BY <1>13 DEF TickEnd, EndLobby, EventTypeOK
  <2>3. FrameTypeOK'
    BY <1>13 DEF TickEnd, Broadcast, Full, FrameTypeOK
  <2>4. UNCHANGED <<clientVars, authVars, channelVars, simVars, trackerVars, clockVars, phase, dropping>>
    BY <1>13 DEF TickEnd
  <2> QED BY <2>1, <2>2, <2>3, <2>4, TypeStable
<1>14. CASE TickTurn
  <2>1. ChannelTypeOK'
    <3>1. clients' \in [Players -> ConnOrNone]
      BY <1>14 DEF TickTurn, ChannelTypeOK, ConnOrNone
    <3>2. ASSUME NEW p \in Connected \ Dropped, Full(clients[p])
          PROVE  missed[p] + 1 \in 0..(MaxMissed - 1)
      BY <3>2 DEF Dropped, Connected, ChannelTypeOK
    <3>3. missed' \in [Players -> 0..(MaxMissed - 1)]
      BY <1>14, <3>2 DEF TickTurn
    <3> QED BY <3>1, <3>3 DEF ChannelTypeOK
  <2>2. FrameTypeOK'
    BY <1>14 DEF TickTurn, Broadcast, Full, FrameTypeOK
  <2>3. SimTypeOK'
    BY <1>14 DEF TickTurn, Marks, SimTypeOK
  <2>4. LifeTypeOK'
    BY <1>14 DEF TickTurn, LifeTypeOK
  <2>5. dropping' \subseteq Players
    BY <1>14 DEF TickTurn, Dropped, Connected
  <2>6. UNCHANGED <<clientVars, authVars, eventVars, trackerVars, clockVars, phase>>
    BY <1>14 DEF TickTurn
  <2> QED BY <2>1, <2>2, <2>3, <2>4, <2>5, <2>6, TypeStable
<1>15. ASSUME NEW p \in Players, RecordDropped(p) PROVE TypeOK'
  <2>1. TrackerTypeOK'
    BY <1>15, RecordExitType DEF RecordDropped, TrackerTypeOK
  <2>2. dropping' \subseteq Players
    BY <1>15 DEF RecordDropped
  <2>3. UNCHANGED <<clientVars, authVars, channelVars, frameVars, eventVars, simVars, lifeVars, clockVars, phase>>
    BY <1>15 DEF RecordDropped
  <2> QED BY <2>1, <2>2, <2>3, TypeStable
<1>16. CASE ReceiveBack
  <2>1. EventTypeOK'
    BY <1>16, ReceiveType DEF ReceiveBack, EventTypeOK
  <2>2. SimTypeOK'
    BY <1>16, ReceiveType DEF ReceiveBack, Mark, Marks, SimTypeOK
  <2>3. UNCHANGED <<clientVars, authVars, channelVars, frameVars, trackerVars, lifeVars, clockVars, phase, dropping>>
    BY <1>16, ReceiveType DEF ReceiveBack
  <2> QED BY <2>1, <2>2, <2>3, TypeStable
<1>17. CASE ReceiveResign
  <2>1. EventTypeOK'
    BY <1>17, ReceiveType DEF ReceiveResign, EventTypeOK
  <2>2. SimTypeOK'
    BY <1>17, ReceiveType DEF ReceiveResign, SimTypeOK
  <2>3. TrackerTypeOK'
    BY <1>17, ReceiveType, RecordExitType DEF ReceiveResign, trackerVars, TrackerTypeOK
  <2>4. UNCHANGED <<clientVars, authVars, channelVars, frameVars, lifeVars, clockVars, phase, dropping>>
    BY <1>17, ReceiveType DEF ReceiveResign
  <2> QED BY <2>1, <2>2, <2>3, <2>4, TypeStable
<1>18. CASE ReceiveLeave
  <2>1. EventTypeOK'
    BY <1>18, ReceiveType DEF ReceiveLeave, EventTypeOK
  <2>2. ChannelTypeOK'
    <3>1. \/ UNCHANGED channelVars
          \/ \E p \in Players : /\ clients' = [clients EXCEPT ![p] = 0]
                                /\ missed' = [missed EXCEPT ![p] = 0]
      BY <1>18, ReceiveType DEF ReceiveLeave
    <3> QED BY <3>1, TypeStable DEF ChannelTypeOK, ConnOrNone
  <2>3. SimTypeOK'
    BY <1>18, ReceiveType DEF ReceiveLeave, Mark, Marks, SimTypeOK
  <2>4. TrackerTypeOK'
    BY <1>18, ReceiveType, RecordExitType DEF ReceiveLeave, trackerVars, TrackerTypeOK
  <2>5. UNCHANGED <<clientVars, authVars, frameVars, lifeVars, clockVars, phase, dropping>>
    BY <1>18, ReceiveType DEF ReceiveLeave
  <2> QED BY <2>1, <2>2, <2>3, <2>4, <2>5, TypeStable
<1>19. CASE ReceiveRematch
  <2>1. EventTypeOK'
    BY <1>19, ReceiveType DEF ReceiveRematch, EventTypeOK
  <2>2. ChannelTypeOK'
    <3>1. clients' \in [Players -> ConnOrNone]
      BY <1>19 DEF ReceiveRematch, ChannelTypeOK, ConnOrNone
    <3>2. missed' \in [Players -> 0..(MaxMissed - 1)]
      BY <1>19 DEF ReceiveRematch, ChannelTypeOK
    <3> QED BY <3>1, <3>2 DEF ChannelTypeOK
  <2>3. FrameTypeOK'
    BY <1>19, ReceiveType DEF ReceiveRematch, Broadcast, Full, FrameTypeOK
  <2>4. UNCHANGED <<clientVars, authVars, simVars, trackerVars, lifeVars, clockVars, phase, dropping>>
    BY <1>19, ReceiveType DEF ReceiveRematch
  <2> QED BY <2>1, <2>2, <2>3, <2>4, TypeStable
<1>20. CASE MgmtClose
  <2>1. LifeTypeOK'
    BY <1>20 DEF MgmtClose, LifeTypeOK
  <2>2. UNCHANGED <<clientVars, authVars, channelVars, frameVars, eventVars, simVars, trackerVars, clockVars, phase, dropping>>
    BY <1>20 DEF MgmtClose
  <2> QED BY <2>1, <2>2, TypeStable
<1>21. CASE TicketsExpire
  <2>1. ClockTypeOK'
    BY <1>21 DEF TicketsExpire, ClockTypeOK
  <2>2. UNCHANGED <<clientVars, authVars, channelVars, frameVars, eventVars, simVars, trackerVars, lifeVars, phase, dropping>>
    BY <1>21 DEF TicketsExpire
  <2> QED BY <2>1, <2>2, TypeStable
<1>22. CASE MatchTimeUp
  <2>1. ClockTypeOK'
    BY <1>22 DEF MatchTimeUp, ClockTypeOK
  <2>2. UNCHANGED <<clientVars, authVars, channelVars, frameVars, eventVars, simVars, trackerVars, lifeVars, phase, dropping>>
    BY <1>22 DEF MatchTimeUp
  <2> QED BY <2>1, <2>2, TypeStable
<1>23. CASE UNCHANGED vars
  BY <1>23, TypeStable DEF vars
<1> QED
  BY <1>1, <1>2, <1>3, <1>4, <1>5, <1>6, <1>7, <1>8, <1>9, <1>10, <1>11, <1>12, <1>13, <1>14, <1>15, <1>16, <1>17, <1>18, <1>19, <1>20, <1>21, <1>22, <1>23
     DEF Next, ConnNext, TickNext, ReceiveNext, Fail, Reap, Evict

LEMMA OwnedStep ==
    ASSUME TypeOK, Owned, [Next]_vars
    PROVE  Owned'
<1> USE DEF TypeOK, Owned
<1>1. ASSUME NEW p \in Players, Connect(p) PROVE Owned'
  <2>1. /\ lastGen + 1 \in Conns /\ lastGen' = lastGen + 1
        /\ owner' = [owner EXCEPT ![lastGen + 1] = p]
        /\ phase' = [phase EXCEPT ![lastGen + 1] = "hello"]
    BY <1>1, RelayAssumption DEF Connect, ClientTypeOK, Conns, ConnOrNone
  <2>2. lastGen \in Nat /\ \A c \in Conns : c \in Nat
    BY RelayAssumption DEF ClientTypeOK, Conns, ConnOrNone
  <2> QED BY <2>1, <2>2 DEF ClientTypeOK
<1>2. ASSUME UNCHANGED <<owner, lastGen>>,
             \A c \in Conns : phase'[c] # "none" <=> phase[c] # "none"
      PROVE  Owned'
  BY <1>2
<1>3. ASSUME NEW c \in Conns,
             \/ Authenticate(c) \/ Refuse(c) \/ Insert(c) \/ Announce(c) \/ Hangup(c)
      PROVE  Owned'
  <2>1. UNCHANGED <<owner, lastGen>>
    BY <1>3 DEF Authenticate, Refuse, Insert, Announce, Hangup, clientVars
  <2>2. phase[c] # "none" /\ \E h \in Phases \ {"none"} : phase' = [phase EXCEPT ![c] = h]
    BY <1>3 DEF Authenticate, Refuse, Insert, Announce, Hangup, Phases
  <2> QED BY <1>2, <2>1, <2>2
<1>4. CASE UNCHANGED <<owner, lastGen, phase>>
  BY <1>2, <1>4
<1>5. \/ \E p \in Players : Connect(p)
      \/ \E c \in Conns : \/ Authenticate(c) \/ Refuse(c) \/ Insert(c)
                          \/ Announce(c) \/ Hangup(c)
      \/ UNCHANGED <<owner, lastGen, phase>>
  BY DEF Next, ConnNext, TickNext, ReceiveNext, Fail, Reap, Evict, LoseLink, ReReady,
         WriteFrame, ClientSends, ClientLeaves, TickEmpty, TickEnd, TickTurn,
         RecordDropped, ReceiveBack, ReceiveResign, ReceiveLeave, ReceiveRematch,
         MgmtClose, TicketsExpire, MatchTimeUp, vars, clientVars
<1> QED BY <1>1, <1>3, <1>4, <1>5

\* Every reachable state is well-typed: the channels stay within their capacity
\* and every slow client that reaches MAX_MISSED_TICKS is dropped at once.
THEOREM TypeCorrect == Spec => []TypeOK
<1>1. TypeOK /\ Owned /\ [Next]_vars => TypeOK' /\ Owned'
  BY TypeStep, OwnedStep
<1> QED BY <1>1, TypeInit, PTL DEF Spec

LEMMA OwnedCorrect == Spec => []Owned
<1>1. TypeOK /\ Owned /\ [Next]_vars => TypeOK' /\ Owned'
  BY TypeStep, OwnedStep
<1> QED BY <1>1, TypeInit, PTL DEF Spec

-----------------------------------------------------------------------------
(* The credentials.  A token names the connection it was issued to, so each   *)
(* admission moves a player's digest to the number of the admitted            *)
(* connection.  What a client can present was delivered to it by a connection *)
(* that had finished its registration.                                        *)

\* t is no token, or a token that p's connection t delivered or may deliver.
Settled(t, p) ==
    t # 0 => t \in Conns /\ phase[t] \in {"running", "closed"} /\ owner[t] = p

HeldSettled == \A p \in Players : held[p] <= lastGen /\ Settled(held[p], p)

ShownSettled ==
    \A c \in Conns : phase[c] # "none" => shown[c] < c /\ Settled(shown[c], owner[c])

TicketOwn == \A c \in Conns : ticket[c] # 0 => ticket[c] = c /\ phase[c] = "running"

DigestAdmitted ==
    \A p \in Players :
        /\ p \in initialUsed <=> digests[p] # 0
        /\ digests[p] # 0 => Admitted(digests[p]) /\ owner[digests[p]] = p

\* Until it has told its client the new token, a connection holds the digest.
DigestPending ==
    \A c \in Conns : phase[c] \in {"authed", "inserted"} => digests[owner[c]] = c

\* What admitted a connection admits no other.
DigestFresh == \A c \in Conns : Admitted(c) => shown[c] # digests[owner[c]]

SeatBehind == \A p \in Players : clients[p] <= digests[p]

CredInv ==
    /\ HeldSettled
    /\ ShownSettled
    /\ TicketOwn
    /\ DigestAdmitted
    /\ DigestPending
    /\ DigestFresh
    /\ SeatBehind

\* A step that touches no credential; it may take channels away.
Quiet ==
    /\ UNCHANGED <<lastGen, owner, shown, held, phase, initialUsed, digests, ticket>>
    /\ \A p \in Players : clients'[p] \in {0, clients[p]}

LEMMA CredInit == Init => CredInv
  BY RelayAssumption
  DEF Init, CredInv, HeldSettled, ShownSettled, TicketOwn, DigestAdmitted,
      DigestPending, DigestFresh, SeatBehind, Settled, Admitted, Conns

\* p's client opens a connection with what it holds.
Opens(p) ==
    /\ lastGen + 1 \in Conns
    /\ lastGen' = lastGen + 1
    /\ \A d \in Conns : d # lastGen + 1 => phase'[d] = phase[d] /\ owner'[d] = owner[d] /\ shown'[d] = shown[d]
    /\ phase'[lastGen + 1] = "hello" /\ owner'[lastGen + 1] = p /\ shown'[lastGen + 1] = held[p]
    /\ UNCHANGED <<held, ticket, initialUsed, digests, clients>>

\* The ticket check lets c in and rotates the digest to it.
Admits(c) ==
    /\ UNCHANGED <<lastGen, owner, shown>>
    /\ \A d \in Conns : d # c => phase'[d] = phase[d]
    /\ phase[c] = "hello" /\ phase'[c] = "authed" /\ owner[c] \in Players
    /\ shown[c] = digests[owner[c]]
    /\ initialUsed' = initialUsed \cup {owner[c]}
    /\ \A q \in Players : q # owner[c] => digests'[q] = digests[q]
    /\ digests'[owner[c]] = c
    /\ UNCHANGED <<held, ticket, clients>>

\* The first frame of c is refused.
Refuses(c) ==
    /\ UNCHANGED <<lastGen, owner, shown>>
    /\ \A d \in Conns : d # c => phase'[d] = phase[d]
    /\ phase[c] = "hello" /\ phase'[c] = "refused"
    /\ UNCHANGED <<held, ticket, initialUsed, digests, clients>>

\* The channel of c replaces the one registered for its player.
Seats(c) ==
    /\ UNCHANGED <<lastGen, owner, shown>>
    /\ \A d \in Conns : d # c => phase'[d] = phase[d]
    /\ phase[c] = "authed" /\ phase'[c] = "inserted"
    /\ owner[c] \in Players /\ clients' = [clients EXCEPT ![owner[c]] = c]
    /\ UNCHANGED <<held, ticket, initialUsed, digests>>

\* c is told its new token.
Tells(c) ==
    /\ UNCHANGED <<lastGen, owner, shown>>
    /\ \A d \in Conns : d # c => phase'[d] = phase[d]
    /\ phase[c] = "inserted" /\ phase'[c] = "running"
    /\ \A d \in Conns : ticket'[d] = ticket[d] \/ (d = c /\ ticket'[d] = c)
    /\ UNCHANGED <<held, initialUsed, digests, clients>>

\* A frame of c is written; the client may learn the token.
Delivers(c) ==
    /\ phase[c] = "running" /\ owner[c] \in Players
    /\ \A d \in Conns : ticket'[d] = ticket[d] \/ ticket'[d] = 0
    /\ \A q \in Players : held'[q] = held[q] \/ (q = owner[c] /\ held'[q] = ticket[c] /\ ticket[c] # 0)
    /\ UNCHANGED <<lastGen, owner, shown, phase, initialUsed, digests, clients>>

\* The task of c ends.
Closes(c) ==
    /\ UNCHANGED <<lastGen, owner, shown>>
    /\ \A d \in Conns : d # c => phase'[d] = phase[d]
    /\ phase[c] = "running" /\ phase'[c] = "closed"
    /\ ticket' = [ticket EXCEPT ![c] = 0]
    /\ UNCHANGED <<held, initialUsed, digests, clients>>

LEMMA CredCases ==
    ASSUME TypeOK, TicketsRequired, [Next]_vars
    PROVE  \/ \E p \in Players : Connect(p)
           \/ \E c \in Conns : \/ Authenticate(c) \/ Refuse(c) \/ Insert(c)
                               \/ Announce(c) \/ WriteFrame(c) \/ Hangup(c)
           \/ Quiet
<1> USE DEF Quiet, clientVars, authVars, channelVars, frameVars
<1>1. ASSUME UNCHANGED <<lastGen, owner, shown, held, phase, authVars, clients, ticket>>
      PROVE  Quiet
  BY <1>1
<1>2. CASE TickTurn
  BY <1>2 DEF TickTurn
<1>3. CASE ReceiveRematch
  BY <1>3 DEF ReceiveRematch
<1>4. CASE ReceiveLeave
  <2>1. \A p \in Players : clients'[p] \in {0, clients[p]}
    BY <1>4 DEF ReceiveLeave, TypeOK, ChannelTypeOK
  <2> QED BY <1>4, <2>1 DEF ReceiveLeave
<1>5. ASSUME NEW c \in Conns, ReReady(c) PROVE FALSE
  BY <1>5 DEF ReReady
<1>6. ASSUME NEW p \in Players, LoseLink(p) \/ RecordDropped(p) PROVE Quiet
  BY <1>1, <1>6 DEF LoseLink, RecordDropped
<1>7. ASSUME NEW c \in Conns,
             ClientLeaves(c) \/ \E kind \in {"resign", "rematch"} : ClientSends(c, kind)
      PROVE  Quiet
  BY <1>1, <1>7 DEF ClientLeaves, ClientSends
<1>8. CASE TickEmpty \/ TickEnd \/ ReceiveBack \/ ReceiveResign
  BY <1>1, <1>8 DEF TickEmpty, TickEnd, ReceiveBack, ReceiveResign
<1>9. CASE MgmtClose \/ TicketsExpire \/ MatchTimeUp
  BY <1>1, <1>9 DEF MgmtClose, TicketsExpire, MatchTimeUp
<1>10. CASE UNCHANGED vars
  BY <1>1, <1>10 DEF vars
<1> QED
  BY <1>2, <1>3, <1>4, <1>5, <1>6, <1>7, <1>8, <1>9, <1>10
     DEF Next, ConnNext, TickNext, ReceiveNext, Fail, Reap, Evict

LEMMA Numbers ==
    ASSUME TypeOK
    PROVE  /\ MaxConn \in Nat /\ Conns = 1..MaxConn /\ ConnOrNone = 0..MaxConn
           /\ \A d \in Conns : d \in Nat \ {0}
           /\ lastGen \in Nat
           /\ \A d \in Conns : shown[d] \in Nat
           /\ \A p \in Players : held[p] \in Nat /\ clients[p] \in Nat /\ digests[p] \in ConnOrNone
  BY RelayAssumption DEF TypeOK, Conns, ConnOrNone, ClientTypeOK, AuthTypeOK, ChannelTypeOK

\* What a step does to the credentials.
LEMMA CredEffect ==
    ASSUME TypeOK, Owned, CredInv, TicketsRequired, [Next]_vars
    PROVE  \/ \E p \in Players : Opens(p)
           \/ \E c \in Conns : \/ Admits(c) \/ Refuses(c) \/ Seats(c)
                               \/ Tells(c) \/ Delivers(c) \/ Closes(c)
           \/ Quiet
<1> USE DEF TypeOK, CredInv
<1>1. ASSUME NEW p \in Players, Connect(p) PROVE Opens(p)
  BY Numbers, <1>1 DEF Opens, Connect, ClientTypeOK, Owned, authVars, channelVars, frameVars, Conns
<1>2. ASSUME NEW c \in Conns, Authenticate(c) PROVE Admits(c)
  <2>1. /\ phase[c] = "hello"
        /\ phase' = [phase EXCEPT ![c] = "authed"]
        /\ initialUsed' = (IF shown[c] = 0 THEN initialUsed \cup {owner[c]} ELSE initialUsed)
        /\ digests' = [digests EXCEPT ![owner[c]] = c]
        /\ UNCHANGED <<lastGen, owner, shown, held, ticket, clients>>
    BY <1>2 DEF Authenticate, Rotated, clientVars, channelVars, frameVars
  <2>2. owner[c] \in Players
    BY <2>1 DEF Owned
  <2>3. /\ shown[c] = digests[owner[c]]
        /\ shown[c] = 0 <=> owner[c] \notin initialUsed
    BY <1>2, <2>2 DEF Authenticate, Admissible, DigestAdmitted
  <2>4. initialUsed' = initialUsed \cup {owner[c]}
    BY <2>1, <2>3
  <2>5. /\ \A q \in Players : q # owner[c] => digests'[q] = digests[q]
        /\ digests'[owner[c]] = c
    BY <2>1, <2>2 DEF AuthTypeOK
  <2> QED BY <2>1, <2>2, <2>3, <2>4, <2>5 DEF Admits
<1>3. ASSUME NEW c \in Conns, Refuse(c) PROVE Refuses(c)
  BY Numbers, <1>3 DEF Refuses, Refuse, clientVars, authVars, channelVars, frameVars
<1>4. ASSUME NEW c \in Conns, Insert(c) PROVE Seats(c)
  <2>1. phase[c] = "authed" /\ phase' = [phase EXCEPT ![c] = "inserted"]
    BY <1>4 DEF Insert
  <2>2. owner[c] \in Players
    BY <2>1 DEF Owned
  <2> QED BY <1>4, <2>1, <2>2 DEF Seats, Insert, clientVars, authVars, frameVars
<1>5. ASSUME NEW c \in Conns, Announce(c) PROVE Tells(c)
  <2>1. phase[c] = "inserted" /\ phase' = [phase EXCEPT ![c] = "running"]
    BY <1>5 DEF Announce
  <2>2. ticket' = ticket \/ ticket' = [ticket EXCEPT ![c] = c]
    BY <1>5 DEF Announce
  <2>3. \A d \in Conns : ticket'[d] = ticket[d] \/ (d = c /\ ticket'[d] = c)
    <3>1. CASE ticket' = ticket
      BY <3>1
    <3>2. CASE ticket' = [ticket EXCEPT ![c] = c]
      BY <3>2 DEF FrameTypeOK
    <3> QED BY <2>2, <3>1, <3>2
  <2> QED BY <1>5, <2>1, <2>3 DEF Tells, Announce, clientVars, authVars, channelVars
<1>6. ASSUME NEW c \in Conns, WriteFrame(c) PROVE Delivers(c)
  <2>1. phase[c] = "running" /\ owner[c] \in Players
    BY <1>6 DEF WriteFrame, Owned
  <2>2. \/ UNCHANGED <<ticket, held>>
        \/ /\ ticket[c] # 0 /\ ticket' = [ticket EXCEPT ![c] = 0]
           /\ held' = held \/ held' = [held EXCEPT ![owner[c]] = ticket[c]]
    BY <1>6 DEF WriteFrame
  <2>3. \A d \in Conns : ticket'[d] = ticket[d] \/ ticket'[d] = 0
    BY <2>2 DEF FrameTypeOK
  <2>4. \A q \in Players :
            held'[q] = held[q] \/ (q = owner[c] /\ held'[q] = ticket[c] /\ ticket[c] # 0)
    <3>1. CASE held' = held
      BY <3>1
    <3>2. CASE ticket[c] # 0 /\ held' = [held EXCEPT ![owner[c]] = ticket[c]]
      BY <2>1, <3>2 DEF ClientTypeOK
    <3> QED BY <2>2, <3>1, <3>2
  <2>5. UNCHANGED <<lastGen, owner, shown, phase, initialUsed, digests, clients>>
    BY <1>6 DEF WriteFrame, authVars, channelVars
  <2> QED BY <2>1, <2>3, <2>4, <2>5 DEF Delivers
<1>7. ASSUME NEW c \in Conns, Hangup(c) PROVE Closes(c)
  BY Numbers, <1>7 DEF Closes, Hangup, clientVars, authVars, channelVars
<1> QED BY CredCases, <1>1, <1>2, <1>3, <1>4, <1>5, <1>6, <1>7

LEMMA CredStep ==
    ASSUME TypeOK, Owned, CredInv, TicketsRequired, [Next]_vars
    PROVE  CredInv'
<1> USE Numbers DEF CredInv
<1>1. ASSUME NEW p \in Players, Opens(p) PROVE CredInv'
  <2>1. HeldSettled'
    BY <1>1 DEF Opens, HeldSettled, Settled, Owned
  <2>2. ShownSettled'
    <3>1. ASSUME NEW t, NEW q, Settled(t, q) PROVE Settled(t, q)'
      BY <1>1, <3>1 DEF Opens, Settled, Owned
    <3>2. shown'[lastGen + 1] < lastGen + 1 /\ Settled(held[p], p)'
      BY <1>1, <3>1 DEF Opens, HeldSettled
    <3>3. ASSUME NEW d \in Conns, d # lastGen + 1, phase'[d] # "none"
          PROVE  shown'[d] < d /\ Settled(shown[d], owner[d])'
      BY <1>1, <3>1, <3>3 DEF Opens, ShownSettled
    <3> QED BY <1>1, <3>2, <3>3 DEF Opens, ShownSettled, Settled
  <2>3. TicketOwn'
    BY <1>1 DEF Opens, TicketOwn, Owned
  <2>4. DigestAdmitted'
    BY <1>1 DEF Opens, DigestAdmitted, Admitted, Owned
  <2>5. DigestPending'
    BY <1>1 DEF Opens, DigestPending
  <2>6. DigestFresh'
    BY <1>1 DEF Opens, DigestFresh, Admitted
  <2>7. SeatBehind'
    BY <1>1 DEF Opens, SeatBehind
  <2> QED BY <2>1, <2>2, <2>3, <2>4, <2>5, <2>6, <2>7
<1>2. ASSUME NEW c \in Conns, Admits(c) PROVE CredInv'
  <2>1. HeldSettled'
    BY <1>2 DEF Admits, HeldSettled, Settled
  <2>2. ShownSettled'
    BY <1>2 DEF Admits, ShownSettled, Settled
  <2>3. TicketOwn'
    BY <1>2 DEF Admits, TicketOwn
  <2>4. DigestAdmitted'
    BY <1>2 DEF Admits, DigestAdmitted, Admitted
  <2>5. DigestPending'
    BY <1>2 DEF Admits, DigestPending, ShownSettled, Settled, Owned
  <2>6. DigestFresh'
    BY <1>2 DEF Admits, DigestFresh, Admitted, ShownSettled, Settled, Owned
  <2>7. SeatBehind'
    BY <1>2 DEF Admits, SeatBehind, ShownSettled
  <2> QED BY <2>1, <2>2, <2>3, <2>4, <2>5, <2>6, <2>7
<1>3. ASSUME NEW c \in Conns, Refuses(c) PROVE CredInv'
  <2>1. HeldSettled'
    BY <1>3 DEF Refuses, HeldSettled, Settled
  <2>2. ShownSettled'
    BY <1>3 DEF Refuses, ShownSettled, Settled
  <2>3. TicketOwn'
    BY <1>3 DEF Refuses, TicketOwn
  <2>4. DigestAdmitted'
    BY <1>3 DEF Refuses, DigestAdmitted, Admitted
  <2>5. DigestPending'
    BY <1>3 DEF Refuses, DigestPending
  <2>6. DigestFresh'
    BY <1>3 DEF Refuses, DigestFresh, Admitted
  <2>7. SeatBehind'
    BY <1>3 DEF Refuses, SeatBehind
  <2> QED BY <2>1, <2>2, <2>3, <2>4, <2>5, <2>6, <2>7
<1>4. ASSUME NEW c \in Conns, Seats(c) PROVE CredInv'
  <2>1. HeldSettled'
    BY <1>4 DEF Seats, HeldSettled, Settled
  <2>2. ShownSettled'
    BY <1>4 DEF Seats, ShownSettled, Settled
  <2>3. TicketOwn'
    BY <1>4 DEF Seats, TicketOwn
  <2>4. DigestAdmitted'
    BY <1>4 DEF Seats, DigestAdmitted, Admitted
  <2>5. DigestPending'
    BY <1>4 DEF Seats, DigestPending
  <2>6. DigestFresh'
    BY <1>4 DEF Seats, DigestFresh, Admitted
  <2>7. SeatBehind'
    BY <1>4 DEF Seats, SeatBehind, DigestPending, ChannelTypeOK, TypeOK
  <2> QED BY <2>1, <2>2, <2>3, <2>4, <2>5, <2>6, <2>7
<1>5. ASSUME NEW c \in Conns, Tells(c) PROVE CredInv'
  <2>1. HeldSettled'
    BY <1>5 DEF Tells, HeldSettled, Settled
  <2>2. ShownSettled'
    BY <1>5 DEF Tells, ShownSettled, Settled
  <2>3. TicketOwn'
    BY <1>5 DEF Tells, TicketOwn
  <2>4. DigestAdmitted'
    BY <1>5 DEF Tells, DigestAdmitted, Admitted
  <2>5. DigestPending'
    BY <1>5 DEF Tells, DigestPending
  <2>6. DigestFresh'
    BY <1>5 DEF Tells, DigestFresh, Admitted
  <2>7. SeatBehind'
    BY <1>5 DEF Tells, SeatBehind
  <2> QED BY <2>1, <2>2, <2>3, <2>4, <2>5, <2>6, <2>7
<1>6. ASSUME NEW c \in Conns, Delivers(c) PROVE CredInv'
  <2>1. HeldSettled'
    BY <1>6 DEF Delivers, HeldSettled, Settled, TicketOwn, Owned
  <2>2. ShownSettled'
    BY <1>6 DEF Delivers, ShownSettled, Settled
  <2>3. TicketOwn'
    BY <1>6 DEF Delivers, TicketOwn
  <2>4. DigestAdmitted'
    BY <1>6 DEF Delivers, DigestAdmitted, Admitted
  <2>5. DigestPending'
    BY <1>6 DEF Delivers, DigestPending
  <2>6. DigestFresh'
    BY <1>6 DEF Delivers, DigestFresh, Admitted
  <2>7. SeatBehind'
    BY <1>6 DEF Delivers, SeatBehind
  <2> QED BY <2>1, <2>2, <2>3, <2>4, <2>5, <2>6, <2>7
<1>7. ASSUME NEW c \in Conns, Closes(c) PROVE CredInv'
  <2>1. HeldSettled'
    BY <1>7 DEF Closes, HeldSettled, Settled
  <2>2. ShownSettled'
    BY <1>7 DEF Closes, ShownSettled, Settled
  <2>3. TicketOwn'
    BY <1>7 DEF Closes, TicketOwn, FrameTypeOK, TypeOK
  <2>4. DigestAdmitted'
    BY <1>7 DEF Closes, DigestAdmitted, Admitted
  <2>5. DigestPending'
    BY <1>7 DEF Closes, DigestPending
  <2>6. DigestFresh'
    BY <1>7 DEF Closes, DigestFresh, Admitted
  <2>7. SeatBehind'
    BY <1>7 DEF Closes, SeatBehind
  <2> QED BY <2>1, <2>2, <2>3, <2>4, <2>5, <2>6, <2>7
<1>8. CASE Quiet
  <2>1. HeldSettled'
    BY <1>8 DEF Quiet, HeldSettled, Settled
  <2>2. ShownSettled'
    BY <1>8 DEF Quiet, ShownSettled, Settled
  <2>3. TicketOwn'
    BY <1>8 DEF Quiet, TicketOwn
  <2>4. DigestAdmitted'
    BY <1>8 DEF Quiet, DigestAdmitted, Admitted
  <2>5. DigestPending'
    BY <1>8 DEF Quiet, DigestPending
  <2>6. DigestFresh'
    BY <1>8 DEF Quiet, DigestFresh, Admitted
  <2>7. SeatBehind'
    BY <1>8 DEF Quiet, SeatBehind
  <2> QED BY <2>1, <2>2, <2>3, <2>4, <2>5, <2>6, <2>7
<1> QED BY CredEffect, <1>1, <1>2, <1>3, <1>4, <1>5, <1>6, <1>7, <1>8

\* The inductive invariant behind the credential theorems.
LEMMA CredCorrect == Spec => [](TicketsRequired => CredInv)
<1>1. Init => (TicketsRequired => CredInv)
  BY CredInit
<1>2. /\ TypeOK /\ Owned /\ (TicketsRequired => CredInv) /\ [Next]_vars
      => (TicketsRequired => CredInv)'
  BY CredStep
<1> QED BY <1>1, <1>2, TypeCorrect, OwnedCorrect, PTL DEF Spec

\* What each admission does to the three properties of the credentials.
LEMMA AdmitsOnceStep ==
    ASSUME TypeOK, Owned, CredInv, TicketsRequired, TicketAdmitsOnce, [Next]_vars
    PROVE  TicketAdmitsOnce'
<1> USE DEF TicketAdmitsOnce
<1>1. ASSUME NEW b \in Conns,
             UNCHANGED <<owner, shown>>,
             \A d \in Conns : Admitted(d)' => Admitted(d) \/ d = b,
             \A d \in Conns : Admitted(d) /\ owner[d] = owner[b] => shown[d] # shown[b]
      PROVE  TicketAdmitsOnce'
  BY <1>1
<1>2. ASSUME UNCHANGED <<owner, shown>>,
             \A d \in Conns : Admitted(d)' => Admitted(d)
      PROVE  TicketAdmitsOnce'
  BY <1>2
<1>3. ASSUME NEW p \in Players, Opens(p) PROVE TicketAdmitsOnce'
  <2>1. \A d \in Conns : Admitted(d)' =>
            Admitted(d) /\ owner'[d] = owner[d] /\ shown'[d] = shown[d]
    BY <1>3 DEF Opens, Admitted
  <2> QED BY <2>1
<1>4. ASSUME NEW c \in Conns, Admits(c) PROVE TicketAdmitsOnce'
  <2>1. \A d \in Conns : Admitted(d)' => Admitted(d) \/ d = c
    BY <1>4 DEF Admits, Admitted
  <2>2. \A d \in Conns : Admitted(d) /\ owner[d] = owner[c] => shown[d] # shown[c]
    BY <1>4 DEF Admits, CredInv, DigestFresh
  <2> QED BY <1>1, <1>4, <2>1, <2>2 DEF Admits
<1>5. ASSUME NEW c \in Conns,
             \/ Refuses(c) \/ Seats(c) \/ Tells(c) \/ Delivers(c) \/ Closes(c)
      PROVE  TicketAdmitsOnce'
  <2>1. \A d \in Conns : Admitted(d)' => Admitted(d)
    BY <1>5 DEF Refuses, Seats, Tells, Delivers, Closes, Admitted
  <2>2. UNCHANGED <<owner, shown>>
    BY <1>5 DEF Refuses, Seats, Tells, Delivers, Closes
  <2> QED BY <1>2, <2>1, <2>2
<1>6. CASE Quiet
  BY <1>2, <1>6 DEF Quiet, Admitted
<1> QED BY CredEffect, <1>3, <1>4, <1>5, <1>6

LEMMA RoutedStep ==
    ASSUME TypeOK, Owned, CredInv, TicketsRequired, RoutedToNewest, [Next]_vars
    PROVE  RoutedToNewest'
<1> USE Numbers DEF RoutedToNewest, CredInv
<1>0. \A q \in Players : clients[q] # 0 =>
          /\ digests[q] \in Conns
          /\ Admitted(digests[q])
          /\ owner[digests[q]] = q
  BY DEF SeatBehind, DigestAdmitted
<1>1. ASSUME NEW p \in Players, Opens(p) PROVE RoutedToNewest'
  BY <1>0, <1>1 DEF Opens, Owned, Admitted
<1>2. ASSUME NEW c \in Conns, Admits(c) PROVE RoutedToNewest'
  BY <1>0, <1>2 DEF Admits, Admitted
<1>3. ASSUME NEW c \in Conns, Refuses(c) PROVE RoutedToNewest'
  BY <1>0, <1>3 DEF Refuses, Admitted
<1>4. ASSUME NEW c \in Conns, Seats(c) PROVE RoutedToNewest'
  BY <1>0, <1>4 DEF Seats, DigestPending, TypeOK, ChannelTypeOK
<1>5. ASSUME NEW c \in Conns, Tells(c) PROVE RoutedToNewest'
  BY <1>0, <1>5 DEF Tells
<1>6. ASSUME NEW c \in Conns, Delivers(c) PROVE RoutedToNewest'
  BY <1>6 DEF Delivers
<1>7. ASSUME NEW c \in Conns, Closes(c) PROVE RoutedToNewest'
  BY <1>0, <1>7 DEF Closes
<1>8. CASE Quiet
  BY <1>0, <1>8 DEF Quiet
<1> QED BY CredEffect, <1>1, <1>2, <1>3, <1>4, <1>5, <1>6, <1>7, <1>8

LEMMA ForwardStep ==
    ASSUME TypeOK, Owned, CredInv, TicketsRequired, [Next]_vars
    PROVE  \A p \in Players : clients'[p] # 0 => clients'[p] >= clients[p]
<1> USE Numbers
<1>1. ASSUME NEW c \in Conns, Seats(c)
      PROVE  \A p \in Players : clients'[p] >= clients[p]
  BY <1>1 DEF Seats, CredInv, SeatBehind, DigestPending, TypeOK, ChannelTypeOK
<1>2. ASSUME \A p \in Players : clients'[p] \in {0, clients[p]}
      PROVE  \A p \in Players : clients'[p] # 0 => clients'[p] >= clients[p]
  BY <1>2
<1>3. CASE \E p \in Players : Opens(p)
  BY <1>2, <1>3 DEF Opens
<1>4. CASE \E c \in Conns : Admits(c) \/ Refuses(c) \/ Tells(c) \/ Delivers(c) \/ Closes(c)
  BY <1>2, <1>4 DEF Admits, Refuses, Tells, Delivers, Closes
<1>5. CASE Quiet
  BY <1>2, <1>5 DEF Quiet
<1> QED BY CredEffect, <1>1, <1>3, <1>4, <1>5

\* However the first frames of a player's connections race, no two of them are
\* admitted on one credential: the initial ticket and every reconnect
\* capability are one-shot (try_register_with_admission).
THEOREM TicketAdmitsOnceCorrect == Spec => []TicketAdmitsOnce
<1>1. Init => TicketAdmitsOnce
  BY DEF Init, TicketAdmitsOnce, Admitted
<1>2. TypeOK /\ Owned /\ (TicketsRequired => CredInv) /\ TicketAdmitsOnce /\ [Next]_vars
      => TicketAdmitsOnce'
  BY AdmitsOnceStep DEF TicketAdmitsOnce
<1> QED BY <1>1, <1>2, TypeCorrect, OwnedCorrect, CredCorrect, PTL DEF Spec

\* Turns go to the connection whose ticket was accepted last, for every roster
\* and every interleaving of registrations: a registration that stalls between
\* the ticket check and the insertion cannot take the seat back.
THEOREM RoutedToNewestCorrect == Spec => []RoutedToNewest
<1>1. Init => RoutedToNewest
  BY DEF Init, RoutedToNewest
<1>2. TypeOK /\ Owned /\ (TicketsRequired => CredInv) /\ RoutedToNewest /\ [Next]_vars
      => RoutedToNewest'
  BY RoutedStep DEF RoutedToNewest
<1> QED BY <1>1, <1>2, TypeCorrect, OwnedCorrect, CredCorrect, PTL DEF Spec

\* A registration never puts an earlier connection of a player in the place of a
\* later one.
THEOREM ReplacedForwardCorrect == Spec => ReplacedForward
<1>1. TypeOK /\ Owned /\ (TicketsRequired => CredInv) /\ [Next]_vars
      => [TicketsRequired =>
             \A p \in Players : clients'[p] # 0 => clients'[p] >= clients[p]]_vars
  BY ForwardStep
<1> QED BY <1>1, TypeCorrect, OwnedCorrect, CredCorrect, PTL DEF Spec, ReplacedForward

-----------------------------------------------------------------------------
(* The match tracker.  Until the match is finalized the log holds exactly the *)
(* accounts that left it.                                                     *)

Distinct(log) == \A i, j \in DOMAIN log : log[i] = log[j] => i = j

RankingOpen ==
    ~finalized /\ Tracked => Accounts \ inMatch \subseteq Logged /\ Logged \cap inMatch = {}

RankingInv == ExitsUnique /\ RankingComplete /\ RankingOpen

\* Appending a new account to a log.
LEMMA AppendLog ==
    ASSUME NEW log \in Seq(Accounts), NEW a \in Accounts
    PROVE  /\ Append(log, a) \in Seq(Accounts)
           /\ Range(Append(log, a)) = Range(log) \cup {a}
           /\ Append(log, a)[Len(Append(log, a))] = a
           /\ Distinct(log) /\ a \notin Range(log) => Distinct(Append(log, a))
<1> DEFINE longer == Append(log, a)
<1>1. /\ longer \in Seq(Accounts)
      /\ Len(log) \in Nat /\ Len(longer) = Len(log) + 1
      /\ DOMAIN log = 1..Len(log) /\ DOMAIN longer = 1..(Len(log) + 1)
      /\ \A i \in 1..Len(log) : longer[i] = log[i]
      /\ longer[Len(log) + 1] = a
  OBVIOUS
<1> HIDE DEF longer
<1>2. Range(longer) = Range(log) \cup {a}
  <2>1. ASSUME NEW x \in Range(longer) PROVE x \in Range(log) \cup {a}
    BY <1>1, <2>1 DEF Range
  <2>2. ASSUME NEW x \in Range(log) PROVE x \in Range(longer)
    BY <1>1, <2>2 DEF Range
  <2>3. a \in Range(longer)
    BY <1>1 DEF Range
  <2> QED BY <2>1, <2>2, <2>3
<1>3. ASSUME Distinct(log), a \notin Range(log) PROVE Distinct(longer)
  <2>1. \A i \in 1..Len(log) : log[i] # a
    BY <1>1, <1>3 DEF Range
  <2> QED BY <1>1, <1>3, <2>1 DEF Distinct
<1> QED BY <1>1, <1>2, <1>3 DEF longer

LEMMA RecordExitRanking ==
    ASSUME TrackerTypeOK, RankingInv, NEW p \in Players, RecordExit(p)
    PROVE  RankingInv'
<1> DEFINE left == inMatch \ {p}
           first == IF Loggable(p) THEN Append(exits, p) ELSE exits
<1>1. CASE ~Tracked \/ finalized
  <2>1. inMatch' = left /\ UNCHANGED <<exits, finalized>>
    BY <1>1 DEF RecordExit
  <2> QED
    BY <1>1, <2>1 DEF RankingInv, ExitsUnique, RankingComplete, RankingOpen, Logged, Tracked
<1>2. CASE Tracked /\ ~finalized
  <2>1. /\ inMatch' = left
        /\ finalized' = AtMostOne(left)
        /\ IF AtMostOne(left) /\ Survivor(left, first) # {}
           THEN \E w \in Survivor(left, first) : exits' = Append(first, w)
           ELSE exits' = first
    BY <1>2 DEF RecordExit
  <2>2. /\ Accounts \ inMatch \subseteq Range(exits) /\ Range(exits) \cap inMatch = {}
        /\ exits \in Seq(Accounts) /\ Distinct(exits) /\ inMatch \subseteq Players
    BY <1>2 DEF RankingInv, RankingOpen, ExitsUnique, Distinct, Logged, TrackerTypeOK
  <2>3. /\ first \in Seq(Accounts) /\ Distinct(first)
        /\ Accounts \ left \subseteq Range(first) /\ Range(first) \cap left = {}
    <3>1. CASE Loggable(p)
      BY <2>2, <3>1, AppendLog DEF Loggable, Logged
    <3>2. CASE ~Loggable(p)
      BY <2>2, <3>2 DEF Loggable, Logged
    <3> QED BY <3>1, <3>2
  <2> HIDE DEF left, first
  <2>4. CASE AtMostOne(left) /\ Survivor(left, first) # {}
    <3>1. PICK w \in Survivor(left, first) : exits' = Append(first, w)
      BY <2>1, <2>4
    <3>2. w \in left /\ w \in Accounts /\ w \notin Range(first)
      BY <3>1 DEF Survivor
    <3>3. /\ Distinct(exits')
          /\ Range(exits') = Range(first) \cup {w}
          /\ exits'[Len(exits')] = w
      BY <2>3, <3>1, <3>2, AppendLog
    <3>4. left = {w}
      BY <2>4, <3>2 DEF AtMostOne
    <3>5. Range(exits') = Accounts
      <4>1. Range(first) \subseteq Accounts
        BY <2>3 DEF Range
      <4> QED BY <2>3, <3>2, <3>3, <3>4, <4>1
    <3> QED
      BY <2>1, <2>4, <3>3, <3>4, <3>5
         DEF RankingInv, ExitsUnique, RankingComplete, RankingOpen, Logged, Distinct
  <2>5. CASE AtMostOne(left) /\ Survivor(left, first) = {}
    <3>1. exits' = first
      BY <2>1, <2>5
    <3>2. left \cap Accounts = {}
      BY <2>3, <2>5 DEF Survivor
    <3>3. Range(exits') = Accounts
      <4>1. Range(first) \subseteq Accounts
        BY <2>3 DEF Range
      <4> QED BY <2>3, <3>1, <3>2, <4>1
    <3> QED
      BY <2>1, <2>3, <2>5, <3>1, <3>2, <3>3
         DEF RankingInv, ExitsUnique, RankingComplete, RankingOpen, Logged, Distinct
  <2>6. CASE ~AtMostOne(left)
    <3>1. exits' = first /\ ~finalized'
      BY <2>1, <2>6
    <3> QED
      BY <2>1, <2>3, <3>1
         DEF RankingInv, ExitsUnique, RankingComplete, RankingOpen, Logged, Distinct
  <2> QED BY <2>4, <2>5, <2>6
<1> QED BY <1>1, <1>2

LEMMA RankingStep ==
    ASSUME TypeOK, RankingInv, [Next]_vars
    PROVE  RankingInv'
<1> USE DEF TypeOK
<1>1. ASSUME NEW p \in Players, RecordExit(p) PROVE RankingInv'
  BY <1>1, RecordExitRanking
<1>2. CASE UNCHANGED trackerVars
  BY <1>2 DEF RankingInv, ExitsUnique, RankingComplete, RankingOpen, Logged, trackerVars
<1>3. CASE ReceiveResign
  BY <1>1, <1>3, ReceiveType DEF ReceiveResign
<1>4. CASE ReceiveLeave
  BY <1>1, <1>2, <1>4, ReceiveType DEF ReceiveLeave
<1>5. ASSUME NEW p \in Players, RecordDropped(p) PROVE RankingInv'
  BY <1>1, <1>5 DEF RecordDropped
<1>6. \/ \E p \in Players : RecordDropped(p)
      \/ ReceiveResign \/ ReceiveLeave \/ UNCHANGED trackerVars
  BY DEF Next, ConnNext, TickNext, ReceiveNext, Fail, Reap, Evict, Connect, LoseLink,
         Authenticate, Refuse, Insert, Announce, ReReady, WriteFrame, ClientSends,
         ClientLeaves, Hangup, TickEmpty, TickEnd, TickTurn, ReceiveBack, ReceiveRematch,
         MgmtClose, TicketsExpire, MatchTimeUp, vars
<1> QED BY <1>2, <1>3, <1>4, <1>5, <1>6

LEMMA RankingCorrect == Spec => []RankingInv
<1>1. Init => RankingInv
  BY RelayAssumption
     DEF Init, RankingInv, ExitsUnique, RankingComplete, RankingOpen, Logged, Range
<1>2. TypeOK /\ RankingInv /\ [Next]_vars => RankingInv'
  BY RankingStep
<1> QED BY <1>1, <1>2, TypeCorrect, PTL DEF Spec

\* Nobody is ranked twice, whatever the order of resignations, drops and returns,
\* and a finalized match has ranked every account, the survivor last
\* (MatchTracker::record_exit).
THEOREM RankingExactCorrect == Spec => []RankingExact
<1>1. RankingInv => RankingExact
  BY DEF RankingInv, RankingExact
<1> QED BY <1>1, RankingCorrect, PTL

-----------------------------------------------------------------------------
(* The seat.  A Leave in the event channel is about a connection that its     *)
(* client has given up or whose task has ended.                               *)

Late(e) ==
    e.kind = "leave" =>
        /\ e.gen \in 1..lastGen
        /\ link[e.player] # e.gen \/ phase[e.gen] = "closed"

LeavesLate == \A i \in DOMAIN events : Late(events[i])

\* A queued Leave stays late: a new connection has a new number, and a task that
\* has ended does not come back.
LEMMA LateStable ==
    ASSUME TypeOK, Owned, [Next]_vars, NEW e \in Events, Late(e)
    PROVE  Late(e)'
<1> USE DEF TypeOK, Late
<1>1. CASE e.kind # "leave"
  BY <1>1
<1>2. CASE e.kind = "leave"
  <2>1. /\ e.gen \in 1..lastGen /\ e.gen \in Conns /\ lastGen \in Nat
        /\ link[e.player] # e.gen \/ phase[e.gen] = "closed"
        /\ e.player \in Players
    BY <1>2, RelayAssumption DEF Events, ClientTypeOK, Conns, ConnOrNone
  <2>2. ASSUME NEW p \in Players, Connect(p) PROVE Late(e)'
    <3>1. /\ lastGen' = lastGen + 1
          /\ link' = [link EXCEPT ![p] = lastGen + 1]
          /\ phase' = [phase EXCEPT ![lastGen + 1] = "hello"]
      BY <2>2 DEF Connect
    <3>2. e.gen \in 1..lastGen' /\ e.gen # lastGen + 1
      BY <2>1, <3>1
    <3>3. phase[e.gen] = "closed" => phase'[e.gen] = "closed"
      BY <2>1, <3>1, <3>2
    <3>4. link[e.player] # e.gen => link'[e.player] # e.gen
      BY <2>1, <3>1, <3>2 DEF ClientTypeOK
    <3> QED BY <2>1, <3>2, <3>3, <3>4
  <2>3. ASSUME NEW p \in Players, link' = [link EXCEPT ![p] = 0],
               UNCHANGED <<lastGen, phase>>
        PROVE  Late(e)'
    BY <2>1, <2>3 DEF ClientTypeOK
  <2>4. ASSUME NEW c \in Conns, NEW h, phase[c] # "closed",
               phase' = [phase EXCEPT ![c] = h], UNCHANGED <<lastGen, link>>
        PROVE  Late(e)'
    BY <2>1, <2>4
  <2>5. CASE UNCHANGED <<lastGen, link, phase>>
    BY <2>1, <2>5
  <2>6. ASSUME NEW p \in Players, LoseLink(p) PROVE Late(e)'
    BY <2>3, <2>6 DEF LoseLink
  <2>7. ASSUME NEW c \in Conns, ClientLeaves(c) PROVE Late(e)'
    BY <2>3, <2>7 DEF ClientLeaves, Owned
  <2>8. ASSUME NEW c \in Conns,
               Authenticate(c) \/ Refuse(c) \/ Insert(c) \/ Announce(c) \/ Hangup(c)
        PROVE  Late(e)'
    BY <2>4, <2>8 DEF Authenticate, Refuse, Insert, Announce, Hangup, clientVars
  <2>9. \/ \E p \in Players : Connect(p) \/ LoseLink(p)
        \/ \E c \in Conns : \/ ClientLeaves(c) \/ Authenticate(c) \/ Refuse(c)
                            \/ Insert(c) \/ Announce(c) \/ Hangup(c)
        \/ UNCHANGED <<lastGen, link, phase>>
    BY DEF Next, ConnNext, TickNext, ReceiveNext, Fail, Reap, Evict, ReReady, WriteFrame,
           ClientSends, TickEmpty, TickEnd, TickTurn, RecordDropped, ReceiveBack,
           ReceiveResign, ReceiveLeave, ReceiveRematch, MgmtClose, TicketsExpire,
           MatchTimeUp, vars, clientVars
  <2> QED BY <2>2, <2>5, <2>6, <2>7, <2>8, <2>9
<1> QED BY <1>1, <1>2

\* How the event channel changes in a step.
LEMMA EventCases ==
    ASSUME TypeOK, Owned, [Next]_vars
    PROVE  \/ UNCHANGED events
           \/ events' = <<>>
           \/ events # <<>> /\ events' = Tail(events)
           \/ \E e \in Events : events' = Append(events, e) /\ Late(e)'
<1> USE DEF TypeOK, Owned
<1>1. ASSUME NEW c \in Conns, NEW kind \in Kinds, Send(kind, owner[c], c),
             owner[c] \in Players, c \in 1..lastGen', UNCHANGED lastGen,
             kind = "leave" => link'[owner[c]] # c \/ phase'[c] = "closed"
      PROVE  \/ UNCHANGED events
             \/ \E e \in Events : events' = Append(events, e) /\ Late(e)'
  <2>1. PICK e \in Events : e = [kind |-> kind, player |-> owner[c], gen |-> c]
    <3>1. c \in ConnOrNone
      BY <1>1, RelayAssumption DEF Conns, ConnOrNone
    <3>2. [kind |-> kind, player |-> owner[c], gen |-> c] \in Events
      BY <1>1, <3>1 DEF Events
    <3> QED BY <3>2
  <2>2. UNCHANGED events \/ events' = Append(events, e)
    BY <1>1, <2>1 DEF Send, eventVars
  <2>3. Late(e)'
    BY <1>1, <2>1 DEF Late
  <2> QED BY <2>2, <2>3
<1>2. ASSUME NEW c \in Conns, Announce(c)
      PROVE  UNCHANGED events \/ \E e \in Events : events' = Append(events, e) /\ Late(e)'
  BY <1>1, <1>2 DEF Announce, clientVars, Kinds, Conns
<1>3. ASSUME NEW c \in Conns, ReReady(c)
      PROVE  UNCHANGED events \/ \E e \in Events : events' = Append(events, e) /\ Late(e)'
  BY <1>1, <1>3 DEF ReReady, clientVars, Kinds, Conns
<1>4. ASSUME NEW c \in Conns, NEW kind \in {"resign", "rematch"}, ClientSends(c, kind)
      PROVE  UNCHANGED events \/ \E e \in Events : events' = Append(events, e) /\ Late(e)'
  BY <1>1, <1>4 DEF ClientSends, clientVars, Kinds, Conns
<1>5. ASSUME NEW c \in Conns, ClientLeaves(c)
      PROVE  UNCHANGED events \/ \E e \in Events : events' = Append(events, e) /\ Late(e)'
  <2>1. link'[owner[c]] = 0 /\ owner[c] \in Players
    BY <1>5 DEF ClientLeaves, ClientTypeOK
  <2> QED BY <1>1, <1>5, <2>1 DEF ClientLeaves, Kinds, Conns
<1>6. ASSUME NEW c \in Conns, Hangup(c)
      PROVE  UNCHANGED events \/ \E e \in Events : events' = Append(events, e) /\ Late(e)'
  <2>1. phase'[c] = "closed"
    BY <1>6 DEF Hangup
  <2> QED BY <1>1, <1>6, <2>1 DEF Hangup, clientVars, Kinds, Conns
<1>7. CASE TickEmpty \/ TickEnd
  BY <1>7 DEF TickEmpty, TickEnd, EndLobby
<1>8. CASE ReceiveBack \/ ReceiveResign \/ ReceiveLeave \/ ReceiveRematch
  BY <1>8 DEF ReceiveBack, ReceiveResign, ReceiveLeave, ReceiveRematch, Receive
<1>9. \/ \E c \in Conns : \/ Announce(c) \/ ReReady(c) \/ ClientLeaves(c) \/ Hangup(c)
                          \/ \E kind \in {"resign", "rematch"} : ClientSends(c, kind)
      \/ TickEmpty \/ TickEnd
      \/ ReceiveBack \/ ReceiveResign \/ ReceiveLeave \/ ReceiveRematch
      \/ UNCHANGED events
  BY DEF Next, ConnNext, TickNext, ReceiveNext, Fail, Reap, Evict, Connect, LoseLink,
         Authenticate, Refuse, Insert, WriteFrame, TickTurn, RecordDropped, MgmtClose,
         TicketsExpire, MatchTimeUp, vars, eventVars
<1> QED BY <1>2, <1>3, <1>4, <1>5, <1>6, <1>7, <1>8, <1>9

LEMMA LeavesLateStep ==
    ASSUME TypeOK, Owned, LeavesLate, [Next]_vars
    PROVE  LeavesLate'
<1>1. events \in Seq(Events)
  BY DEF TypeOK, EventTypeOK
<1>2. ASSUME NEW i \in DOMAIN events' PROVE Late(events[i])'
  <2>1. \/ \E j \in DOMAIN events : events'[i] = events[j]
        \/ \E e \in Events : events'[i] = e /\ Late(e)'
    <3>1. CASE UNCHANGED events
      BY <1>2, <3>1
    <3>2. CASE events' = <<>>
      BY <1>2, <3>2
    <3>3. CASE events # <<>> /\ events' = Tail(events)
      <4>1. i + 1 \in DOMAIN events /\ events'[i] = events[i + 1]
        BY <1>1, <1>2, <3>3
      <4> QED BY <4>1
    <3>4. ASSUME NEW e \in Events, events' = Append(events, e), Late(e)'
          PROVE  \/ \E j \in DOMAIN events : events'[i] = events[j]
                 \/ \E f \in Events : events'[i] = f /\ Late(f)'
      BY <1>1, <1>2, <3>4
    <3> QED BY <3>1, <3>2, <3>3, <3>4, EventCases
  <2>2. ASSUME NEW j \in DOMAIN events, events'[i] = events[j] PROVE Late(events[i])'
    <3>1. PICK e \in Events : e = events[j]
      BY <1>1
    <3>2. Late(e)'
      BY <3>1, LateStable DEF LeavesLate
    <3> QED BY <2>2, <3>1, <3>2 DEF Late
  <2>3. ASSUME NEW e \in Events, events'[i] = e, Late(e)' PROVE Late(events[i])'
    BY <2>3 DEF Late
  <2> QED BY <2>1, <2>2, <2>3
<1> QED BY <1>2 DEF LeavesLate

LEMMA SeatStep ==
    ASSUME TypeOK, Owned, LeavesLate, [Next]_vars,
           NEW p \in Players, clients[p] # 0, clients'[p] = 0
    PROVE  \/ link[p] # clients[p]
           \/ phase[clients[p]] = "closed"
           \/ missed[p] + 1 >= MaxMissed
<1> USE DEF TypeOK
<1>1. ASSUME NEW c \in Conns, Insert(c) \/ ReReady(c) PROVE FALSE
  <2>1. clients' = [clients EXCEPT ![owner[c]] = c]
    BY <1>1 DEF Insert, ReReady
  <2> QED BY <2>1 DEF ChannelTypeOK, Conns
<1>2. CASE TickTurn
  BY <1>2 DEF TickTurn, Dropped, Connected, Closed
<1>3. CASE ReceiveRematch
  BY <1>3 DEF ReceiveRematch, Connected, Closed
<1>4. CASE ReceiveLeave
  <2>1. /\ Head(events).player = p /\ Head(events).gen = clients[p]
        /\ Head(events).kind = "leave"
    BY <1>4, ReceiveType DEF ReceiveLeave, CurrentLeave, Receive, channelVars, ChannelTypeOK
  <2>2. 1 \in DOMAIN events /\ Head(events) = events[1]
    BY <1>4 DEF ReceiveLeave, Receive, EventTypeOK
  <2> QED BY <2>1, <2>2 DEF LeavesLate, Late
<1>5. \/ \E c \in Conns : Insert(c) \/ ReReady(c)
      \/ TickTurn \/ ReceiveRematch \/ ReceiveLeave
      \/ UNCHANGED clients
  BY DEF Next, ConnNext, TickNext, ReceiveNext, Fail, Reap, Evict, Connect, LoseLink,
         Authenticate, Refuse, Announce, WriteFrame, ClientSends, ClientLeaves, Hangup,
         TickEmpty, TickEnd, RecordDropped, ReceiveBack, ReceiveResign, MgmtClose,
         TicketsExpire, MatchTimeUp, vars, channelVars
<1> QED BY <1>1, <1>2, <1>3, <1>4, <1>5

LEMMA LeavesLateCorrect == Spec => []LeavesLate
<1>1. Init => LeavesLate
  BY DEF Init, LeavesLate
<1>2. TypeOK /\ Owned /\ LeavesLate /\ [Next]_vars => LeavesLate'
  BY LeavesLateStep
<1> QED BY <1>1, <1>2, TypeCorrect, OwnedCorrect, PTL DEF Spec

\* A client that holds the registered connection keeps its seat unless it is too
\* slow or its task has ended: the Leave of an earlier connection, however late,
\* never unseats it (the generation check of tick_task).
THEOREM SeatIsSafeCorrect == Spec => SeatIsSafe
<1>1. TypeOK /\ Owned /\ LeavesLate /\ [Next]_vars
      => [\A p \in Players : clients[p] # 0 /\ clients'[p] = 0 =>
             \/ link[p] # clients[p]
             \/ phase[clients[p]] = "closed"
             \/ missed[p] + 1 >= MaxMissed]_vars
  BY SeatStep
<1> QED BY <1>1, TypeCorrect, OwnedCorrect, LeavesLateCorrect, PTL DEF Spec, SeatIsSafe


-----------------------------------------------------------------------------
(* The marks.  What the simulation will take for a player turns to "gone" only *)
(* as the player's channel is removed; a connection that takes its place       *)
(* queues a "back" before it counts as running.                                *)

\* The registered connection is the player's own, and has got past the insert.
Registered ==
    \A p \in Players : clients[p] # 0 =>
        /\ owner[clients[p]] = p
        /\ phase[clients[p]] \in {"inserted", "running", "closed"}

LEMMA RegisteredStep ==
    ASSUME TypeOK, Owned, Registered, [Next]_vars
    PROVE  Registered'
<1> USE DEF TypeOK
<1>1. ASSUME NEW p \in Players, clients'[p] # 0
      PROVE  owner'[clients'[p]] = p /\ phase'[clients'[p]] \in {"inserted", "running", "closed"}
  <2> DEFINE k == clients[p]
  <2>1. ASSUME NEW q \in Players, Connect(q)
        PROVE  owner'[clients'[p]] = p /\ phase'[clients'[p]] \in {"inserted", "running", "closed"}
    <3>1. /\ clients' = clients /\ owner' = [owner EXCEPT ![lastGen + 1] = q]
          /\ phase' = [phase EXCEPT ![lastGen + 1] = "hello"]
      BY <2>1 DEF Connect, channelVars
    <3>2. k \in Conns /\ owner[k] = p /\ phase[k] \in {"inserted", "running", "closed"}
      BY <1>1, <3>1, RelayAssumption DEF Registered, ChannelTypeOK, Conns, ConnOrNone
    <3>3. k # lastGen + 1
      <4>1. k <= lastGen /\ lastGen \in Nat /\ k \in Nat
        BY <3>2, RelayAssumption DEF Owned, ClientTypeOK, Conns, ConnOrNone
      <4> QED BY <4>1
    <3> QED BY <3>1, <3>2, <3>3 DEF ClientTypeOK
  <2>2. ASSUME NEW c \in Conns, Insert(c) \/ ReReady(c)
        PROVE  owner'[clients'[p]] = p /\ phase'[clients'[p]] \in {"inserted", "running", "closed"}
    <3>1. /\ clients' = [clients EXCEPT ![owner[c]] = c] /\ owner' = owner
          /\ phase' = [phase EXCEPT ![c] = "inserted"] \/ (phase' = phase /\ phase[c] = "running")
      BY <2>2 DEF Insert, ReReady, clientVars
    <3>2. CASE p = owner[c]
      BY <3>1, <3>2 DEF ChannelTypeOK
    <3>3. CASE p # owner[c]
      <4>1. clients'[p] = k /\ k # 0 /\ k \in Conns
        BY <1>1, <3>1, <3>3, RelayAssumption DEF ChannelTypeOK, Conns, ConnOrNone
      <4>2. owner[k] = p /\ phase[k] \in {"inserted", "running", "closed"} /\ k # c
        BY <3>3, <4>1 DEF Registered
      <4>3. phase'[k] = phase[k]
        BY <3>1, <4>1, <4>2
      <4> QED BY <3>1, <4>1, <4>2, <4>3
    <3> QED BY <3>2, <3>3
  <2>3. ASSUME NEW c \in Conns, NEW from, NEW to, phase[c] = from,
               phase' = [phase EXCEPT ![c] = to],
               from \in {"inserted", "running", "closed"} => to \in {"inserted", "running", "closed"},
               UNCHANGED <<clients, owner>>
        PROVE  owner'[clients'[p]] = p /\ phase'[clients'[p]] \in {"inserted", "running", "closed"}
    BY <1>1, <2>3 DEF Registered, ChannelTypeOK, ConnOrNone, Conns
  <2>4. ASSUME NEW c \in Conns, Authenticate(c) \/ Refuse(c) \/ Announce(c) \/ Hangup(c)
        PROVE  owner'[clients'[p]] = p /\ phase'[clients'[p]] \in {"inserted", "running", "closed"}
    BY <2>3, <2>4 DEF Authenticate, Refuse, Announce, Hangup, clientVars, channelVars
  <2>5. CASE UNCHANGED <<owner, phase>> /\ clients'[p] = clients[p]
    BY <1>1, <2>5 DEF Registered
  <2>6. CASE TickTurn
    BY <1>1, <2>5, <2>6 DEF TickTurn, clientVars
  <2>7. CASE ReceiveLeave
    <3>1. UNCHANGED <<owner, phase>> /\ clients'[p] \in {clients[p], 0}
      <4>1. \/ clients' = clients
            \/ \E q \in Players : clients' = [clients EXCEPT ![q] = 0]
        BY <2>7, ReceiveType DEF ReceiveLeave, channelVars
      <4> QED BY <2>7, <4>1 DEF ReceiveLeave, clientVars, ChannelTypeOK
    <3> QED BY <1>1, <2>5, <3>1
  <2>8. CASE ReceiveRematch
    BY <1>1, <2>5, <2>8 DEF ReceiveRematch, clientVars
  <2>9. \/ \E q \in Players : Connect(q)
        \/ \E c \in Conns : \/ Insert(c) \/ ReReady(c) \/ Authenticate(c) \/ Refuse(c)
                            \/ Announce(c) \/ Hangup(c)
        \/ TickTurn \/ ReceiveLeave \/ ReceiveRematch
        \/ UNCHANGED <<owner, phase, clients>>
    BY DEF Next, ConnNext, TickNext, ReceiveNext, Fail, Reap, Evict, LoseLink, WriteFrame,
           ClientSends, ClientLeaves, TickEmpty, TickEnd, RecordDropped, ReceiveBack,
           ReceiveResign, MgmtClose, TicketsExpire, MatchTimeUp, vars, clientVars, channelVars
  <2> QED BY <2>1, <2>2, <2>4, <2>5, <2>6, <2>7, <2>8, <2>9
<1> QED BY <1>1 DEF Registered

LEMMA RegisteredCorrect == Spec => []Registered
<1>1. Init => Registered
  BY DEF Init, Registered
<1>2. TypeOK /\ Owned /\ Registered /\ [Next]_vars => Registered'
  BY RegisteredStep
<1> QED BY <1>1, <1>2, TypeCorrect, OwnedCorrect, PTL DEF Spec

\* A queued "back" stays queued until it is taken; one more is found at the end.
LEMMA BackStays ==
    ASSUME events \in Seq(Events), NEW p \in Players
    PROVE  /\ UNCHANGED events /\ BackQueued(p) => BackQueued(p)'
           /\ \A e \in Events : events' = Append(events, e) =>
                 /\ BackQueued(p) => BackQueued(p)'
                 /\ e.kind = "back" /\ e.player = p => BackQueued(p)'
           /\ events # <<>> /\ events' = Tail(events) /\ BackQueued(p) =>
                 \/ BackQueued(p)'
                 \/ Head(events).kind = "back" /\ Head(events).player = p
<1>1. UNCHANGED events /\ BackQueued(p) => BackQueued(p)'
  BY DEF BackQueued
<1>2. ASSUME NEW e \in Events, events' = Append(events, e)
      PROVE  /\ BackQueued(p) => BackQueued(p)'
             /\ e.kind = "back" /\ e.player = p => BackQueued(p)'
  <2>1. /\ \A i \in DOMAIN events : i \in DOMAIN events' /\ events'[i] = events[i]
        /\ Len(events) + 1 \in DOMAIN events' /\ events'[Len(events) + 1] = e
    BY <1>2
  <2> QED BY <2>1 DEF BackQueued
<1>3. ASSUME events # <<>>, events' = Tail(events), BackQueued(p)
      PROVE  \/ BackQueued(p)'
             \/ Head(events).kind = "back" /\ Head(events).player = p
  <2>1. PICK i \in DOMAIN events : events[i].kind = "back" /\ events[i].player = p
    BY <1>3 DEF BackQueued
  <2>2. CASE i = 1
    BY <2>1, <2>2
  <2>3. CASE i # 1
    <3>1. i - 1 \in DOMAIN events' /\ events'[i - 1] = events[i]
      BY <1>3, <2>3
    <3> QED BY <2>1, <3>1 DEF BackQueued
  <2> QED BY <2>2, <2>3
<1> QED BY <1>1, <1>2, <1>3

\* While nothing was lost, an event that is sent is queued.
LEMMA SendQueues ==
    ASSUME TypeOK, NEW kind \in Kinds, NEW q \in Players, NEW c \in Conns, Send(kind, q, c),
           ~ended, ~overflowed'
    PROVE  /\ ~overflowed
           /\ \E e \in Events : events' = Append(events, e) /\ e.kind = kind /\ e.player = q
<1>1. [kind |-> kind, player |-> q, gen |-> c] \in Events
  BY RelayAssumption DEF Events, Conns, ConnOrNone
<1> QED BY <1>1 DEF Send

LEMMA MarkStep ==
    ASSUME TypeOK, Owned, Registered, MarkFollowsRoster, [Next]_vars
    PROVE  MarkFollowsRoster'
<1> SUFFICES ASSUME ~overflowed', ~ended', NEW p \in Players,
                    clients'[p] # 0, phase'[clients'[p]] = "running", ~BackQueued(p)'
             PROVE  ~SeenGone(p)'
  BY DEF MarkFollowsRoster
<1> USE DEF TypeOK
<1>1. events \in Seq(Events)
  BY DEF EventTypeOK
<1>2. ASSUME ~overflowed, ~ended, clients'[p] = clients[p],
             phase[clients[p]] = "running", ~BackQueued(p),
             SeenGone(p)' = SeenGone(p)
      PROVE  ~SeenGone(p)'
  BY <1>2 DEF MarkFollowsRoster
<1>3. ASSUME UNCHANGED simVars PROVE SeenGone(p)' = SeenGone(p)
  BY <1>3 DEF SeenGone, simVars
<1>4. ASSUME NEW kind \in Kinds, NEW q \in Players, NEW c \in Conns, Send(kind, q, c),
             UNCHANGED ended
      PROVE  ~overflowed /\ ~ended /\ ~BackQueued(p) /\ (kind = "back" => q # p)
  <2>1. ~overflowed /\ \E e \in Events : events' = Append(events, e) /\ e.kind = kind /\ e.player = q
    BY <1>4, SendQueues
  <2> QED BY <1>1, <1>4, <2>1, BackStays
<1>5. ASSUME NEW c \in Conns, Announce(c) PROVE ~SeenGone(p)'
  <2>1. /\ owner[c] \in Players /\ Send("back", owner[c], c) /\ UNCHANGED ended
        /\ clients' = clients /\ phase' = [phase EXCEPT ![c] = "running"] /\ UNCHANGED simVars
    BY <1>5 DEF Announce, Owned, lifeVars, channelVars
  <2>2. owner[c] # p /\ ~overflowed /\ ~ended /\ ~BackQueued(p)
    BY <1>4, <2>1 DEF Kinds
  <2>3. clients[p] # c
    BY <2>1, <2>2 DEF Registered
  <2>4. phase[clients[p]] = "running"
    BY <2>1, <2>3 DEF ChannelTypeOK, ConnOrNone, Conns
  <2> QED BY <1>2, <1>3, <2>1, <2>2, <2>4
<1>6. ASSUME NEW c \in Conns, ReReady(c) PROVE ~SeenGone(p)'
  <2>1. /\ owner[c] \in Players /\ Send("back", owner[c], c) /\ UNCHANGED ended
        /\ clients' = [clients EXCEPT ![owner[c]] = c] /\ phase' = phase /\ UNCHANGED simVars
    BY <1>6 DEF ReReady, Owned, lifeVars
  <2>2. owner[c] # p /\ ~overflowed /\ ~ended /\ ~BackQueued(p)
    BY <1>4, <2>1 DEF Kinds
  <2>3. clients'[p] = clients[p]
    BY <2>1, <2>2 DEF ChannelTypeOK
  <2> QED BY <1>2, <1>3, <2>1, <2>2, <2>3
<1>7. ASSUME NEW c \in Conns, \/ ClientLeaves(c) \/ Hangup(c)
                              \/ \E kind \in {"resign", "rematch"} : ClientSends(c, kind)
      PROVE  ~SeenGone(p)'
  <2>1. PICK kind \in Kinds : /\ owner[c] \in Players /\ Send(kind, owner[c], c) /\ UNCHANGED ended
                              /\ clients' = clients /\ UNCHANGED simVars
                              /\ phase' = phase \/ phase' = [phase EXCEPT ![c] = "closed"]
    BY <1>7 DEF ClientLeaves, Hangup, ClientSends, Owned, lifeVars, channelVars, Kinds
  <2>2. ~overflowed /\ ~ended /\ ~BackQueued(p)
    BY <1>4, <2>1
  <2>3. phase[clients[p]] = "running"
    <3>1. clients'[p] = clients[p] /\ phase'[clients[p]] = "running"
      BY <2>1
    <3>2. CASE phase' = phase
      BY <3>1, <3>2
    <3>3. CASE phase' = [phase EXCEPT ![c] = "closed"]
      <4>1. clients[p] # c
        BY <3>1, <3>3
      <4>2. clients[p] \in Conns
        BY <2>1, RelayAssumption DEF ChannelTypeOK, ConnOrNone, Conns
      <4> QED BY <3>1, <3>3, <4>1, <4>2
    <3> QED BY <2>1, <3>2, <3>3
  <2> QED BY <1>2, <1>3, <2>1, <2>2, <2>3
<1>8. ASSUME NEW c \in Conns, Authenticate(c) \/ Refuse(c) \/ Insert(c)
      PROVE  ~SeenGone(p)'
  <2>1. /\ UNCHANGED <<overflowed, ended, events>> /\ UNCHANGED simVars
        /\ \E h \in Phases \ {"running"} : phase' = [phase EXCEPT ![c] = h]
        /\ clients' = clients \/ (clients' = [clients EXCEPT ![owner[c]] = c] /\ phase'[c] = "inserted")
    BY <1>8 DEF Authenticate, Refuse, Insert, eventVars, lifeVars, channelVars, Phases
  <2>2. clients'[p] # c
    BY <2>1
  <2>3. clients'[p] = clients[p]
    BY <2>1, <2>2 DEF ChannelTypeOK
  <2>4. phase[clients[p]] = "running" /\ ~BackQueued(p)
    BY <1>1, <2>1, <2>2, <2>3, BackStays DEF ChannelTypeOK, ConnOrNone, Conns
  <2> QED BY <1>2, <1>3, <2>1, <2>3, <2>4
<1>9. ASSUME NEW q \in Players, Connect(q) PROVE ~SeenGone(p)'
  <2>1. /\ UNCHANGED <<overflowed, ended, events, clients>> /\ UNCHANGED simVars
        /\ phase' = [phase EXCEPT ![lastGen + 1] = "hello"]
    BY <1>9 DEF Connect, eventVars, lifeVars, channelVars
  <2>2. phase[clients[p]] = "running"
    BY <2>1 DEF ChannelTypeOK, ConnOrNone, Conns
  <2>3. ~BackQueued(p)
    BY <1>1, <2>1, BackStays
  <2> QED BY <1>2, <1>3, <2>1, <2>2, <2>3
<1>10. CASE TickTurn
  <2>1. /\ UNCHANGED <<overflowed, ended, events, phase>>
        /\ clients'[p] = clients[p]
        /\ marked'[p] = (IF pending[p] = "none" THEN marked[p] ELSE pending[p] = "gone")
        /\ pending'[p] = "none"
    BY <1>10 DEF TickTurn, eventVars
  <2>2. SeenGone(p)' = SeenGone(p)
    BY <2>1 DEF SeenGone
  <2>3. ~BackQueued(p)
    BY <1>1, <2>1, BackStays
  <2> QED BY <1>2, <2>1, <2>2, <2>3
<1>11. CASE ReceiveBack
  <2>1. /\ UNCHANGED <<overflowed, ended, phase, clients, marked>>
        /\ pending' = [pending EXCEPT ![Head(events).player] = "back"]
        /\ events # <<>> /\ events' = Tail(events) /\ Head(events).kind = "back"
    BY <1>11 DEF ReceiveBack, Receive, Mark, channelVars, lifeVars
  <2>2. CASE Head(events).player = p
    BY <2>1, <2>2 DEF SeenGone, SimTypeOK
  <2>3. CASE Head(events).player # p
    <3>1. SeenGone(p)' = SeenGone(p)
      BY <2>1, <2>3 DEF SeenGone, SimTypeOK
    <3>2. ~BackQueued(p)
      BY <1>1, <2>1, <2>3, BackStays
    <3> QED BY <1>2, <2>1, <3>1, <3>2
  <2> QED BY <2>2, <2>3
<1>12. CASE ReceiveLeave
  <2>1. /\ UNCHANGED <<overflowed, ended, phase, marked>>
        /\ events # <<>> /\ events' = Tail(events) /\ Head(events).kind = "leave"
        /\ \/ UNCHANGED <<clients, pending>>
           \/ /\ clients' = [clients EXCEPT ![Head(events).player] = 0]
              /\ pending' = [pending EXCEPT ![Head(events).player] = "gone"]
    BY <1>12 DEF ReceiveLeave, Receive, Mark, channelVars, lifeVars
  <2>2. clients'[p] = clients[p] /\ SeenGone(p)' = SeenGone(p)
    BY <2>1 DEF ChannelTypeOK, SeenGone, SimTypeOK
  <2>3. ~BackQueued(p)
    BY <1>1, <2>1, BackStays
  <2> QED BY <1>2, <2>1, <2>2, <2>3
<1>13. CASE ReceiveResign \/ ReceiveRematch
  <2>1. /\ UNCHANGED <<overflowed, ended, phase, marked, pending>> /\ clients'[p] = clients[p]
        /\ events # <<>> /\ events' = Tail(events) /\ Head(events).kind # "back"
    BY <1>13 DEF ReceiveResign, ReceiveRematch, Receive, channelVars, lifeVars, simVars
  <2>2. ~BackQueued(p)
    BY <1>1, <2>1, BackStays
  <2>3. SeenGone(p)' = SeenGone(p)
    BY <2>1 DEF SeenGone
  <2> QED BY <1>2, <2>1, <2>2, <2>3
<1>14. CASE UNCHANGED <<overflowed, ended, phase, marked, pending, clients, events>>
  <2>1. ~BackQueued(p) /\ SeenGone(p)' = SeenGone(p)
    BY <1>14 DEF BackQueued, SeenGone
  <2> QED BY <1>2, <1>14, <2>1
<1>15. CASE TickEmpty \/ TickEnd
  <2>1. UNCHANGED <<overflowed, ended, phase, marked, pending, clients, events>>
    BY <1>15 DEF TickEmpty, TickEnd, EndLobby, channelVars, simVars
  <2> QED BY <1>14, <2>1
<1>16. \/ \E q \in Players : Connect(q)
       \/ \E c \in Conns : \/ Announce(c) \/ ReReady(c) \/ ClientLeaves(c) \/ Hangup(c)
                           \/ Authenticate(c) \/ Refuse(c) \/ Insert(c)
                           \/ \E kind \in {"resign", "rematch"} : ClientSends(c, kind)
       \/ TickEmpty \/ TickEnd \/ TickTurn
       \/ ReceiveBack \/ ReceiveResign \/ ReceiveLeave \/ ReceiveRematch
       \/ UNCHANGED <<overflowed, ended, phase, marked, pending, clients, events>>
  BY DEF Next, ConnNext, TickNext, ReceiveNext, Fail, Reap, Evict, LoseLink, WriteFrame,
         RecordDropped, MgmtClose, TicketsExpire, MatchTimeUp, vars, channelVars, simVars,
         eventVars, lifeVars
<1> QED BY <1>5, <1>6, <1>7, <1>8, <1>9, <1>10, <1>11, <1>12, <1>13, <1>14, <1>15, <1>16

\* The simulation of everyone does not show a player whose registered connection
\* runs as disconnected, once its MarkDisconnected(false) has been taken from the
\* event channel and unless one was lost to a full one (ws_task, tick_task).
THEOREM MarkFollowsRosterCorrect == Spec => []MarkFollowsRoster
<1>1. Init => MarkFollowsRoster
  BY DEF Init, MarkFollowsRoster
<1>2. TypeOK /\ Owned /\ Registered /\ MarkFollowsRoster /\ [Next]_vars => MarkFollowsRoster'
  BY MarkStep
<1> QED BY <1>1, <1>2, TypeCorrect, OwnedCorrect, RegisteredCorrect, PTL DEF Spec
=============================================================================
