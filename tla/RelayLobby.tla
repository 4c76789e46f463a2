------------------------------ MODULE RelayLobby ------------------------------
(***************************************************************************)
(* One lobby on a relay worker (sow-relay/src/main.rs): the connections    *)
(* that register for its players, the relay tickets that admit them, the   *)
(* tick task that broadcasts turns and consumes the lobby's events, the    *)
(* match tracker that ranks departing players, and the end of the lobby.   *)
(*                                                                         *)
(* A connection is named by the generation the bridge gives it at accept,  *)
(* so connections are numbered in the order they were opened.  A reconnect *)
(* token is 32 fresh random bytes; it is named by the connection it was    *)
(* issued to.  0 stands for "no connection" and "no token".                *)
(*                                                                         *)
(* What a turn contains, other than the connection marks, is the subject   *)
(* of TurnStream; here frames are only counted.                            *)
(***************************************************************************)
EXTENDS Naturals, Sequences, Functions

CONSTANTS
    Players,          \* the roster: keys of LobbyState.valid_players
    NoPlayer,         \* the owner of a connection not opened yet
    Accounts,         \* roster players with a database account
    MaxConn,          \* bound: how many connections clients open in all
    TicketsRequired,  \* SOW_RELAY_TICKETS_REQUIRED
    ChannelCap,       \* PER_CLIENT_CHANNEL
    EventCap,         \* EVENT_CHANNEL
    MaxMissed,        \* MAX_MISSED_TICKS
    InitialEmpty,     \* ticks an empty new lobby is kept (active_empty_secs)
    EmptyBudget,      \* ticks an emptied lobby is kept (the 30.0 of tick_task)
    Outside           \* bound: the optional events that an instance lets happen

ASSUME RelayAssumption ==
    /\ NoPlayer \notin Players
    /\ Accounts \subseteq Players
    /\ MaxConn \in Nat
    /\ TicketsRequired \in BOOLEAN
    /\ ChannelCap \in Nat \ {0}
    /\ EventCap \in Nat \ {0}
    /\ MaxMissed \in Nat \ {0}
    /\ InitialEmpty \in Nat \ {0}
    /\ EmptyBudget \in Nat \ {0}
    /\ Outside \subseteq {"resign", "rematch", "close", "expire", "overtime"}

Conns == 1..MaxConn
ConnOrNone == 0..MaxConn

VARIABLES
    lastGen,      \* generations handed out by the bridge so far
    phase,        \* where the task of each connection (ws_task) stands
    owner,        \* the player each connection claims
    shown,        \* the token in its first frame; 0 is the initial ticket
    link,         \* per player: the connection the client currently holds
    held,         \* per player: the reconnect token the client last received
    initialUsed,  \* RelayAuthState.initial_used
    digests,      \* RelayAuthState.reconnect_digests
    clients,      \* LobbyState.clients: generation of the registered channel
    missed,       \* ClientChannel.missed_ticks
    chan,         \* frames waiting in each connection's direct_rx
    ticket,       \* the reconnect token waiting in a connection's direct_rx
    events,       \* the lobby's event channel (ev_tx -> ev_rx)
    overflowed,   \* history: some event was lost to a full event channel
    pending,      \* last MarkDisconnected of each player in pending_intents
    marked,       \* Player.disconnected after the turns emitted so far
    resigned,     \* players whose Resign intent entered the stream
    dropping,     \* dropped_players of the current tick, exit not recorded yet
    inMatch,      \* MatchTracker.in_match
    exits,        \* the exit log, in order; its range is logged_exits
    finalized,    \* MatchTracker.finalized
    emptyLeft,    \* active_empty_secs, in ticks
    registered,   \* the lobby is in the worker's registry
    ended,        \* the tick task has finished
    expired,      \* ticket_expires_at has passed
    overdue       \* max_match_secs has passed

clientVars  == <<lastGen, owner, shown, link, held>>
authVars    == <<initialUsed, digests>>
channelVars == <<clients, missed>>
frameVars   == <<chan, ticket>>
eventVars   == <<events, overflowed>>
simVars     == <<pending, marked, resigned>>
trackerVars == <<inMatch, exits, finalized>>
lifeVars    == <<emptyLeft, registered, ended>>
clockVars   == <<expired, overdue>>

vars == <<clientVars, phase, authVars, channelVars, frameVars, eventVars,
          simVars, dropping, trackerVars, lifeVars, clockVars>>

-----------------------------------------------------------------------------
Phases  == {"none", "hello", "refused", "authed", "inserted", "running", "closed"}
Marks   == {"none", "gone", "back"}
Kinds   == {"back", "leave", "resign", "rematch"}
Events  == [kind : Kinds, player : Players, gen : ConnOrNone]

Tracked == Accounts # {}
Logged  == Range(exits)

AtMostOne(S) == \A a, b \in S : a = b

Init ==
    /\ lastGen = 0
    /\ phase  = [c \in Conns |-> "none"]
    /\ owner  = [c \in Conns |-> NoPlayer]
    /\ shown  = [c \in Conns |-> 0]
    /\ link   = [p \in Players |-> 0]
    /\ held   = [p \in Players |-> 0]
    /\ initialUsed = {}
    /\ digests = [p \in Players |-> 0]
    /\ clients = [p \in Players |-> 0]
    /\ missed  = [p \in Players |-> 0]
    /\ chan    = [c \in Conns |-> 0]
    /\ ticket  = [c \in Conns |-> 0]
    /\ events  = <<>>
    /\ overflowed = FALSE
    /\ pending = [p \in Players |-> "none"]
    /\ marked  = [p \in Players |-> FALSE]
    /\ resigned = {}
    /\ dropping = {}
    /\ inMatch = Players
    /\ exits = <<>>
    /\ finalized = FALSE
    /\ emptyLeft = InitialEmpty
    /\ registered = TRUE
    /\ ended = FALSE
    /\ expired = FALSE
    /\ overdue = FALSE

-----------------------------------------------------------------------------
(* The lobby's event channel: try_send drops the event when it is full and *)
(* when the tick task, its receiver, has finished.                         *)

Send(kind, p, c) ==
    IF ended
    THEN UNCHANGED eventVars
    ELSE IF Len(events) < EventCap
         THEN /\ events' = Append(events, [kind |-> kind, player |-> p, gen |-> c])
              /\ UNCHANGED overflowed
         ELSE /\ overflowed' = TRUE
              /\ UNCHANGED events

-----------------------------------------------------------------------------
(* The client.                                                             *)

\* The player's client opens a connection and sends its first frame: the
\* reconnect token if it has received one, the initial ticket otherwise.  (A
\* connection opened after the lobby has ended is only refused: left out.)
Connect(p) ==
    /\ link[p] = 0
    /\ ~ended
    /\ lastGen < MaxConn
    /\ lastGen' = lastGen + 1
    /\ owner' = [owner EXCEPT ![lastGen + 1] = p]
    /\ phase' = [phase EXCEPT ![lastGen + 1] = "hello"]
    /\ shown' = [shown EXCEPT ![lastGen + 1] = held[p]]
    /\ link'  = [link EXCEPT ![p] = lastGen + 1]
    /\ UNCHANGED <<held, authVars, channelVars, frameVars, eventVars, simVars,
                   dropping, trackerVars, lifeVars, clockVars>>

\* The client loses its connection or drops it; the relay does not know yet.
LoseLink(p) ==
    /\ link[p] # 0
    /\ link' = [link EXCEPT ![p] = 0]
    /\ UNCHANGED <<lastGen, owner, shown, held, phase, authVars, channelVars,
                   frameVars, eventVars, simVars, dropping, trackerVars,
                   lifeVars, clockVars>>

-----------------------------------------------------------------------------
(* Registration: try_register_with_admission.                              *)

\* Mutant: initial_used is not consulted.
ReplayAdmissible(c) ==
    \/ ~TicketsRequired
    \/ ~expired /\ shown[c] \in {0, digests[owner[c]]}

Admissible(c) ==
    LET p == owner[c] IN
    \/ ~TicketsRequired
    \/ /\ ~expired
       /\ IF shown[c] = 0 THEN p \notin initialUsed ELSE digests[p] = shown[c]

\* Mutant: a reconnect keeps the capability it used.
RotatedOnce(c) ==
    IF shown[c] = 0 THEN [digests EXCEPT ![owner[c]] = c] ELSE digests

\* The digest of a fresh reconnect token replaces the player's.
Rotated(c) == [digests EXCEPT ![owner[c]] = c]

\* The lobby lookup and the ticket check, under the auth lock.  Each ticket
\* admission issues a fresh reconnect token; a legacy Ready issues none.
Authenticate(c) ==
    /\ phase[c] = "hello"
    /\ registered
    /\ Admissible(c)
    /\ phase' = [phase EXCEPT ![c] = "authed"]
    /\ IF TicketsRequired
       THEN /\ initialUsed' = IF shown[c] = 0 THEN initialUsed \cup {owner[c]}
                                             ELSE initialUsed
            /\ digests' = Rotated(c)
       ELSE UNCHANGED authVars
    /\ UNCHANGED <<clientVars, channelVars, frameVars, eventVars, simVars,
                   dropping, trackerVars, lifeVars, clockVars>>

\* A first frame that does not resolve to a role: the socket is closed, and no
\* Leave is sent for it.
Refuse(c) ==
    /\ phase[c] = "hello"
    /\ ~(registered /\ Admissible(c))
    /\ phase' = [phase EXCEPT ![c] = "refused"]
    /\ UNCHANGED <<clientVars, authVars, channelVars, frameVars, eventVars,
                   simVars, dropping, trackerVars, lifeVars, clockVars>>

\* The channel replaces whatever was registered for the player.  The tick task
\* holds the clients lock from its broadcast to its last recorded exit.
Insert(c) ==
    /\ phase[c] = "authed"
    /\ dropping = {}
    /\ phase'   = [phase EXCEPT ![c] = "inserted"]
    /\ clients' = [clients EXCEPT ![owner[c]] = c]
    /\ missed'  = [missed EXCEPT ![owner[c]] = 0]
    /\ UNCHANGED <<clientVars, authVars, frameVars, eventVars, simVars,
                   dropping, trackerVars, lifeVars, clockVars>>

\* MarkDisconnected(false), the reconnect ticket, and the turns of the live
\* history; a frame that finds the channel full for 500 ms is lost.
Announce(c) ==
    /\ phase[c] = "inserted"
    /\ Send("back", owner[c], c)
    /\ phase' = [phase EXCEPT ![c] = "running"]
    /\ IF TicketsRequired /\ chan[c] < ChannelCap
       THEN /\ ticket' = [ticket EXCEPT ![c] = c]
            /\ \E n \in (chan[c] + 1)..ChannelCap : chan' = [chan EXCEPT ![c] = n]
       ELSE /\ UNCHANGED ticket
            /\ \E n \in chan[c]..ChannelCap : chan' = [chan EXCEPT ![c] = n]
    /\ UNCHANGED <<clientVars, authVars, channelVars, simVars, dropping,
                   trackerVars, lifeVars, clockVars>>

\* A plain Ready in the middle of a session registers the connection again;
\* only where tickets are not required.
ReReady(c) ==
    /\ phase[c] = "running"
    /\ ~TicketsRequired
    /\ dropping = {}
    /\ link[owner[c]] = c
    /\ clients' = [clients EXCEPT ![owner[c]] = c]
    /\ missed'  = [missed EXCEPT ![owner[c]] = 0]
    /\ Send("back", owner[c], c)
    /\ UNCHANGED <<clientVars, phase, authVars, frameVars, simVars, dropping,
                   trackerVars, lifeVars, clockVars>>

-----------------------------------------------------------------------------
(* The connection loop: ws_task after a successful registration.           *)

\* The loop writes a waiting frame to the socket.  A reconnect token among the
\* frames reaches the client if the client still holds this connection.
WriteFrame(c) ==
    /\ phase[c] = "running"
    /\ chan[c] > 0
    /\ chan' = [chan EXCEPT ![c] = @ - 1]
    /\ \/ /\ ticket[c] # 0
          /\ ticket' = [ticket EXCEPT ![c] = 0]
          /\ held' = IF link[owner[c]] = c
                     THEN [held EXCEPT ![owner[c]] = ticket[c]]
                     ELSE held
       \/ /\ ticket[c] # 0 => chan[c] > 1
          /\ UNCHANGED <<ticket, held>>
    /\ UNCHANGED <<lastGen, owner, shown, link, phase, authVars, channelVars,
                   eventVars, simVars, dropping, trackerVars, lifeVars, clockVars>>

\* A frame from the client: Gameplay{Resign} or RematchRequest.
ClientSends(c, kind) ==
    /\ phase[c] = "running"
    /\ link[owner[c]] = c
    /\ kind \in Outside
    /\ Send(kind, owner[c], c)
    /\ UNCHANGED <<clientVars, phase, authVars, channelVars, frameVars, simVars,
                   dropping, trackerVars, lifeVars, clockVars>>

\* ClientMessage::Leave; the client that sends it then drops the socket.
ClientLeaves(c) ==
    /\ phase[c] = "running"
    /\ link[owner[c]] = c
    /\ link' = [link EXCEPT ![owner[c]] = 0]
    /\ Send("leave", owner[c], c)
    /\ UNCHANGED <<lastGen, owner, shown, held, phase, authVars, channelVars,
                   frameVars, simVars, dropping, trackerVars, lifeVars, clockVars>>

\* The loop ends; its last act is a Leave carrying its own generation.  The
\* frames still waiting are dropped with the channel.
Hangup(c) ==
    /\ phase[c] = "running"
    /\ phase'  = [phase EXCEPT ![c] = "closed"]
    /\ chan'   = [chan EXCEPT ![c] = 0]
    /\ ticket' = [ticket EXCEPT ![c] = 0]
    /\ Send("leave", owner[c], c)
    /\ UNCHANGED <<clientVars, authVars, channelVars, simVars, dropping,
                   trackerVars, lifeVars, clockVars>>

\* A read or write on the socket fails.
Fail(c) == Hangup(c)

\* Mutant: a frame written counts as a sign of life.
SilentAndIdle(c) == link[owner[c]] # c /\ chan[c] = 0

\* Nothing arrives any more, neither frames nor pongs.
Silent(c) == link[owner[c]] # c

\* The rx deadline reaps the connection.
Reap(c) ==
    /\ phase[c] = "running"
    /\ Silent(c)
    /\ Hangup(c)

\* Mutant: only the player's channel is looked up.
Unseated(c) == dropping = {} /\ clients[owner[c]] = 0

\* The ping tick finds the lobby unregistered, or the player without a channel.
Evictable(c) ==
    \/ ~registered
    \/ dropping = {} /\ clients[owner[c]] = 0

Evict(c) ==
    /\ phase[c] = "running"
    /\ Evictable(c)
    /\ Hangup(c)

-----------------------------------------------------------------------------
(* The match tracker: record_exit.                                         *)

\* Mutant: logged_exits is not consulted.
HasAccount(p) == p \in Accounts

\* The player has an account whose exit is not logged yet.
Loggable(p) == p \in Accounts \ Logged

\* Mutant: the last player in the match is not ranked.
NoSurvivor(left, log) == {}

\* The account of the last player in the match, if it is not in the log.
Survivor(left, log) == (left \cap Accounts) \ Range(log)

RecordExit(p) ==
    LET left   == inMatch \ {p}
        first  == IF Loggable(p) THEN Append(exits, p) ELSE exits
        winner == Survivor(left, first)
    IN  /\ inMatch' = left
        /\ IF Tracked /\ ~finalized
           THEN /\ finalized' = AtMostOne(left)
                /\ IF AtMostOne(left) /\ winner # {}
                   THEN \E w \in winner : exits' = Append(first, w)
                   ELSE exits' = first
           ELSE UNCHANGED <<exits, finalized>>

-----------------------------------------------------------------------------
(* The tick task.                                                          *)

Connected == {p \in Players : clients[p] # 0}
Closed(c) == phase[c] = "closed"
Full(c)   == chan[c] = ChannelCap

\* Mutant: the channel of a connection takes any number of frames.
BroadcastUnbounded ==
    chan' = [c \in Conns |->
        IF \E p \in Players : clients[p] = c THEN chan[c] + 1 ELSE chan[c]]

\* What a broadcast does to the connections that are registered.
Broadcast ==
    chan' = [c \in Conns |->
        IF /\ \E p \in Players : clients[p] = c
           /\ ~Closed(c)
           /\ ~Full(c)
        THEN chan[c] + 1 ELSE chan[c]]

\* The loop breaks: the replay is finalized, the lobby leaves the registry, the
\* game port is released and the event receiver is dropped.
EndLobby ==
    /\ ended' = TRUE
    /\ registered' = FALSE
    /\ events' = <<>>

\* A tick with no channel registered: no turn; the empty budget runs down.
TickEmpty ==
    /\ ~ended
    /\ dropping = {}
    /\ Connected = {}
    /\ emptyLeft > 0
    /\ emptyLeft' = emptyLeft - 1
    /\ IF finalized \/ emptyLeft = 1
       THEN EndLobby
       ELSE UNCHANGED <<ended, registered, events>>
    /\ UNCHANGED <<clientVars, phase, authVars, channelVars, frameVars,
                   overflowed, simVars, dropping, trackerVars, clockVars>>

\* Mutant: only the clock ends a match that has clients.
OverByTime == overdue

Over == finalized \/ overdue

\* A tick that finds the match finalized or over time: LobbyClosed goes out.
TickEnd ==
    /\ ~ended
    /\ dropping = {}
    /\ Connected # {}
    /\ Over
    /\ emptyLeft' = EmptyBudget
    /\ Broadcast
    /\ EndLobby
    /\ UNCHANGED <<clientVars, phase, authVars, channelVars, ticket, overflowed,
                   simVars, dropping, trackerVars, clockVars>>

\* The players whose channel the broadcast drops: closed, or full once too often.
Dropped ==
    {p \in Connected :
        LET c == clients[p] IN
        Closed(c) \/ (Full(c) /\ missed[p] + 1 >= MaxMissed)}

\* A tick that emits a turn: the pending intents are taken into it.
TickTurn ==
    /\ ~ended
    /\ dropping = {}
    /\ Connected # {}
    /\ ~Over
    /\ emptyLeft' = EmptyBudget
    /\ marked' = [p \in Players |->
           IF pending[p] = "none" THEN marked[p] ELSE pending[p] = "gone"]
    /\ pending' = [p \in Players |-> "none"]
    /\ Broadcast
    /\ clients' = [p \in Players |-> IF p \in Dropped THEN 0 ELSE clients[p]]
    /\ missed'  = [p \in Players |->
           IF p \in Connected \ Dropped /\ Full(clients[p])
           THEN missed[p] + 1 ELSE 0]
    /\ dropping' = Dropped
    /\ UNCHANGED <<clientVars, phase, authVars, ticket, eventVars, resigned,
                   trackerVars, registered, ended, clockVars>>

\* The same tick, under the same locks, records the exits of the dropped.
RecordDropped(p) ==
    /\ p \in dropping
    /\ RecordExit(p)
    /\ dropping' = dropping \ {p}
    /\ UNCHANGED <<clientVars, phase, authVars, channelVars, frameVars, eventVars,
                   simVars, lifeVars, clockVars>>

\* An event the tick task takes from the channel.
Receive(kind) ==
    /\ ~ended
    /\ dropping = {}
    /\ events # <<>>
    /\ Head(events).kind = kind
    /\ events' = Tail(events)

\* Mutant: a second mark of the same turn is taken for a repetition.
MarkFirst(p, mark) ==
    IF pending[p] = "none" THEN [pending EXCEPT ![p] = mark] ELSE pending

\* MarkDisconnected joins the pending intents; the last of a turn decides.
Mark(p, mark) == [pending EXCEPT ![p] = mark]

ReceiveBack ==
    /\ Receive("back")
    /\ pending' = Mark(Head(events).player, "back")
    /\ UNCHANGED <<clientVars, phase, authVars, channelVars, frameVars,
                   overflowed, marked, resigned, dropping, trackerVars, lifeVars,
                   clockVars>>

ReceiveResign ==
    /\ Receive("resign")
    /\ RecordExit(Head(events).player)
    /\ resigned' = resigned \cup {Head(events).player}
    /\ UNCHANGED <<clientVars, phase, authVars, channelVars, frameVars,
                   overflowed, pending, marked, dropping, lifeVars, clockVars>>

\* Mutant: any Leave of the player removes it.
AnyLeave(e) == clients[e.player] # 0

\* Only the generation that is registered may be removed by its own Leave.
CurrentLeave(e) == clients[e.player] = e.gen

ReceiveLeave ==
    /\ Receive("leave")
    /\ LET e == Head(events) IN
       IF CurrentLeave(e)
       THEN /\ clients' = [clients EXCEPT ![e.player] = 0]
            /\ missed'  = [missed EXCEPT ![e.player] = 0]
            /\ RecordExit(e.player)
            /\ pending' = Mark(e.player, "gone")
       ELSE UNCHANGED <<channelVars, trackerVars, pending>>
    /\ UNCHANGED <<clientVars, phase, authVars, frameVars, overflowed, marked,
                   resigned, dropping, lifeVars, clockVars>>

\* LobbyClosed with a rematch id goes to everyone; closed channels are removed,
\* with neither an exit nor a mark.
ReceiveRematch ==
    /\ Receive("rematch")
    /\ Broadcast
    /\ clients' = [p \in Players |->
           IF p \in Connected /\ Closed(clients[p]) THEN 0 ELSE clients[p]]
    /\ missed' = [p \in Players |->
           IF p \in Connected /\ Closed(clients[p]) THEN 0 ELSE missed[p]]
    /\ UNCHANGED <<clientVars, phase, authVars, ticket, overflowed, simVars,
                   dropping, trackerVars, lifeVars, clockVars>>

-----------------------------------------------------------------------------
(* The management API and the clocks.                                      *)

\* POST /internal/lobby/close: the lobby leaves the registry and its port is
\* released; its tick task runs on until it ends by itself.
MgmtClose ==
    /\ "close" \in Outside
    /\ registered
    /\ registered' = FALSE
    /\ UNCHANGED <<clientVars, phase, authVars, channelVars, frameVars, eventVars,
                   simVars, dropping, trackerVars, emptyLeft, ended, clockVars>>

TicketsExpire ==
    /\ "expire" \in Outside
    /\ ~expired
    /\ expired' = TRUE
    /\ UNCHANGED <<clientVars, phase, authVars, channelVars, frameVars, eventVars,
                   simVars, dropping, trackerVars, lifeVars, overdue>>

MatchTimeUp ==
    /\ "overtime" \in Outside
    /\ ~overdue
    /\ overdue' = TRUE
    /\ UNCHANGED <<clientVars, phase, authVars, channelVars, frameVars, eventVars,
                   simVars, dropping, trackerVars, lifeVars, expired>>

-----------------------------------------------------------------------------
ConnNext(c) ==
    \/ Authenticate(c)
    \/ Refuse(c)
    \/ Insert(c)
    \/ Announce(c)
    \/ ReReady(c)
    \/ WriteFrame(c)
    \/ \E kind \in {"resign", "rematch"} : ClientSends(c, kind)
    \/ ClientLeaves(c)
    \/ Fail(c)
    \/ Reap(c)
    \/ Evict(c)

TickNext ==
    \/ TickEmpty
    \/ TickEnd
    \/ TickTurn
    \/ \E p \in Players : RecordDropped(p)

ReceiveNext ==
    \/ ReceiveBack
    \/ ReceiveResign
    \/ ReceiveLeave
    \/ ReceiveRematch

Next ==
    \/ \E p \in Players : Connect(p) \/ LoseLink(p)
    \/ \E c \in Conns : ConnNext(c)
    \/ TickNext
    \/ ReceiveNext
    \/ MgmtClose
    \/ TicketsExpire
    \/ MatchTimeUp

Spec == Init /\ [][Next]_vars

\* The interval of the tick task, the rx deadline, the ping interval and the
\* registration of a connection all run on timers or ready tasks of the
\* runtime; nothing is assumed of clients, of the management API, or of the
\* order in which the tick task serves its timer and its events.
Fairness ==
    /\ WF_vars(TickNext)
    /\ \A c \in Conns :
        /\ WF_vars(Authenticate(c) \/ Refuse(c) \/ Insert(c) \/ Announce(c))
        /\ WF_vars(Reap(c))
        /\ WF_vars(Evict(c))

FairSpec == Spec /\ Fairness

-----------------------------------------------------------------------------
(* Properties.                                                             *)

ClientTypeOK ==
    /\ lastGen \in ConnOrNone
    /\ owner \in [Conns -> Players \cup {NoPlayer}]
    /\ shown \in [Conns -> ConnOrNone]
    /\ link \in [Players -> ConnOrNone]
    /\ held \in [Players -> ConnOrNone]

AuthTypeOK ==
    /\ initialUsed \subseteq Players
    /\ digests \in [Players -> ConnOrNone]

ChannelTypeOK ==
    /\ clients \in [Players -> ConnOrNone]
    /\ missed \in [Players -> 0..(MaxMissed - 1)]

FrameTypeOK ==
    /\ chan \in [Conns -> 0..ChannelCap]
    /\ ticket \in [Conns -> ConnOrNone]

EventTypeOK ==
    /\ events \in Seq(Events)
    /\ Len(events) <= EventCap
    /\ overflowed \in BOOLEAN

SimTypeOK ==
    /\ pending \in [Players -> Marks]
    /\ marked \in [Players -> BOOLEAN]
    /\ resigned \subseteq Players

TrackerTypeOK ==
    /\ inMatch \subseteq Players
    /\ exits \in Seq(Accounts)
    /\ finalized \in BOOLEAN

LifeTypeOK ==
    /\ emptyLeft \in Nat
    /\ registered \in BOOLEAN
    /\ ended \in BOOLEAN

ClockTypeOK ==
    /\ expired \in BOOLEAN
    /\ overdue \in BOOLEAN

\* Every variable has its type; no channel holds more frames than its capacity
\* and no registered client has missed MAX_MISSED_TICKS ticks.
TypeOK ==
    /\ phase \in [Conns -> Phases]
    /\ dropping \subseteq Players
    /\ ClientTypeOK
    /\ AuthTypeOK
    /\ ChannelTypeOK
    /\ FrameTypeOK
    /\ EventTypeOK
    /\ SimTypeOK
    /\ TrackerTypeOK
    /\ LifeTypeOK
    /\ ClockTypeOK

Admitted(c) == phase[c] \in {"authed", "inserted", "running", "closed"}

\* docs/security-audit.md: the initial ticket is one-shot and a reconnect
\* capability is replaced on every reconnect.  No two connections of a player
\* are ever admitted on the same credential, however their frames race.
TicketAdmitsOnce ==
    TicketsRequired =>
        \A c, d \in Conns :
            /\ Admitted(c) /\ Admitted(d)
            /\ owner[c] = owner[d]
            /\ shown[c] = shown[d]
            => c = d

\* Turns go to the connection that was admitted last: the registered channel
\* belongs to it, unless it has passed the ticket check and is about to register.
RoutedToNewest ==
    TicketsRequired =>
        \A p \in Players : clients[p] # 0 =>
            \/ clients[p] = digests[p]
            \/ phase[digests[p]] = "authed"

\* A registration never replaces a player's channel by that of a connection the
\* client opened earlier.
ReplacedForward ==
    [][TicketsRequired =>
        \A p \in Players : clients'[p] # 0 => clients'[p] >= clients[p]]_vars

\* A player whose client still holds the registered connection, and whose socket
\* is up, loses the channel only for being too slow: no late Leave of an earlier
\* connection unseats it.
SeatIsSafe ==
    [][\A p \in Players : clients[p] # 0 /\ clients'[p] = 0 =>
        \/ link[p] # clients[p]
        \/ phase[clients[p]] = "closed"
        \/ missed[p] + 1 >= MaxMissed]_vars

\* Nobody is ranked twice, however often a player resigns, leaves and returns.
ExitsUnique ==
    \A i, j \in DOMAIN exits : exits[i] = exits[j] => i = j

\* A finalized match has ranked every account of the roster, the survivor last.
RankingComplete ==
    finalized =>
        /\ Logged = Accounts
        /\ \A w \in inMatch \cap Accounts : exits[Len(exits)] = w

\* The ranking counts everyone once: nobody twice while the match goes on, and
\* nobody left out when it is finalized (MatchTracker::record_exit).
RankingExact == ExitsUnique /\ RankingComplete

\* What the simulation will take for the player's connection once the pending
\* intents are applied.
SeenGone(p) == IF pending[p] = "none" THEN marked[p] ELSE pending[p] = "gone"

BackQueued(p) ==
    \E i \in DOMAIN events : events[i].kind = "back" /\ events[i].player = p

\* The simulation of everyone does not show a registered player as disconnected,
\* except while its MarkDisconnected(false) waits, or was lost to a full channel.
MarkFollowsRoster ==
    ~overflowed /\ ~ended =>
        \A p \in Players :
            /\ clients[p] # 0
            /\ phase[clients[p]] = "running"
            /\ ~BackQueued(p)
            => ~SeenGone(p)

\* A finalized match and a match that is over time come to an end, with clients
\* connected or not.
MatchEnds == (finalized \/ overdue) ~> ended

\* Once the lobby is gone the relay closes what is connected to it, so nothing
\* pins its state in memory.
ConnectionsClose ==
    \A c \in Conns : ended /\ phase[c] = "running" ~> phase[c] = "closed"

\* A peer that vanished does not linger in the lobby forever (RX_DEADLINE_SECS).
GhostsLeave ==
    \A p \in Players : <>[](link[p] = 0) => <>[](clients[p] = 0 \/ ended)

\* tick_task: a lobby is removed "when the match ends (GameOver / all clients
\* leave) OR when it outlives the maximum match duration".  The tracker counts a
\* player who dropped out and came back as departed.
EndsOnlyWhenOver ==
    [][~ended /\ ended' =>
        overdue \/ Connected = {} \/ AtMostOne(Connected \ resigned)]_vars

=============================================================================
