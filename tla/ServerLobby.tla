------------------------------ MODULE ServerLobby ------------------------------
(***************************************************************************)
(* The lobbies of the master server (sow-server/src/lobby.rs) and the      *)
(* connections that sit in them (the connection task of main.rs).          *)
(*                                                                         *)
(* One task owns the lobbies: it takes the 100 ms tick or the next event   *)
(* of a queue all connection tasks feed.  A connection learns its seat     *)
(* from the JoinAck in its own queue, and names that seat in what it asks  *)
(* for later; its Leave, when it closes, is only a lobby and a player id.  *)
(* Player ids are handed out as the highest seated plus one, so the id of  *)
(* a player who has gone may be another's later.                           *)
(*                                                                         *)
(* A lobby is named by its id; ids up to MaxLobbies are next_lobby_id's,   *)
(* those above are rematch ids drawn by a relay.  Names, leaders, maps,    *)
(* teams, download progress and the frames that only redraw a client's     *)
(* screen are left out.                                                    *)
(***************************************************************************)
EXTENDS Naturals, Sequences, FiniteSets

CONSTANTS
    Conns,        \* connections to the server (session ids)
    Account,      \* the account each connection proves, or Guest
    Guest,        \* no proven account
    Bot,          \* the occupant of an internal bot's seat
    Empty,        \* the occupant of no seat
    MaxLobbies,   \* bound: lobbies the server spawns
    Rematches,    \* bound: rematch ids in use
    MaxPid,       \* bound: player ids of a lobby
    MaxJoins,     \* bound: Join messages in all
    EventCap,     \* capacity of the event queue
    Cap,          \* GameConfig.max_players
    BotFill,      \* bot_fill_target
    CountTicks,   \* LOBBY_COUNTDOWN_SECS, in ticks
    ForceTicks,   \* the 3.0 of force_start
    LoadTicks,    \* the 16.5 of start_match
    SettleTicks,  \* the 1.5 of master_tick
    Ports         \* size of the relay port pool

Lobbies == 1..(MaxLobbies + Rematches)
Rematch == (MaxLobbies + 1)..(MaxLobbies + Rematches)
Pids    == 1..MaxPid

ASSUME LobbyAssumption ==
    /\ Account \in [Conns -> {Account[c] : c \in Conns}]
    /\ \A c \in Conns : Account[c] \notin Conns
    /\ Bot # Empty /\ Bot \notin Conns /\ Empty \notin Conns
    /\ MaxLobbies \in Nat \ {0} /\ Rematches \in Nat
    /\ MaxPid \in Nat \ {0} /\ MaxJoins \in Nat
    /\ EventCap \in Nat \ {0}
    /\ Cap \in 1..MaxPid /\ BotFill \in 0..Cap
    /\ CountTicks \in Nat \ {0, 1} /\ ForceTicks \in Nat \ {0}
    /\ LoadTicks \in Nat \ {0} /\ SettleTicks \in Nat \ {0}
    /\ Ports \in Nat

VARIABLES
    nextId,   \* next_lobby_id
    phase,    \* LobbyPhase, or outside the games vector
    kind,     \* LobbyKind
    host,     \* host_player_id; 0 for none
    timer,    \* countdown_secs, in ticks
    seat,     \* who sits on each player id
    ready,    \* ready_players
    banned,   \* identities that may not come back
    pending,  \* pending_bots: how many are still to come
    used,     \* relay ports taken
    events,   \* the server's event queue
    open,     \* connections whose socket is open
    mine,     \* my_lobby_id, my_player_id of each connection task
    acks,     \* JoinAcks waiting in each connection's direct_rx
    joins     \* Join messages sent so far

lobbyVars == <<nextId, phase, kind, host, timer, seat, ready, banned, pending, used>>
connVars  == <<open, mine, acks, joins>>

vars == <<lobbyVars, events, connVars>>

-----------------------------------------------------------------------------
Phases == {"none", "waiting", "counting", "loading", "ready", "handed", "gone"}
Nobody == [lobby |-> 0, pid |-> 0]

\* The lobbies in the games vector.
InGames(l)  == phase[l] \in {"waiting", "counting", "loading", "ready"}
Joinable(l) == phase[l] \in {"waiting", "counting"}

Seated(s)    == {p \in Pids : s[p] # Empty}
Externals(s) == {p \in Pids : s[p] \notin {Empty, Bot}}
Bots(s)      == {p \in Pids : s[p] = Bot}
Highest(S)   == IF S = {} THEN 0 ELSE CHOOSE p \in S : \A q \in S : q <= p
Lowest(S)    == CHOOSE p \in S : \A q \in S : p <= q
Size(l)      == Cardinality(Seated(seat[l]))

\* ban_identity: the account, or the guest's name, which stays its connection's.
Identity(c) == IF Account[c] = Guest THEN c ELSE Account[c]

\* Before anyone connects main ticks once, which opens the first lobby of the queue.
Init ==
    /\ nextId = 2
    /\ phase = [l \in Lobbies |-> IF l = 1 THEN "counting" ELSE "none"]
    /\ kind  = [l \in Lobbies |-> "queue"]
    /\ host  = [l \in Lobbies |-> 0]
    /\ timer = [l \in Lobbies |-> IF l = 1 THEN CountTicks - 1 ELSE 0]
    /\ seat  = [l \in Lobbies |-> [p \in Pids |-> Empty]]
    /\ ready = [l \in Lobbies |-> {}]
    /\ banned = [l \in Lobbies |-> {}]
    /\ pending = [l \in Lobbies |-> BotFill]
    /\ used = 0
    /\ events = <<>>
    /\ open = Conns
    /\ mine = [c \in Conns |-> Nobody]
    /\ acks = [c \in Conns |-> <<>>]
    /\ joins = 0

-----------------------------------------------------------------------------
(* The connection task.                                                    *)

\* The lobby asked for; 0 is a quick match.
Targets == Lobbies \cup {0}

Ask(what, c, l, p, arg) ==
    /\ Len(events) < EventCap
    /\ events' = Append(events,
                    [what |-> what, conn |-> c, lobby |-> l, pid |-> p, arg |-> arg])

SendJoin(c, what, target) ==
    /\ c \in open
    /\ joins < MaxJoins
    /\ Ask(what, c, 0, 0, target)
    /\ joins' = joins + 1
    /\ UNCHANGED <<lobbyVars, open, mine, acks>>

\* Ready, ForceStart and the host's Kick and Ban go out only for the seat the
\* task knows.
SendReady(c) ==
    /\ c \in open /\ mine[c] # Nobody
    /\ Ask("ready", c, mine[c].lobby, mine[c].pid, 0)
    /\ UNCHANGED <<lobbyVars, connVars>>

SendStart(c) ==
    /\ c \in open /\ mine[c] # Nobody
    /\ Ask("start", c, mine[c].lobby, mine[c].pid, 0)
    /\ UNCHANGED <<lobbyVars, connVars>>

SendKick(c, what, target) ==
    /\ c \in open /\ mine[c] # Nobody
    /\ Ask(what, c, mine[c].lobby, mine[c].pid, target)
    /\ UNCHANGED <<lobbyVars, connVars>>

ReceiveAck(c) ==
    /\ c \in open
    /\ acks[c] # <<>>
    /\ mine' = [mine EXCEPT ![c] = Head(acks[c])]
    /\ acks' = [acks EXCEPT ![c] = Tail(@)]
    /\ UNCHANGED <<lobbyVars, events, open, joins>>

\* ClientMessage::Leave, for the seat the task knows.
SendLeave(c) ==
    /\ c \in open /\ mine[c] # Nobody
    /\ Ask("leave", c, mine[c].lobby, mine[c].pid, 0)
    /\ mine' = [mine EXCEPT ![c] = Nobody]
    /\ UNCHANGED <<lobbyVars, open, acks, joins>>

\* The socket ends or stays silent for 60 s.  What waits in direct_rx is dropped.
Close(c) ==
    /\ c \in open
    /\ IF mine[c] = Nobody
       THEN UNCHANGED events
       ELSE Ask("leave", c, mine[c].lobby, mine[c].pid, 0)
    /\ open' = open \ {c}
    /\ mine' = [mine EXCEPT ![c] = Nobody]
    /\ acks' = [acks EXCEPT ![c] = <<>>]
    /\ UNCHANGED <<lobbyVars, joins>>

-----------------------------------------------------------------------------
(* The events, handled one at a time under the lock.                       *)

Take(what) ==
    /\ events # <<>>
    /\ Head(events).what = what
    /\ events' = Tail(events)

\* Mutant: the join that finds one seat too many.
HasRoomOffByOne(l) == Joinable(l) /\ Size(l) <= Cap

HasRoom(l) == Joinable(l) /\ Size(l) < Cap

QueueWithRoom == {l \in Lobbies : kind[l] = "queue" /\ HasRoom(l)}

\* Mutant: the display name decides, and names collide.
MatchesName(c, s) == {p \in Pids : s[p] \in Conns}

\* Mutant: nobody is recognised.
MatchesNone(c, s) == {}

\* The seats of c's account; both sides must have proven one.
SameAccount(c, s) ==
    {p \in Pids : s[p] \in Conns /\ Account[c] # Guest /\ Account[s[p]] = Account[c]}

\* join_player, once the lobby is known: a seat of the same account is taken over,
\* else one is added past the highest.
Enter(c, l, s) ==
    LET same == SameAccount(c, s)
        p    == IF same # {} THEN Lowest(same) ELSE Highest(Seated(s)) + 1
    IN  /\ p \in Pids
        /\ seat' = [seat EXCEPT ![l] = [s EXCEPT ![p] = c]]
        /\ acks' = IF c \in open
                   THEN [acks EXCEPT ![c] = Append(@, [lobby |-> l, pid |-> p])]
                   ELSE acks

\* A lobby that join_player spawns, with its first player; h is its host.
SpawnFor(c, l, k, h) ==
    /\ phase[l] = "none"
    /\ phase' = [phase EXCEPT ![l] = "waiting"]
    /\ kind'  = [kind EXCEPT ![l] = k]
    /\ host'  = [host EXCEPT ![l] = h]
    /\ Enter(c, l, [p \in Pids |-> Empty])

\* A ban, a wrong password, a lobby that is closed or full.
Refused == UNCHANGED <<nextId, phase, kind, host, seat, acks>>

\* Mutant: the ban list is not looked at.
NeverBarred(c, l) == FALSE

Barred(c, l) == Identity(c) \in banned[l]

Admit(c, l) ==
    \/ /\ ~Barred(c, l)
       /\ Enter(c, l, seat[l])
       /\ UNCHANGED <<nextId, phase, kind, host>>
    \/ /\ Barred(c, l) \/ kind[l] = "custom"
       /\ Refused

\* Quick match: the queue's lobby, or a new one when that is full or loading.
JoinQuick(c) ==
    IF QueueWithRoom # {}
    THEN Admit(c, Lowest(QueueWithRoom))
    ELSE /\ nextId <= MaxLobbies
         /\ nextId' = nextId + 1
         /\ SpawnFor(c, nextId, "queue", 0)

JoinAsHost(c) ==
    /\ nextId <= MaxLobbies
    /\ nextId' = nextId + 1
    /\ SpawnFor(c, nextId, "custom", 1)

\* An explicit lobby is joined or the join is refused; a rematch id without room is
\* created anew, as a Custom lobby without host.  When that id is taken, the new
\* lobby is never found by it, and the old one admits only who already sits in it.
JoinLobby(c, l) ==
    IF HasRoom(l) THEN Admit(c, l)
    ELSE IF l \notin Rematch THEN Refused
    ELSE /\ nextId' = nextId + 1
         /\ IF phase[l] = "none" THEN SpawnFor(c, l, "custom", 0)
            ELSE /\ UNCHANGED <<phase, kind, host>>
                 /\ IF Joinable(l) /\ SameAccount(c, seat[l]) # {}
                    THEN Enter(c, l, seat[l])
                    ELSE UNCHANGED <<seat, acks>>

HandleJoin ==
    /\ Take("join") \/ Take("host")
    /\ LET e == Head(events) IN
       CASE e.what = "host" -> JoinAsHost(e.conn)
         [] e.what = "join" /\ e.arg = 0 -> JoinQuick(e.conn)
         [] OTHER -> JoinLobby(e.conn, e.arg)
    /\ UNCHANGED <<timer, ready, banned, pending, used, open, mine, joins>>

Vacate(l, p) ==
    /\ seat'  = [seat EXCEPT ![l][p] = Empty]
    /\ ready' = [ready EXCEPT ![l] = @ \ {p}]

\* is_host_teardown
HostOf(l, p) == kind[l] = "custom" /\ host[l] = p /\ host[l] # 0

\* The host's Leave drops the lobby, anyone else's only the seat.
HandleLeave ==
    /\ Take("leave")
    /\ LET l == Head(events).lobby
           p == Head(events).pid
       IN  IF InGames(l) /\ phase[l] # "ready" /\ HostOf(l, p)
           THEN /\ phase' = [phase EXCEPT ![l] = "gone"]
                /\ UNCHANGED <<seat, ready>>
           ELSE /\ UNCHANGED phase
                /\ IF InGames(l) THEN Vacate(l, p) ELSE UNCHANGED <<seat, ready>>
    /\ UNCHANGED <<nextId, kind, host, timer, banned, pending, used, connVars>>

HandleReady ==
    /\ Take("ready")
    /\ LET l == Head(events).lobby IN
       ready' = IF InGames(l) THEN [ready EXCEPT ![l] = @ \cup {Head(events).pid}]
                              ELSE ready
    /\ UNCHANGED <<nextId, phase, kind, host, timer, seat, banned, pending, used,
                   connVars>>

\* Mutant: anyone in the lobby may kick.
InCustom(l, p) == kind[l] = "custom"

MayCommand(l, p) == HostOf(l, p)

HandleKick ==
    /\ Take("kick") \/ Take("ban")
    /\ LET e == Head(events)
           s == seat[e.lobby]
       IN  IF /\ InGames(e.lobby)
              /\ MayCommand(e.lobby, e.pid)
              /\ e.arg # e.pid /\ s[e.arg] # Empty
           THEN /\ Vacate(e.lobby, e.arg)
                /\ banned' = IF e.what = "ban" /\ s[e.arg] # Bot
                             THEN [banned EXCEPT ![e.lobby] = @ \cup {Identity(s[e.arg])}]
                             ELSE banned
           ELSE UNCHANGED <<seat, ready, banned>>
    /\ UNCHANGED <<nextId, phase, kind, host, timer, pending, used, connVars>>

\* force_start
HandleStart ==
    /\ Take("start")
    /\ LET l == Head(events).lobby IN
       IF phase[l] = "waiting" /\ MayCommand(l, Head(events).pid) /\ Size(l) > 0
       THEN /\ phase' = [phase EXCEPT ![l] = "counting"]
            /\ timer' = [timer EXCEPT ![l] = ForceTicks]
       ELSE UNCHANGED <<phase, timer>>
    /\ UNCHANGED <<nextId, kind, host, seat, ready, banned, pending, used, connVars>>

-----------------------------------------------------------------------------
(* master_tick and the extraction of the lobbies that are ready.  One tick, *)
(* under the lock, goes through the stages below in this order.             *)

QueueIn(phases) == {l \in Lobbies : kind[l] = "queue" /\ phase[l] \in phases}

\* ensure_queue_depth: the lobby that opens when the queue has none to join.
Opening ==
    IF QueueIn({"waiting", "counting"}) = {} /\ nextId <= MaxLobbies THEN {nextId} ELSE {}

\* promote_countdown: the lobbies of the queue with players, and one without as a
\* beacon when no other such counts down.
Promoted ==
    LET waiting == QueueIn({"waiting"}) \cup Opening
        peopled == {l \in waiting : Size(l) > 0}
        beacon  == \E l \in QueueIn({"counting"}) : Size(l) = 0
    IN  peopled \cup (IF beacon \/ waiting = peopled THEN {}
                                                    ELSE {Lowest(waiting \ peopled)})

\* The lobbies that inject_internal_bots fills.
Filling == QueueIn({"counting"}) \cup Promoted

\* Mutant: the bots already announced are not sent away.
PendingKept(l) == pending[l]

\* How many of the pending bots are still wanted.
Wanted(l) ==
    IF Size(l) >= BotFill THEN 0
    ELSE IF pending[l] <= BotFill - Size(l) THEN pending[l] ELSE BotFill - Size(l)

\* The ids of the k bots that sit down, past the highest seat.
NewBots(l, k) == (Highest(Seated(seat[l])) + 1)..(Highest(Seated(seat[l])) + k)

AllReady(l) == Seated(seat[l]) # {} /\ Seated(seat[l]) \subseteq ready[l]

\* Mutant: a roster that is ready restarts the settling time at every tick.
Resettled(l) == IF AllReady(l) THEN SettleTicks ELSE timer[l] - 1

\* The loading countdown, which jumps to its last part once everyone is ready.
Loaded(l) ==
    IF AllReady(l) /\ timer[l] - 1 > SettleTicks THEN SettleTicks ELSE timer[l] - 1

\* Mutant: the slow clients are told, and stay.
Everyone(l) == seat[l]

OnlyReady(l) == [p \in Pids |-> IF p \in ready[l] THEN seat[l][p] ELSE Empty]

\* The lobbies whose loading ends, and those of them that nobody is left in.
Ending  == {l \in Lobbies : phase[l] = "loading" /\ Loaded(l) = 0}
Dropped == {l \in Ending : Externals(OnlyReady(l)) = {}}

\* The lobbies that get one of the free ports, in order.
Available == {l \in Lobbies : phase[l] = "ready"} \cup (Ending \ Dropped)
Handed    == {l \in Available : Cardinality({k \in Available : k < l}) < Ports - used}

\* One tick in which due[l] bots come to each filling lobby l.
Tick(due) ==
    LET filling  == DOMAIN due
        counting == filling \cup {l \in Lobbies : phase[l] = "counting"}
        left(l)  == IF phase[l] = "counting" THEN timer[l] ELSE CountTicks
        come(l)  == IF l \in filling THEN NewBots(l, due[l]) ELSE {}
        starting == {l \in counting : left(l) = 1 \/ Size(l) + Cardinality(come(l)) >= Cap}
        id       == nextId + Cardinality(Opening)
        \* A lobby that is dropped asks for a new one; those behind it are yet to start.
        asks     == \E r \in Dropped :
                       \A l \in QueueIn({"waiting"}) \cup filling : l \in starting /\ l < r
        reopened == IF asks /\ id <= MaxLobbies THEN {id} ELSE {}
    IN  /\ nextId' = id + Cardinality(reopened)
        /\ phase' = [l \in Lobbies |->
               IF l \in Handed THEN "handed"
               ELSE IF l \in Ending THEN (IF l \in Dropped THEN "gone" ELSE "ready")
               ELSE IF l \in counting THEN (IF l \in starting THEN "loading" ELSE "counting")
               ELSE IF l \in reopened THEN "waiting"
               ELSE phase[l]]
        /\ timer' = [l \in Lobbies |->
               IF phase[l] = "loading" THEN Loaded(l)
               ELSE IF l \in starting THEN LoadTicks
               ELSE IF l \in counting THEN left(l) - 1
               ELSE timer[l]]
        /\ seat' = [l \in Lobbies |->
               IF l \in Ending THEN OnlyReady(l)
               ELSE IF come(l) = {} THEN seat[l]
               ELSE [p \in Pids |-> IF p \in come(l) THEN Bot ELSE seat[l][p]]]
        /\ ready'   = [l \in Lobbies |-> ready[l] \cup come(l)]
        /\ pending' = [l \in Lobbies |->
               IF l \in filling THEN Wanted(l) - due[l] ELSE pending[l]]
        /\ used' = used + Cardinality(Handed)

MasterTick ==
    /\ UNCHANGED <<kind, host, banned, events, connVars>>
    /\ \E due \in [Filling -> 0..BotFill] :
          /\ \A l \in Filling : due[l] <= Wanted(l) /\ NewBots(l, due[l]) \subseteq Pids
          /\ Tick(due)

\* The handoff task gives up: no match registration, no worker, no relay.  It alone
\* returns a port.
HandoffFails(l) ==
    /\ phase[l] = "handed"
    /\ phase' = [phase EXCEPT ![l] = "gone"]
    /\ used' = used - 1
    /\ UNCHANGED <<nextId, kind, host, timer, seat, ready, banned, pending, events,
                   connVars>>

-----------------------------------------------------------------------------
ConnTask(c) ==
    \/ SendJoin(c, "host", 0)
    \/ \E target \in Targets : SendJoin(c, "join", target)
    \/ SendReady(c)
    \/ SendStart(c)
    \/ \E what \in {"kick", "ban"}, p \in Pids : SendKick(c, what, p)
    \/ ReceiveAck(c)
    \/ SendLeave(c)
    \/ Close(c)

HandleEvent ==
    HandleJoin \/ HandleLeave \/ HandleReady \/ HandleKick \/ HandleStart

Next ==
    \/ \E c \in Conns : ConnTask(c)
    \/ HandleEvent
    \/ MasterTick
    \/ \E l \in Lobbies : HandoffFails(l)

Spec == Init /\ [][Next]_vars

\* The server task's select takes the tick again and again, whatever the queue holds.
FairSpec == Spec /\ WF_vars(MasterTick)

-----------------------------------------------------------------------------
Event == [what : {"join", "host", "ready", "start", "kick", "ban", "leave"}, conn : Conns,
          lobby : Lobbies \cup {0}, pid : Pids \cup {0},
          arg : Targets \cup Pids]
Place == [lobby : Lobbies, pid : Pids]

\* Every variable has its type; countdowns stay within their phase's start, and no
\* mix of joins, rejoins and bots seats more than the capacity (resolve_join_target,
\* inject_internal_bots).
TypeOK ==
    /\ nextId \in 1..(MaxLobbies + MaxJoins + 1)
    /\ phase \in [Lobbies -> Phases]
    /\ kind \in [Lobbies -> {"queue", "custom"}]
    /\ host \in [Lobbies -> {0, 1}]
    /\ timer \in [Lobbies -> 0..(CountTicks + ForceTicks + LoadTicks)]
    /\ seat \in [Lobbies -> [Pids -> Conns \cup {Bot, Empty}]]
    /\ \A l \in Lobbies : InGames(l) => Size(l) <= Cap
    /\ ready \in [Lobbies -> SUBSET Pids]
    /\ banned \in [Lobbies -> SUBSET (Conns \cup {Account[c] : c \in Conns})]
    /\ pending \in [Lobbies -> 0..BotFill]
    /\ used \in 0..Ports
    /\ events \in Seq(Event) /\ Len(events) <= EventCap
    /\ open \subseteq Conns
    /\ mine \in [Conns -> Place \cup {Nobody}]
    /\ acks \in [Conns -> Seq(Place)]
    /\ joins \in 0..MaxJoins

\* A lobby goes to a relay only with people in it, and with every seat ready: the
\* slow ones were put out when loading ended (master_tick, Loading).
StartsWithReady ==
    [][\A l \in Lobbies :
         phase[l] = "loading" /\ phase'[l] \in {"ready", "handed"} =>
             /\ Externals(seat'[l]) # {}
             /\ Seated(seat'[l]) \subseteq ready'[l]]_vars

\* A bot sits down only while players and bots together stay within the fill target:
\* bots announced before people came give way to them (inject_internal_bots).
BotsGiveWay ==
    [][\A l \in Lobbies :
         Bots(seat'[l]) \ Bots(seat[l]) # {} =>
             Cardinality(Seated(seat'[l])) <= BotFill]_vars

\* A Custom lobby that still takes players has its host in it: no kick, ban, leave or
\* rejoin unseats the host and leaves the lobby standing (kick_player, is_host_teardown).
HostSeated ==
    \A l \in Lobbies :
        Joinable(l) /\ host[l] # 0 => seat[l][host[l]] \notin {Empty, Bot}

\* An account holds at most one seat of a lobby (join_player's reconnect).
OneSeatPerAccount ==
    \A l \in Lobbies : \A p, q \in Externals(seat[l]) :
        /\ Account[seat[l][p]] = Account[seat[l][q]]
        /\ Account[seat[l][p]] # Guest
        => p = q

\* A seat passes from one connection to another only within a proven account: who
\* proves nothing takes nobody's seat over (main.rs, legacy Join; join_player).
TakeoverByOwner ==
    [][\A l \in Lobbies, p \in Pids :
         /\ seat[l][p] \in Conns
         /\ seat'[l][p] \in Conns \ {seat[l][p]}
         => /\ Account[seat[l][p]] = Account[seat'[l][p]]
            /\ Account[seat[l][p]] # Guest]_vars

\* An account that the host banned is in no seat of the lobby, by whatever connection
\* and however late its Join is handled (kick_player, join_player).
BannedStayOut ==
    \A l \in Lobbies : \A p \in Externals(seat[l]) :
        Account[seat[l][p]] # Guest => Account[seat[l][p]] \notin banned[l]

\* Who sits where follows from the host and from proven accounts, whatever is still
\* queued when a seat changes.
SeatingRules == HostSeated /\ OneSeatPerAccount /\ BannedStayOut

\* A lobby of the queue that counts down comes to a match or is dropped: joins, bots,
\* readies and leaves on the way do not hold it back (master_tick).
QueueLeads ==
    \A l \in Lobbies :
        phase[l] = "counting" ~> phase[l] \in {"ready", "handed", "gone"}

\* The members of a Custom lobby are not left behind a vanished host: a host whose
\* connection has ended has its Leave on the way (is_host_teardown).
NeverStranded ==
    \A l \in Lobbies :
        /\ phase[l] = "waiting" /\ host[l] # 0
        /\ seat[l][host[l]] \in Conns \ open
        /\ \E p \in Externals(seat[l]) : seat[l][p] \in open
        => \E i \in 1..Len(events) :
              /\ events[i].what = "leave"
              /\ events[i].lobby = l /\ events[i].pid = host[l]

=============================================================================
