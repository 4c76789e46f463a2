# Shadows of War: TLA+ models and proofs

Shadows of War is a browser strategy game in lockstep: a master server fills
lobbies, a relay worker numbers the turns of each match and sends them to every
client, and each client runs the same deterministic engine over those turns. This
directory holds TLA+ modules translated from the Rust source, the TLC
configurations that check them on small instances, and the proofs that TLAPS
checks for every value of the constants. Line numbers refer to the source at the
commit beside which these files are kept.

| module | models | checked by | proved in |
| --- | --- | --- | --- |
| `RelayLobby` | one lobby on a relay worker: tickets, connections, tick task, ranking, end | `relay_seat`, `relay_tracker`, `relay_lifecycle`, `relay_early_end` | `RelayLobbyProofs` |
| `TurnStream` | the turns of a match: journal, replay file, live history, broadcast, clients | `stream_journal`, `stream_duplicate` | `TurnStreamProofs` |
| `TurnLog` | what a match promises of its turns and its replay; `TurnStream` implements it | `stream_journal` | `TurnStreamProofs` |
| `ServerLobby` | the lobbies of the master server and the connections that sit in them | `lobby_queue`, `lobby_host`, `lobby_stranded` | `ServerLobbyProofs` |
| `Diplomacy` | alliances and wars in the engine's turn, with the bots' batch of decisions | `engine`, `alliance_fresh` | `DiplomacyProofs` |
| `Cities` | land, cities, ports, sea lanes and the aggregates derived from them, tick by tick | `engine` | `EngineProofs` |
| `ClientSession` | a client's connection: dials, handoff to a relay, retries, time limit, the way back to the menu | `engine` | `EngineProofs` |
| `AccountStore` | one account of the data service: compare-and-set updates, its copy on disk, restarts | `services` | `ServicesProofs` |
| `MatchFinalize` | the upload of a finished match and how the data service counts it | `services` | `ServicesProofs` |
| `RelayRegistry` | the handoff of a lobby from the server to a relay worker | `services` | `ServicesProofs` |
| `Bridge` | the network stack bridge of the relay: two rings, descriptors with generations, backlogs | `services` | `BridgeProofs` |

`MCRelayLobby`, `MCTurnStream`, `MCServerLobby`, `MCDiplomacy`, `MCEngine` and
`MCServices` instantiate the modules for TLC. `Sums` holds what the proofs need of
sums over finite sets. `PROJECT.json` lists components, runs, mutants (for each property
a plausible bug that breaks it), the lines each definition stands for, findings,
hazards and theorems.

To check: `tlc -config RelaySeat.cfg MCRelayLobby`, `tlapm DiplomacyProofs.tla`.

## 1. Inventory

### Relay worker (`sow-relay/src/main.rs`)

*State.* A registry of lobbies; per lobby the valid players, tickets
(`RelayAuthState`), registered channels (`ClientChannel` with a generation and a
count of missed ticks), the match tracker (`in_match`, exit log, `finalized`), a
replay journal with a live history, a bounded queue of events.

*Operations.* Accept a socket (admission policy), register with a ticket or a
rotating reconnect token, forward intents, leave; the tick task every 100 ms; the
writer task of the journal; finalization and upload of a finished match; the
management API that registers and closes lobbies.

*Interaction.* Connection tasks and the tick task share the lobby behind separate
locks and a channel that `try_send` may find full. The tick task pushes a turn to
the writer, then broadcasts it.

*What is hard.* Two connections of one player, both past the ticket check, insert
in either order. The Leave of a dead connection meets its player's next one. Exits
are recorded on three paths. A writer that falls behind blocks the tick task, which
holds the clients' lock. A client that joins takes a snapshot of the history
through the channel it is broadcast to.

*Correct means.* A credential admits once; a seat belongs to the newest connection
and is not lost to events of an older one; every account is ranked once; a lobby
ends, and its connections with it; the replay is the match; nobody sees a turn the
journal could lose; a joiner misses no turn.

### Master server (`sow-server/src/main.rs`, `lobby.rs`, `bot_fill/`)

*State.* The vector of games (phase, kind, roster, host, ready, banned, pending
bots), the relay port pool, one event queue, and in each connection task the seat it
learned from its JoinAck.

*Operations.* Join (quick, hosting, by id, rematch), leave, ready, kick, start, and
the 100 ms master tick: queue depth, countdown, bots, loading, extraction to a relay.

*What is hard.* Everything a connection asks names a seat it learned earlier, so it
is stale by as much as the queue is long; player ids are given out again; a
connection that ends before its JoinAck leaves nothing behind but its seat.

*Correct means.* Rosters stay within the map's size, an account holds one seat,
nobody takes over a seat that another has, a ban holds, a host's lobby has a host,
a match starts with ready people, and a countdown comes to an end.

### Engine (`sow-core`)

*State.* Players with alliances and their timers, pending requests, cooldowns,
attacks, fleets, buildings, the map.

*Operations.* A turn applies people's intents, then ticks: income, pruning, the
decisions of every bot (all from one state, then applied in order), construction,
projectiles, combat, fleets, timers.

*What is hard.* An alliance is four records in two players. The bots' batch is
decided before any of it is applied. Peace must call back what is under way.

*Correct means.* Both sides of an alliance agree; an alliance comes from consent and
brings peace; what is promised of fresh alliances holds.

*Also.* The owner of a city follows that of its tile once per tick; levels, the
income's aggregates, the sea lanes and a tribe's counter are derived, kept and
marked dirty on some paths. Lanes are computed over many ticks from the ports of
the first. Correct means that what is not marked dirty is current.

### Clients (`sow-client`)

*State.* One socket (to the server, or to the relay of a match), dials that run on
their own, a queue of turns, an engine initialised some time after the socket is
open, flags for what is asked, waited for and shown.

*Operations.* Join and leave, take a Start and hop to the relay, reconnect with the
latest token, give up after ten retries or fifteen seconds, go back to the menu.

*What is hard.* A dial answers when it likes: after the time limit, after the
handoff, twice. Answers are thrown away in two places. Flags outlive what set them.

*Correct means.* A client that is said to dial has an answer to come; the way back
to the menu comes to an end. (The turns a client gets are in `TurnStream`, what the
relay sees of it in `RelayLobby`.)

### Data service (`sow-data`)

*State.* Accounts in Valkey with copies in redb, match records and ratings in files,
the keys of matches registered and finalized.

*Operations.* Read, change, compare-and-set, retried five times; create and delete;
seed Valkey at boot; finalize a match: archive, snapshot, guard key, each player's
career, ratings, record, cleanup.

*What is hard.* Lost races whose closures have already noted their outcome; events
delivered twice; copies written later and in any order; a finalization that stops
half-way and is posted again, after a crash or by a second handler.

*Correct means.* No update is lost to a race, the books balance through every retry and
restart, a deletion is final, a replay is in one place at least, a post after the
record counts nothing.

### Handoff (`sow-server/src/main.rs`, `sow-relay/src/main.rs`)

*State.* The port pool and lobby numbers of a server, the listeners and registry of
a worker.

*What is hard.* A call whose connection broke goes on at the relay while the server
asks again; either side restarts and counts from 1; a lobby that ends gives up its
id and its port in two steps.

*Correct means.* Players are sent only to a lobby the relay hosts for them.

### Network stack bridge (`fstack-bridge`)

*State.* Sockets owned by one driver thread, an RX and a TX ring, the owner
(generation) of each descriptor, bytes parked per socket, bytes owed per connection.

*What is hard.* Commands name a descriptor the kernel may have given to another
peer; a backlog, a partial write and a flush may overtake each other; bytes are
counted after they are queued.

*Correct means.* Each stream is its own bytes in order; nothing is closed for
another's command; the counters are exact.

### The rest

Rendering, text, audio, user interface, translations, maps and their editor,
deployment and tools hold no state that other parts depend on. The full list with
the reason for each is under `components` in `PROJECT.json`.

## 2. Plan

Done, in this order, the most important behaviour first: the relay's lobby, the
turns and their replay with the abstract `TurnLog`, the server's lobbies, the
engine's diplomacy; then the account store, finalization, the handoff, the bridge,
the engine's cities, the client's session.

Proved, in this order: the relay's lobby, the turns and `TurnLog`, diplomacy; then
the server's lobbies, the marks of the relay's roster, the account store, the
handoff and the finalization, the cities and the client's session, the bridge, and
the parts of `engine` and of `services` together. Every invariant and every action
property that a run checks is now a theorem too (section 6).

To come:

1. The two parts of the relay in one state: that a turn of `TurnStream` is what
   `RelayLobby` marks, so that the replay names who left.
2. What `ServerLobby` and `RelayRegistry` promise of each other: that a lobby handed
   over once is hosted once.
3. `RelayAdmission`: the per-address table of `try_accept` and `on_close` and its
   eviction. The module `Bridge` has the total only.
4. Resource transfers in the engine, the handoff of Play Games sign-ins in the data
   service, the step-by-step deployment of `sow-dist/src/prod.rs`.

## 3. The modules and the code

### RelayLobby

A connection is named by the generation its accept gave it (`lastGen`); a reconnect
token by the connection it was issued to, since it is 32 fresh random bytes. The
steps of `ws_task` are actions between its awaits: the first frame, the check of
the ticket under the auth lock, the insertion of the channel under the clients
lock, the send of the rotated token, the loop. The tick task's pass is split where
it gives up a lock: the turn with its deliveries, drops and marks (`TickTurn`),
the exits of the dropped (`RecordDropped`), the events. Locks are not variables:
each critical section is an action. `LobbyState`, `RelayAuthState` and
`MatchTracker` are `clients`/`missed`/`chan`, `initialUsed`/`digests`, and
`inMatch`/`exits`/`finalized`.

With tickets not required all admissions go the way of the legacy join. Other
gameplay intents only fill channels and are not told apart. What a turn carries
besides marks and resignations is in `TurnStream`.

### TurnStream and TurnLog

A turn is its number. The tick task appends to the journal's bounded queue (and waits
for room), pushes to the bounded live history, broadcasts; the writer opens, appends,
fails or finalizes the file; a registration inserts its channel, takes a snapshot of
the history and replays it through that channel, each frame waiting 500 ms and then
skipped; the client queues what it receives and executes it when its engine exists.
Insertion and snapshot are two critical sections of the connection's task, append and
broadcast two of the tick task's, and any of them may fall between two others: a turn
that is broadcast after the insertion and in the history by the snapshot comes twice
(finding 2). `TurnLog` is what a match promises: turns numbered one after another
while it runs, and once it is over the whole sequence archived at most once.
`ImplementsLog` maps `log` to the turns numbered so far, `open` to the tick task,
`archive` to the finished artifact.

Left out: the one slot of a channel that a reconnect ticket takes, and the end of
an engine by its own errors. A journal is not recovered after a crash in the code
either: a worker that dies loses its matches.

### ServerLobby

One task owns the lobbies and takes either the tick or an event; a connection task
sends into that queue and reads its JoinAck from its own. Handlers are actions with
everything they call: `HandleJoin` covers the three ways of `join_player` with
reconnection by account, `HandleLeave` the teardown of a host's lobby, `MasterTick`
the pass over queue depth, countdown, bots, every lobby's loading, and extraction
to a relay port. `HandoffFails` returns the port; a handoff that succeeds never
does, as in the code.

Left out: teams and `SetTeam`, download progress, frames that only redraw, the
fallback that `resolve_join_target` makes unreachable, a second lobby pushed under
a rematch id that is taken, the database and relay calls inside a handoff, restart.

### Diplomacy

`stage` separates the people's intents from the tick. `Think` prunes stale requests
and lets every bot decide from that one state (`Possible`, `Sensible`); `Decide`
applies the decisions one by one in the order of the sort, bot first, then Build
before Attack, pushes in their order; fleets, combat and eliminations follow, and
`EndTick` runs down the timers. Deadlines are kept as ticks left. Troops, tiles and
dice decide in the code which of the possible decisions a bot takes: here it may
take any, and combat may end any attack or player.

The dagger is `blade`; other emojis only take its place (the palette offers people
no dagger). A player who is eliminated keeps attacks and fleets; one who resigns
loses them. A transport may land on anyone's tile, since tiles change hands under
way: `ashore` remembers the wars begun so. Left out: teams, the traitor flag (it
only weighs in decisions), resources, the end of the game, the disconnected flag.

### Cities

A tick is six stages, `orders` to `sea`, in the order of `tick.rs`: income with the
aggregates recomputed when dirty and the tribes that are given a city (`Income`), the
refreshes of the AI's think step (`Plan`), the AI's orders, construction and one slice
of the lanes' calculation (`Construct`), nukes (`Strike`), combat that moves tiles
(`Conquer`) and the cities that follow them (`Sync`), fleets that land. A city is a
record with owner, tile, level, active level and port; `NoCity` is a free slot.
Players order in the first stage, nations and tribes in the third, by the same
actions. An aggregation is given a highest id and looks at no city of a player beyond
it (`Aggregate`): income and the refresh for builders give it the highest there is,
the refresh of a nation that considers a nuke the number of players. `Beyond` are the
players whose id is greater, `skipped` remembers the cities passed over;
`LevelsCounted` speaks of the others. Gold, troops, land values and durations are left
out: what an order can afford, how many levels get ready and which shots hit are
choices. All ports lie on one sea; the search over the grid is abstracted to the pairs
it has still to try (`calc`).

### ClientSession

The client is one loop, so its actions are the parts of a pass, in order: what the
dials answered and the time limit (`rest`), the messages (`mail`), a dial and the
loader (`dial`). Between passes the player acts; a dial may end at any point
(`DialEnds`). A target is 0 for the server and l for the relay of lobby l; `dials`
counts those in flight to each, `answers` is the channel they answer through. A
message is sent when it is taken, as what a dropped connection still held is lost
with it. `clock` abstracts the fifteen seconds to not set, set, past; `Retries`
stands for 10 attempts.

Left out: invitations of a portal, hosting, map downloads, what is drawn, turns. The
loader's picture is taken as loaded. A completion of the engine's start that
arrives for an earlier match is left out too (section 5).

### AccountStore

A request is a slot that goes from await to await of `update_account_atomic`: read,
decide (`Effect`), compare and set (`Swap`), the copy in redb (`Mirror`), the answer.
What a closure notes on the side outlives a lost race, in the model as in the code:
`refused` is the failure, `claimed` the grant. `Reboot` ends all requests, loses
Valkey's keys or not, and seeds missing accounts from redb. `POST /internal/save`
comes in two steps, as its caller has read the profile it saves before (`Fetch`,
`PostSave`): the save replaces the whole profile, all but the secret, so that what
others booked in between is undone, under a compare-and-set that guards only the
write. `WholeUpdates` says that every change is one whole operation on the record as
it is then, and that none but a save takes back anything gained; `BooksBalance` holds
of saves because the model's caller saves what it got of this account, which the code
does not check. `stale` and `life` are history variables: whether a copy may be older
than a deletion, and what was promised. Purses, owned items, events seen and the
ownership secret are in the record; names, experience, identities and statistics are
not, nor the callers of `update_account_atomic` that touch nothing else: the public id
(db.rs:1119), the starting leader (1148), what a login refreshes (1729, 1794), the
rename (2278).

### MatchFinalize

`progress` is where the relay is with a match (one upload at a time, behind the
finalize gate), `worker` the handlers of the data service, each between two awaits
of `handle_match_finalize` and `finalize_match_with_lobby`. Each await may fail; the
connection may break (`CutOff`), and the handler goes on or is dropped (`Abandon`); both
processes may crash; Valkey may lose its keys while archive, records and ratings are
files. `tally` is what counts: `career` and `rated` for each match and entrant.

A match is known by its lobby's number, which the server counts from 1 at each start, so
several matches may have one id, and with it one journal, one replay, one temporary file
and one record. The data service creates, writes, syncs and renames the temporary file
between awaits (`CreateReplay`, `WriteReplay`, `RenameReplay`); a second request of the
id finds the file as the first left it. `displaced` remembers the matches whose journal
or file another match of their id took, `shared` the ids whose temporary file two
requests had open at once; for these `ReplayKept` claims nothing, since the code does
not. Left out: a write in progress that outlives its dropped handler.

### RelayRegistry

The server's side is `handoff` (ready, recorded, calling, started or closed), the
pool of ports and the next lobby number; the relay's side is a handler per call:
bind, look, spawn, each between two locks. `asked` counts the five attempts of
`register_relay`. A restarted server numbers lobbies from 1 again and may be given the
lobby of its predecessor for its own: `mistaken` records that, and `StartedWasHosted`
excepts it. What runs in a hosted lobby is in `RelayLobby`.

### Bridge

The driver's loop is one variable (`phase`): drain the TX ring command by command,
flush what is parked, poll kernel events, deliver late ones. `owner` gives the
generation that has a descriptor. A command carries descriptor and generation
(`Current`). A write goes out, goes out in part or waits behind a backlog (`SendNow`,
`SendBehind`). On the tokio side `Dispatch` is `bridge_worker`, and each connection
has a task that reads, queues and only then counts (`Enqueue`, `Count`), waits with
one shared waker or times out, shuts down, ends. An overrun of the RX ring and of
its overflow loses events (`overrun`); the byte order of what is read is claimed
only without it, as the code logs and goes on.

Left out: listeners, the buffer pool, the packet parser, the byte budget of the TX
ring (its slots stand for both), the handshake rate.

## 4. Runs

Times are with two workers.

| run | instance | shows | states |
| --- | --- | --- | --- |
| `relay_seat` | 1 player, 3 connections, tickets required, 2 queued events | types; a credential admits once; turns go to the newest connection; registrations go forward; a late Leave unseats nobody; marks follow the roster | 526k, 27 s |
| `relay_tracker` | 3 players with accounts, 2 connections, tickets off, symmetry | `RankingExact`: no one ranked twice, a finalized match ranks all | 414k, 26 s |
| `relay_lifecycle` | 1 player, 2 connections, fairness | matches end, connections close, ghosts leave | 24k, 14 s |
| `relay_early_end` | 2 players, 3 connections | finding 1 | - |
| `stream_journal` | 3 turns, queue 2, history 2, channel 2, 2 connections, disk may fail, fairness | the replay is the match; nobody is ahead of the journal; a joiner misses nothing but what its full channel shed; `TurnLog` is implemented; the tick task returns; finalization settles | 321k |
| `stream_duplicate` | 3 turns, 1 connection | finding 2 | - |
| `lobby_queue` | 2 lobbies, 2 guests, 1 port, a bot, fairness | rosters within bounds, ready starts, bots give way, countdowns end | 150k, 72 s |
| `lobby_host` | 2 accounts, one with 2 connections (symmetric), 2 lobbies and a rematch id, 3 joins, no port | hosts seated, one seat per account, bans hold; a seat passes to another connection of its account only | 1.45M, 115 s |
| `lobby_stranded` | as above, 2 queued events | finding 3 | - |
| `engine` | three parts, below | alliances agree, requests fit, peace, consent; what is derived from cities is current; a dial is answered; the exit splash ends | 811k, 99 s |
| `alliance_fresh` | a person and a bot | finding 4 | - |
| `services` | four parts, below | books balance, deletions are final, updates are whole; replays are kept, late posts count nothing; started lobbies are hosted; streams are exact, sockets close for a cause | 1.55M, 190 s |

*`engine` and `services`* put together parts that share no state. `moving` is chosen
in the initial state and says which part moves; the others stay where they began, so
TLC explores the sum of the parts and not their product, and a property of one part
is checked in full.

* `engine`, diplomacy (with the cities 472k): players 1 and 2; player 1 acts both as
  a person and as a bot. Every step of a person and of a bot is there, so what holds
  here holds when it is one of them only.
* `engine`, cities: a player that is person and nation in one, a tribe, two tiles,
  two cities of two levels, each of which may be a port; a nuke reaches its tile only. The
  tribe is `Beyond`, so that its cities are passed over by the one refresh and counted by
  the other.
* `engine`, session (339k): two relays, two tries standing for ten, two dials or
  answers outstanding.
* `services`, accounts (651k): two requests, two attempts each; one skin, one leader,
  one purchase event, one refund event, one match, one secret; lost answers, failed
  copies, restarts that keep or lose Valkey; requests are symmetric. What is asked of the
  account is one of four sets (`Requested`): purchases of items with minting and
  deletion; the same with saved profiles; events, refunds, matches and saves; the
  rewards of matches and the tutorial, what they buy, and saves.
* `services`, finalization (512k): two matches of one id, one entrant each, two posts,
  two handlers (symmetric), every lapse. Without either of its two exceptions
  `ReplayKept` is violated here.
* `services`, handoff (246k): two games of one number, two ports, two attempts, either
  side restarts.
* `services`, bridge (144k): two peers that have one descriptor after each other, a
  connection slot, rings of one and two slots, writes of two units, a parking budget
  of three.

*`lobby_host`* is about who sits where before a match: every relay port is taken, so
no lobby is handed over (`lobby_queue` hands lobbies over, and has a port), and a
rematch is asked for only while no lobby has a host (`Apart`), which keeps the two ways
of making a lobby from multiplying. Takeovers, kicks, bans and queued joins meet
both.

*Why the bounds are enough.* The seat of a player is independent of the others' but
for the ranking, so one player with three connections (two racing, one stale) meets
every order the seat depends on; three players are the fewest of whom two may leave
and one be the survivor. A capacity of 1 or 2 makes every channel and queue both full
and empty. Three turns with a history of two make the history drop what a joiner would
need. Two lobbies meet "the next lobby opens when one fills"; a queue of one already
holds events stale across ticks, because connections act in between. In diplomacy
every tick constant is 1 to 4, so that each timer may expire before, with and after
each other. Two requests and two attempts make every race be lost and retried; a third
would meet the same records. Two posts and two handlers overlap a retry with the
request it repeats, and two matches of one id reuse every name. Two connections of one
account pass its seat on, the third is a stranger's. Two peers on one descriptor are
the reuse the generations are for, and two units per write make a partial one. Two
relays are the one just left and the next; two tries make a retry and a last one.

*Deadlock* is checked where the system never stops (`ServerLobby` and the three
parts of `engine`) and not where a match ends (`RelayLobby`, `TurnStream`) or where
requests, matches, games and bytes are bounded and come to rest (`services`).

*Fairness.* `RelayLobby`: tokio keeps polling the tick task and each connection
task's own branches; clients owe nothing. `TurnStream`: the tick task, the writer
and finalize tasks keep running; the disk may fail, the match need not end.
`ServerLobby`: the select loop keeps taking its tick. `ClientSession`: the loop runs
once per frame, a dial ends by itself (the connect call has a time limit of its own),
time passes, and from some time on the server can be reached (`Reachable`): without it
the exit splash waits for ever, as the code means it to, so `ExitEnds` says that
nothing else keeps it. The safety properties need none of it.
No other fairness is assumed of clients, networks or the order of queues; the
modules of `services` assume none.

## 5. Findings

1. `relay_early_end`: a player who drops and returns counts as departed, so a match
   is finalized under connected players (main.rs:1083 against main.rs:1863-1865).
2. `stream_duplicate`: a turn that is broadcast between insertion and snapshot
   reaches the joiner twice, and the client executes it twice.
3. `lobby_stranded`: a host whose socket ends before its JoinAck is read leaves no
   Leave, and its members wait for ever (lobby.rs:705).
4. `alliance_fresh`: a bot accepts a renewal and betrays it in the same batch
   (sow-core/src/diplomacy.rs:21).

Read in the code while modelling, and not the subject of a run. Those marked * are
transitions of a model; the properties are stated so as to hold beside them.

Relay and turns:

* \* A client dropped by the broadcast is not announced as disconnected
  (protocol.rs:60). \* Turns that arrive before the engine exists are lost
  (sim/turn.rs:7, loader/engine.rs:215). \* Skipped history frames leave a hole
  (main.rs:1957).
* An older tick task that ends late removes the entry of a newer lobby of the same id
  (sow-relay main.rs:1925).
* The TX ring has one slot for a waiting writer (bridge.rs:629): \* of two that wait,
  one is woken by its own time limit only.

Server:

* \* A relay port is returned only by a failed handoff (main.rs:869): after 908
  matches no lobby leaves ReadyForRelay.

Data service:

* \* A finalization that failed half-way counts its first players again (db.rs:2636),
  against "increments a career exactly once" (docs/sow-bots-prd.md:629).
* \* A saved profile undoes what was booked since its caller read it (db.rs:2239): unlocks,
  gems and the events that were handled, which a repeated webhook then grants again. The
  comment at db.rs:1162 says that the compare-and-set "closes the rename/stats lost-update
  race"; for this caller it does not.
* \* An archived replay may be cut short and yet be answered with a success: a retry that
  comes while the first request still writes empties the temporary file the other then
  renames (main.rs:2633-2641, against "fsync+rename prevents a stats ACK from preceding a
  durable replay", main.rs:2604).
* \* After a restart of the server a match whose number has a record is answered with a
  success and never counted (db.rs:2404), and its replay takes the place of the earlier
  one; its journal, that of an earlier match still waiting to be uploaded
  (sow-relay main.rs:720).
* \* A failure noted by a closure whose race was lost stays, though the retry succeeds
  (db.rs:1946); two requests may each be shown an ownership secret, and one of them
  is not the one stored (db.rs:1851); a failed DEL counts as done (db.rs:1347).

Engine:

* \* A captured city changes hands without marking aggregates or lanes, so that income
  is paid to its old owner until something else marks them (tick.rs:118-146, against
  sea_lane.rs:46, which names a conquest among what marks).
* \* A nation that considers a nuke recomputes the aggregates with the number of players
  where the highest id is expected and clears the mark (combat.rs:616-622, core.rs:172).
  The ids of nations and tribes start at 104 (spawn.rs:85, 217): their cities count for
  nothing until something else marks the aggregates.
* The documents of a fleet's launch ask for a port (warp_fleet.rs:40, cost.rs:39); the
  intent needs none.

Client:

* \* `is_offline` of a solo match outlives the failure of its map (asset.rs:213). Trace
  of the model: StartOffline, MapFails, RequestJoin, DialEnds, TakeConnected, KeepTime,
  TakeAck, TakeStart, EndPass; an online match is shown and simulated as an offline
  one, against "online ⇒ `is_offline == false`" (hud/tutorial/mod.rs:525).
* `relay_handoff_done` (net/update/mod.rs:211) is not reset by a rematch, so the Join
  that is to be sent again after the hop is not. \* The handoff throws away the dials
  that have answered, not those in flight (mod.rs:234): a late one replaces the relay's
  connection, and a late failure clears `is_connected` under a good one.
* \* A socket lost between the splash and Start leaves the loader waiting until the
  player leaves it. A quick join is not sent again after a loss.
* A completion of the engine's start from an earlier match initialises the next one
  (loader/engine.rs:370-385). The else branch of sim/update.rs:27 runs an online match
  by the clock while it is disconnected.

## 6. Proofs

All are safety properties, proved from the constants' assumptions alone (the named
`ASSUME` of each module) for any number of players, connections, turns, any
capacities and any tick constants. The bounds that make TLC's instances finite are
constants like the others.

* `RelayLobbyProofs`. `TypeCorrect` goes with `Owned` (the connections opened so far
  are numbered from 1 and each has a roster player), without which the channels' types
  are not inductive. `TicketAdmitsOnce`, `RoutedToNewest` and `ReplacedForward` follow
  from `CredInv`, which ties each credential to the connection that spent it: a digest
  names an admitted connection of its player, a shown token is older than the
  connection that shows it, and what admitted one connection admits no other.
  `RankingExact` needs `RankingInv`: before the match is finalized, an account is
  logged exactly when it is no longer in the match. `SeatIsSafe` needs `LeavesLate`: a
  Leave in the queue is that of a connection that has closed or is no longer its
  client's. `MarkFollowsRosterCorrect` needs `Registered`: a channel is its player's
  own and past the insert, so that a mark "gone" is queued only as a channel is
  removed, and one "back" before the connection that takes its place counts as
  running.
* `TurnStreamProofs`. `JournalInv` says what file, writer and queue hold together at
  each stage of the writer: `file` followed by the queue is the turns numbered so
  far. It gives `ReplayFaithful`, and with it each step of `TurnStream` is a step of
  `TurnLog` or a stutter (`ImplementsLogCorrect`). `JournalFirst` adds that nobody
  was sent a turn not yet appended (`NothingEarly`), `NothingBetween` that the live
  history is the most recent turns (`LiveRecent`) and, per joiner, that what it is
  owed has been sent, is in its snapshot or was shed (`Kept`).
* `DiplomacyProofs`. `IInv` joins the types, that no player is its own ally or
  enemy, and the four invariants, which lean on each other: that a request between
  allies is a renewal needs both sides to count the same ticks, that requests go one
  way needs that a proposal to one who asked is taken for an answer. Each intent has
  a lemma that it preserves `Inv`, used for people and for bots alike; `Decide` and
  `HumanIntent` then follow by cases. `RequestsFit` is two of its conjuncts under one
  name, `OneDirection` and `RequestsRenew`. `Consent` is an action property: no step
  raises a timer but an answer that uses a request up.
* `ServerLobbyProofs`. `LobbyInv` has a part for each kind of state: the lobbies one
  by one (`EachRoom`: who may sit, host or be banned in a lobby of each phase and
  kind), the numbers not yet given out, the ports that the lobbies in
  handoff hold, the events in the queue (`Queued`: the joins in it leave lobby
  numbers enough), the seats the connections know of. It gives `LobbyTypes` and
  `LobbySeating`; the action properties `LobbyStarts`, `LobbyBots` and
  `LobbyTakeover` follow from it handler by handler. That accounts are no session
  ids, which keeps bans of the one from hitting the other, is part of the assumption.
* `EngineProofs`. The session: `SessionInv` says that a client that is there is not
  dialling (`Lines`). This is why `TakeStart` may throw answers away and still leave
  no dial that nobody answers: whoever was waiting for one of them has its socket. The
  cities: `CitiesInv` joins what is derived with what it depends on: `CounterPaid` (a
  tribe's counter stands for its cities and for slots free again, which bounds it),
  `LanesUnderWay` (unless marked dirty, a calculation has found, or has still to try,
  every pair of finished ports, and found no lane to a port that is gone); the
  aggregates lie between the levels of the cities that are at rest and those of all
  standing ones, of those the last aggregation looked at, whatever `Beyond` is. What
  the code counts city by city (`Counted`) is a recursive function; `UptoInduction`
  gives what it counts up to any city. `EngineTypes` and `EngineSafety` put diplomacy,
  cities and session together.
* `ServicesProofs`. The accounts: a record is sound when what was paid is what was
  granted less what is left, and what is owned splits by the purse that paid for it;
  each operation (`Effect`) keeps a sound record sound (`EffectSound`), and a swap
  applies an operation to the record it finds, since the operation decided on a record
  equal to it (`SwapEffect`). A profile that was got from a sound record and is saved
  makes a sound record again (`Applicable`, `AppliedSound`); every other operation
  takes nothing back (`EffectLasts`). That is `AccountBooks` and `UpdatesAreWhole`.
  `DeletionIsFinal` needs `Unborn` and `Erasing`: between the two halves of a deletion
  nothing puts the record back. The handoff: a call that was answered has a port, and
  what is registered has been hosted (`Ported`, `Listed`). The finalization: a handler
  that counts works for a match that was posted (`Posted`), and one that found the
  record counts nobody (`LateRecorded`). `ReplayIsKept` holds for any numbering of the
  matches. It needs `UploadInv` (the turns of a match are in the journal, then its
  replay in the spool, until its one upload is done, and only the request waited for
  is heard) and `KeptInv`: a handler past the rename has filed its match
  (`BeyondFiled`), so that the answer that removes the spooled replay finds it filed;
  as long as no two requests shared the temporary file, one handler at a time has it
  (`OneReplaces`) and renames its own (`OwnTemp`); once filed, a replay stays
  (`FiledStays`). `ServicesTypes` and `ServicesSafety` put the four services together.
* `BridgeProofs`. `Basic` is types and who is who: each connection has one descriptor
  and each open descriptor one connection, a backlog is of the connection that has
  the socket, a command is of a task that has begun, an accept on its way is of one
  that has not. With `Seats` (a routed descriptor is that of the task it is routed to)
  it gives `BridgeTypes` and `ClosedForItsCause`. `Owes` is `CountersAreExact` as it
  stands, by the sum over a ring of what one command more or less does to it.
  `WireIsInOrder` needs `WireInv`: from the wire through the backlog and the ring to
  what the task wrote, each write begins after the last unit or where one before it
  ended, so that dropping, splitting or parking one leaves no gap that the next write
  of the same connection could fall into. `HeardIsInOrder` needs `HeardInv`, which is
  about all events on their way as one queue, RX ring and overflow (`Q`): data come by
  their own descriptor after their accept (`Placed`), whoever had that descriptor
  before is closed in between (`Between`), whoever lost it will be told (`Told`), and
  the numbers run on from what the task has got to what was taken from the socket
  (`Numbering`). It holds while no event was lost or overtook another (`overrun`).
* `Sums`. What a sum over a finite set is when an element is added, taken away or
  changed. The induction is over a set of subsets, of which a least one is false
  (`WFMin`), because the induction theorems of the library take an operator, which no
  installed prover can instantiate.

The proofs of `ServerLobby` made two cases of the tick overlap visible, as a `CASE`
that could take either; they are one `IF` chain now, in the order of the code.

Only model-checked: the liveness properties (`MatchEnds`, `ConnectionsClose`,
`GhostsLeave`, `TickReturns`, `FinalizeSettles`, `QueueLeads`, `ExitEnds`), since
fairness and `ENABLED` are beyond this prover. None of the modules uses a RECURSIVE
operator; the counts and sums of `Cities`, `AccountStore` and `Bridge` are recursive
functions or sums over sets.

## 7. Not modelled

Section 2 lists what is to come. Beyond it: floating-point economy and combat, tile
maps and pathfinding (sequential and deterministic, but far larger than a finite
model); cryptography and third-party services (abstracted to who holds which token
or account); presentation. A crash of a worker is not modelled inside `RelayLobby`,
`TurnStream` and `ServerLobby`, because nothing of a lobby or a match is recovered by
a restart: the state is gone. Where something outlives the process it is modelled:
accounts and match records (`AccountStore`, `MatchFinalize`), lobby numbers and
ports (`RelayRegistry`).

Of the repository's hundred thousand lines about nine thousand are stood for by a
definition. The rest is, by size: rendering, interface, audio, input and campaign of
the client; the map editor and the image pipeline; deployment and developer tools;
combat formulas, search over the tile grid, the scores by which bots choose; HTTP
routes and SQL without a protocol between them. They keep no state that two actors
share, and their properties are those of unit tests.
