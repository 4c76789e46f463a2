------------------------------ MODULE RelayRegistry ------------------------------
(***************************************************************************)
(* The handoff of a lobby from the server to a relay worker.               *)
(*                                                                         *)
(* Server: a lobby that is ready is given a port (RelayPortAllocator), its *)
(* match is registered with the data service, and the worker that owns the *)
(* port is asked, at most Asks times, to host the lobby; its players get   *)
(* their tickets and Start, or the lobby is closed and the port returned.  *)
(* Relay: POST /internal/lobby/register binds the port, looks the lobby's  *)
(* id up and, if it is new, hosts it with a tick task that takes the id    *)
(* and the listener away when the match ends.  The handler of a call whose *)
(* connection broke goes on, so two calls for one lobby may overlap.       *)
(*                                                                         *)
(* Server and relay restart on their own; the server then counts lobbies   *)
(* and ports from the start again.  What runs in a hosted lobby is in      *)
(* RelayLobby; the signature of a call (fresh for every attempt) and       *)
(* /internal/lobby/close, which the server never calls, are left out.      *)
(***************************************************************************)
EXTENDS Naturals, FiniteSets

CONSTANTS
    Games,      \* bound: lobbies that become ready
    Number,     \* the lobby id of each
    PortCount,  \* ports of the worker (25592..26500 split among the workers)
    Asks,       \* the 5 attempts of register_relay
    None,       \* no lobby under an id
    Mishaps     \* bound: what may go wrong

ASSUME RegistryAssumption ==
    /\ DOMAIN Number = Games
    /\ PortCount \in Nat \ {0} /\ Asks \in Nat \ {0}
    /\ None \notin Games \X (1..Asks)
    /\ Mishaps \subseteq {"data", "call", "bind", "server", "relay"}

Numbers   == {Number[g] : g \in Games}
PortRange == 1..PortCount

\* The n-th registration call made for a game, and the lobby it may spawn.
Calls == Games \X (1..Asks)

VARIABLES
    handoff,    \* server: how far each game is
    portOf,     \* server: the port each game was given, 0 before
    reserved,   \* server: RelayPortAllocator.used
    cursor,     \* server: RelayPortAllocator.next
    numbered,   \* server: ids used since it started
    asked,      \* server: calls made for each game
    call,       \* relay: where the handler of each call is
    hosted,     \* relay: the tick task each call has spawned
    registry,   \* relay: the lobby under each id
    bound,      \* relay: ports with a listener
    mistaken    \* history: games told they exist because of another game

serverVars   == <<handoff, portOf, reserved, cursor, numbered, asked>>
relayVars    == <<call, hosted, registry, bound>>
registryVars == <<serverVars, relayVars, mistaken>>

\* Earlier games, which are over, may have moved the cursor on.
RegistryInit ==
    /\ handoff = [g \in Games |-> "later"]
    /\ portOf = [g \in Games |-> 0]
    /\ reserved = {}
    /\ cursor \in PortRange
    /\ numbered = {}
    /\ asked = [g \in Games |-> 0]
    /\ call = [c \in Calls |-> "none"]
    /\ hosted = [c \in Calls |-> "no"]
    /\ registry = [i \in Numbers |-> None]
    /\ bound = {}
    /\ mistaken = {}

-----------------------------------------------------------------------------
(* Server.                                                                 *)

Ready(g) ==
    /\ handoff[g] = "later"
    /\ Number[g] \notin numbered
    /\ handoff' = [handoff EXCEPT ![g] = "ready"]
    /\ numbered' = numbered \cup {Number[g]}
    /\ UNCHANGED <<portOf, reserved, cursor, asked, relayVars, mistaken>>

\* How far a port is ahead of the cursor, round the range.
Ahead(p) == IF p >= cursor THEN p - cursor ELSE p + PortCount - cursor

\* The next port that is not in use; with none left the lobby stays pending.
Allocate(g) ==
    /\ handoff[g] = "ready"
    /\ \E p \in PortRange \ reserved :
           /\ \A q \in PortRange \ reserved : Ahead(p) <= Ahead(q)
           /\ portOf' = [portOf EXCEPT ![g] = p]
           /\ reserved' = reserved \cup {p}
           /\ cursor' = (p % PortCount) + 1
    /\ handoff' = [handoff EXCEPT ![g] = "recording"]
    /\ UNCHANGED <<numbered, asked, relayVars, mistaken>>

\* The players are told and the port is returned.
CloseGame(g) ==
    /\ handoff' = [handoff EXCEPT ![g] = "closed"]
    /\ reserved' = reserved \ {portOf[g]}

\* register_match_start; its five attempts are one step.
RecordMatch(g) ==
    /\ handoff[g] = "recording"
    /\ \/ handoff' = [handoff EXCEPT ![g] = "calling"] /\ UNCHANGED reserved
       \/ "data" \in Mishaps /\ CloseGame(g)
    /\ UNCHANGED <<portOf, cursor, numbered, asked, relayVars, mistaken>>

AskRelay(g) ==
    /\ handoff[g] = "calling"
    /\ asked[g] < Asks
    /\ handoff' = [handoff EXCEPT ![g] = "called"]
    /\ asked' = [asked EXCEPT ![g] = @ + 1]
    /\ call' = [call EXCEPT ![<<g, asked'[g]>>] = "bind"]
    /\ UNCHANGED <<portOf, reserved, cursor, numbered, hosted, registry, bound, mistaken>>

\* What the server does after an attempt that did not succeed.
AskAgain(g) ==
    IF asked[g] < Asks
    THEN handoff' = [handoff EXCEPT ![g] = "calling"] /\ UNCHANGED reserved
    ELSE CloseGame(g)

\* The connection of a call breaks: its handler never starts, or goes on.
BreakCall(g) ==
    /\ "call" \in Mishaps
    /\ handoff[g] = "called"
    /\ AskAgain(g)
    /\ call' \in {call, IF call[<<g, asked[g]>>] = "bind"
                        THEN [call EXCEPT ![<<g, asked[g]>>] = "over"] ELSE call}
    /\ UNCHANGED <<portOf, cursor, numbered, asked, hosted, registry, bound, mistaken>>

\* The server restarts without its lobbies, and counts from the start again.
RestartServer ==
    /\ "server" \in Mishaps
    /\ numbered # {}
    /\ handoff' = [g \in Games |->
           IF handoff[g] \in {"later", "started", "closed"} THEN handoff[g] ELSE "gone"]
    /\ reserved' = {}
    /\ cursor' = 1
    /\ numbered' = {}
    /\ UNCHANGED <<portOf, asked, relayVars, mistaken>>

-----------------------------------------------------------------------------
(* Relay.                                                                  *)

\* The answer of a call; the server hears it unless the connection broke.  On a
\* 200 the players get their tickets and Start.
Respond(c, ok) ==
    /\ call' = [call EXCEPT ![c] = "over"]
    /\ IF handoff[c[1]] = "called" /\ asked[c[1]] = c[2]
       THEN IF ok
            THEN /\ handoff' = [handoff EXCEPT ![c[1]] = "started"]
                 /\ UNCHANGED reserved
            ELSE AskAgain(c[1])
       ELSE UNCHANGED <<handoff, reserved>>

\* bind_game_port: a port that is bound already will do.
Bind(c) ==
    /\ call[c] = "bind"
    /\ \/ /\ bound' = bound \cup {portOf[c[1]]}
          /\ call' = [call EXCEPT ![c] = "look"]
          /\ UNCHANGED <<handoff, reserved>>
       \/ "bind" \in Mishaps /\ Respond(c, FALSE) /\ UNCHANGED bound
    /\ UNCHANGED <<portOf, cursor, numbered, asked, hosted, registry, mistaken>>

\* Mutant: a lobby on another port is taken for the one asked for.
LookAnyPort(c) ==
    /\ call[c] = "look"
    /\ IF registry[Number[c[1]]] = None
       THEN call' = [call EXCEPT ![c] = "spawn"] /\ UNCHANGED <<handoff, reserved>>
       ELSE Respond(c, TRUE)
    /\ UNCHANGED <<portOf, cursor, numbered, asked, hosted, registry, bound, mistaken>>

\* The lobby under the id: on another port it is a conflict, on the same port it
\* is taken for the one asked for.
Look(c) ==
    LET other == registry[Number[c[1]]] IN
    /\ call[c] = "look"
    /\ IF other = None
       THEN call' = [call EXCEPT ![c] = "spawn"] /\ UNCHANGED <<handoff, reserved, mistaken>>
       ELSE /\ Respond(c, portOf[other[1]] = portOf[c[1]])
            /\ mistaken' = IF portOf[other[1]] = portOf[c[1]] /\ other[1] # c[1]
                           THEN mistaken \cup {c[1]} ELSE mistaken
    /\ UNCHANGED <<portOf, cursor, numbered, asked, hosted, registry, bound>>

\* spawn_lobby.
Spawn(c) ==
    /\ call[c] = "spawn"
    /\ registry' = [registry EXCEPT ![Number[c[1]]] = c]
    /\ hosted' = [hosted EXCEPT ![c] = "live"]
    /\ Respond(c, TRUE)
    /\ UNCHANGED <<portOf, cursor, numbered, asked, bound, mistaken>>

\* The tick task ends: it takes its id out of the registry, whoever is under it,
\* and then the listener away.
EndLobby(c) ==
    /\ hosted[c] = "live"
    /\ registry' = [registry EXCEPT ![Number[c[1]]] = None]
    /\ hosted' = [hosted EXCEPT ![c] = "ending"]
    /\ UNCHANGED <<serverVars, call, bound, mistaken>>

ReleasePort(c) ==
    /\ hosted[c] = "ending"
    /\ bound' = bound \ {portOf[c[1]]}
    /\ hosted' = [hosted EXCEPT ![c] = "ended"]
    /\ UNCHANGED <<serverVars, call, registry, mistaken>>

\* The relay restarts with nothing; the calls under way break.
RestartRelay ==
    /\ "relay" \in Mishaps
    /\ \E c \in Calls : hosted[c] = "live"
    /\ call' = [c \in Calls |-> IF call[c] = "none" THEN "none" ELSE "over"]
    /\ hosted' = [c \in Calls |-> IF hosted[c] = "no" THEN "no" ELSE "ended"]
    /\ registry' = [i \in Numbers |-> None]
    /\ bound' = {}
    /\ UNCHANGED <<serverVars, mistaken>>

RegistryNext ==
    \/ \E g \in Games : Ready(g) \/ Allocate(g) \/ RecordMatch(g) \/ AskRelay(g) \/ BreakCall(g)
    \/ \E c \in Calls : Bind(c) \/ Look(c) \/ Spawn(c) \/ EndLobby(c) \/ ReleasePort(c)
    \/ RestartServer
    \/ RestartRelay

RegistrySpec == RegistryInit /\ [][RegistryNext]_registryVars

-----------------------------------------------------------------------------
(* Properties.                                                             *)

\* Every variable has its type; ports are those of the worker
\* (sow-server/src/main.rs, RelayPortAllocator; sow-relay/src/main.rs, Registry).
RegistryTypeOK ==
    /\ handoff \in [Games -> {"later", "ready", "recording", "calling", "called",
                              "started", "closed", "gone"}]
    /\ portOf \in [Games -> 0..PortCount]
    /\ reserved \subseteq PortRange /\ cursor \in PortRange
    /\ numbered \subseteq Numbers
    /\ asked \in [Games -> 0..Asks]
    /\ call \in [Calls -> {"none", "bind", "look", "spawn", "over"}]
    /\ hosted \in [Calls -> {"no", "live", "ending", "ended"}]
    /\ registry \in [Numbers -> Calls \cup {None}]
    /\ bound \subseteq PortRange
    /\ mistaken \subseteq Games

\* Players are sent to a relay only for a lobby it has hosted with their tickets,
\* through broken calls, retries that find the lobby there and restarts of either
\* side, but for a lobby of an earlier server under the same id and port
\* (sow-server/src/main.rs:739, sow-relay/src/main.rs:1650).
StartedWasHosted ==
    \A g \in Games : handoff[g] = "started" =>
        g \in mistaken \/ \E n \in 1..Asks : hosted[<<g, n>>] # "no"

=============================================================================
