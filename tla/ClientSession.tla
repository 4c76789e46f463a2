----------------------------- MODULE ClientSession -----------------------------
(***************************************************************************)
(* The client's connection and what it does with it (sow-client, net and   *)
(* loader): one socket at a time, to the server or, from the Start message *)
(* on, to the relay of the match; dials that run on their own and answer   *)
(* through a channel; retries, the time limit on reaching a relay, and the *)
(* return to the main menu.                                                *)
(*                                                                         *)
(* The program is one loop.  A pass (SowApp::update) takes what the dials  *)
(* answered, looks at the time limit, handles the messages up to one that  *)
(* ends the connection, dials, and moves the loader; the player acts       *)
(* between passes.  A dial may answer in the middle of one, and then be    *)
(* thrown away unseen.  What a connection still held when it is dropped is *)
(* lost with it, so that a message is sent when it is handled.             *)
(*                                                                         *)
(* The relay of lobby l is the target l, the server the target 0.  The     *)
(* account is loaded and the page is shown, or else it is not yet time to  *)
(* dial.  Left out: what is drawn, what a Join asks for, turns and the     *)
(* engine, the invitations of a portal and the hosting of a private lobby  *)
(* as soon as connected.                                                   *)
(***************************************************************************)
EXTENDS Integers, Sequences, FiniteSets, Functions

CONSTANTS
    MaxLobby,  \* bound: lobby ids the server gives out
    Retries,   \* the 10 of relay_retry_count
    DialCap    \* bound: dials in flight and answers not yet taken

ASSUME SessionAssumption ==
    {MaxLobby, Retries, DialCap} \subseteq Nat \ {0}

Rooms   == 1..MaxLobby
Targets == 0..MaxLobby
Off     == -1             \* no client
Solo    == MaxLobby + 1   \* the match played offline, whose lobby id is 0

VARIABLES
    screen,     \* ClientPhase, with the job of its Splash
    cleaning,   \* pending_session_cleanup
    offline,    \* is_offline
    url,        \* ws_url and server_address
    handoff,    \* relay_handoff_done
    client,     \* where the client's connection leads, or Off
    up,         \* is_connected
    connecting, \* is_connecting
    early,      \* ws_connect_not_before is still to come
    dials,      \* dials in flight to each target
    answers,    \* connect_rx
    clock,      \* relay_connect_start: not set, set, or fifteen seconds ago
    tries,      \* relay_retry_count
    room,       \* my_lobby_id and my_player_id, 0 for none
    joined,     \* joined_lobby_id is set
    chosen,     \* pending_join_lobby_id is set
    wanted,     \* join_waiting_for_identity
    waiting,    \* is_waiting
    rejoin,     \* pending_lobby_rejoin
    asked,      \* the peer has a Join, or a first frame, to answer
    seat,       \* the lobby the peer has this connection in, 0 for none
    start,      \* a match is to be loaded: engine_init_queued_msg, then its engine
    connected,  \* the exit splash has seen a connection
    pass        \* where the pass is

address  == <<url, handoff, offline>>
dialling == <<connecting, early, dials, answers>>
limit    == <<clock, tries>>
wish     == <<joined, chosen, wanted, waiting, rejoin>>
peer     == <<asked, seat>>
line     == <<client, up, peer>>
loader   == <<start, connected>>
show     == <<screen, cleaning>>

sessionVars == <<address, dialling, limit, wish, room, line, loader, show, pass>>

SessionInit ==
    /\ screen = "menu" /\ cleaning = FALSE
    /\ offline = FALSE /\ url = 0 /\ handoff = FALSE
    /\ client = Off /\ up = FALSE
    /\ connecting = FALSE /\ early = FALSE
    /\ dials = [t \in Targets |-> 0] /\ answers = <<>>
    /\ clock = "off" /\ tries = 0
    /\ room = 0
    /\ joined = FALSE /\ chosen = FALSE /\ wanted = FALSE /\ waiting = FALSE
    /\ rejoin = FALSE
    /\ asked = FALSE /\ seat = 0
    /\ start = FALSE /\ connected = FALSE
    /\ pass = "rest"

-------------------------------------------------------------------------------
(* What the steps share.                                                   *)

Splash == screen \in {"exiting", "entering"}

\* ws_on_relay: a url of a relay is only ever set with relay_handoff_done.
OnRelay == handoff

\* Dials and answers outstanding.
Outstanding == Len(answers) + SumFunctionOnSet(dials, Targets)

\* spawn_sow_client_connect, within the bound.
Dial(t) ==
    /\ Outstanding < DialCap
    /\ dials' = [dials EXCEPT ![t] = @ + 1]
    /\ connecting' = TRUE

\* net.client = None: whatever the connection still held is lost.
HangUp ==
    /\ client' = Off /\ asked' = FALSE /\ seat' = 0

\* Mutant: is_connecting is left as it is.
AbandonDialling ==
    /\ offline' = FALSE /\ url' = 0
    /\ HangUp /\ up' = FALSE
    /\ answers' = <<>> /\ early' = FALSE /\ UNCHANGED connecting
    /\ waiting' = FALSE /\ chosen' = FALSE /\ joined' = FALSE /\ wanted' = FALSE
    /\ room' = 0
    /\ UNCHANGED <<handoff, dials, rejoin, start>>

\* begin_exit_to_main_menu: the connection and the match are given up, while dials in
\* flight, the match's loader and relay_handoff_done are left.
Abandon ==
    /\ offline' = FALSE /\ url' = 0
    /\ HangUp /\ up' = FALSE
    /\ answers' = <<>> /\ early' = FALSE /\ connecting' = FALSE
    /\ waiting' = FALSE /\ chosen' = FALSE /\ joined' = FALSE /\ wanted' = FALSE
    /\ room' = 0
    /\ UNCHANGED <<handoff, dials, rejoin, start>>

\* With use_loader: the exit splash, until connected again.
Exit ==
    /\ Abandon
    /\ screen' = "exiting" /\ connected' = FALSE /\ UNCHANGED cleaning

\* Without: the menu at once, and the cleanup with the next frame.
ExitAtOnce ==
    /\ Abandon
    /\ screen' = "menu" /\ cleaning' = (cleaning \/ screen = "playing")
    /\ UNCHANGED connected

\* cleanup_game_session_stub.
Cleanup == start' = FALSE /\ room' = 0 /\ rejoin' = FALSE

-------------------------------------------------------------------------------
(* The player, between two passes.                                          *)

\* request_join: from the menu, to a lobby or to any.
RequestJoin ==
    /\ pass = "rest" /\ screen = "menu" /\ ~waiting
    /\ chosen' \in BOOLEAN
    /\ waiting' = TRUE
    /\ wanted' = (client = Off)
    /\ IF client = Off
       THEN Dial(url) /\ UNCHANGED asked
       ELSE asked' = (asked \/ client = 0) /\ UNCHANGED <<connecting, dials>>
    /\ UNCHANGED <<address, early, answers, limit, joined, rejoin, room, client, up, seat,
                   loader, show, pass>>

\* LeaveLobby: from the queue or out of a match.
LeaveLobby ==
    /\ pass = "rest"
    /\ screen = "playing" \/ (screen = "menu" /\ waiting)
    /\ ExitAtOnce
    /\ UNCHANGED <<limit, pass>>

\* start_offline_match.
StartOffline ==
    /\ pass = "rest" /\ screen = "menu" /\ ~waiting
    /\ offline' = TRUE
    /\ HangUp
    /\ screen' = "entering"
    /\ room' = Solo /\ start' = TRUE
    /\ UNCHANGED <<url, handoff, up, dialling, limit, wish, connected, cleaning, pass>>

\* MapDownloadEvent::Error, of the map of a lobby or of a match that waits for it:
\* update_assets comes between update_net and update_loader.
MapFails ==
    /\ pass = "dial" /\ (joined \/ start)
    /\ screen' = "menu"
    /\ waiting' = FALSE /\ chosen' = FALSE /\ joined' = FALSE
    /\ start' = FALSE
    /\ UNCHANGED <<address, dialling, limit, wanted, rejoin, room, line, connected, cleaning,
                   pass>>

-------------------------------------------------------------------------------
(* The network, and time.                                                   *)

\* spawn_sow_client_connect: a dial ends, at the latest after five seconds.
DialEnds(t, ok) ==
    /\ dials[t] > 0
    /\ dials' = [dials EXCEPT ![t] = @ - 1]
    /\ answers' = Append(answers, [to |-> t, ok |-> ok])
    /\ UNCHANGED <<address, connecting, early, limit, wish, room, line, loader, show, pass>>

\* ws_connect_not_before comes.
DialTime ==
    /\ early /\ early' = FALSE
    /\ UNCHANGED <<address, connecting, dials, answers, limit, wish, room, line, loader, show,
                   pass>>

\* Fifteen seconds since relay_connect_start.
Late ==
    /\ clock = "set" /\ clock' = "late"
    /\ UNCHANGED <<address, dialling, tries, wish, room, line, loader, show, pass>>

-------------------------------------------------------------------------------
(* A pass: the answers of the dials, and the time limit.                    *)

\* A connection takes the place of the one there was.  What is sent on it first: to a
\* relay, or in a match, the credentials; else the Join that is still owed.  Only the
\* relay answers the former, only the server the latter.
TakeConnected ==
    LET to   == Head(answers).to
        back == OnRelay \/ screen = "playing"
        owed == (chosen \/ wanted) /\ waiting /\ ~joined IN
    /\ pass = "rest" /\ answers # <<>> /\ Head(answers).ok
    /\ answers' = Tail(answers)
    /\ client' = to /\ up' = TRUE /\ connecting' = FALSE
    /\ seat' = 0
    /\ asked' = IF back THEN to # 0 /\ room = to ELSE to = 0 /\ (rejoin \/ owed)
    /\ rejoin' = (rejoin /\ back)
    /\ wanted' = (wanted /\ (back \/ rejoin \/ ~owed))
    /\ IF OnRelay THEN clock' = "off" /\ tries' = 0 ELSE UNCHANGED limit
    /\ UNCHANGED <<address, early, dials, joined, chosen, waiting, room, loader, show, pass>>

\* A dial has failed: towards a relay, the tenth failure in a row ends the match.
TakeFailed ==
    /\ pass = "rest" /\ answers # <<>> /\ ~Head(answers).ok
    /\ IF OnRelay /\ ~offline /\ tries + 1 >= Retries
       THEN Exit /\ clock' = "off" /\ tries' = 0
       ELSE /\ answers' = Tail(answers) /\ up' = FALSE /\ connecting' = FALSE
            /\ early' = TRUE
            /\ IF OnRelay /\ ~offline
               THEN clock' = "set" /\ tries' = tries + 1
               ELSE UNCHANGED limit
            /\ UNCHANGED <<address, dials, wish, room, client, peer, loader, show>>
    /\ UNCHANGED pass

Limited == OnRelay /\ client = Off /\ ~offline

\* The last-resort safety net: fifteen seconds without a relay.
Expire ==
    /\ pass = "rest" /\ answers = <<>>
    /\ Limited /\ clock = "late"
    /\ Exit
    /\ clock' = "off" /\ tries' = 0 /\ pass' = "mail"

\* Less than that, or nothing to limit.
KeepTime ==
    /\ pass = "rest" /\ answers = <<>> /\ pass' = "mail"
    /\ ~(Limited /\ clock = "late")
    /\ IF Limited
       THEN clock' = "set" /\ tries' = IF clock = "set" THEN tries ELSE 0
       ELSE clock' = "off" /\ UNCHANGED tries
    /\ UNCHANGED <<address, dialling, wish, room, line, loader, show>>

-------------------------------------------------------------------------------
(* The messages, of the server or of a relay, with what update_net does of  *)
(* them once they are all taken.                                            *)

FromServer == pass = "mail" /\ client = 0
FromRelay  == pass = "mail" /\ client \in Rooms

Handled == UNCHANGED <<address, dialling, limit, client, up, connected, cleaning, pass>>

\* JoinAck, which is also answered with a Ready.
TakeAck(l) ==
    /\ FromServer /\ asked
    /\ asked' = FALSE /\ seat' = l
    /\ room' = l /\ joined' = TRUE /\ waiting' = TRUE
    /\ UNCHANGED <<chosen, wanted, rejoin, start, screen>>
    /\ Handled

\* JoinFailed.
TakeRefused ==
    /\ FromServer /\ asked
    /\ asked' = FALSE /\ UNCHANGED seat
    /\ waiting' = FALSE /\ chosen' = FALSE /\ joined' = FALSE
    /\ UNCHANGED <<room, wanted, rejoin, start, screen>>
    /\ Handled

\* SyncState with is_starting: the loader, ahead of the Start message.
TakeStarting ==
    /\ FromServer /\ seat # 0
    /\ waiting' = FALSE
    /\ screen' = IF waiting /\ ~Splash THEN "entering" ELSE screen
    /\ UNCHANGED <<room, joined, chosen, wanted, rejoin, peer, start>>
    /\ Handled

\* LobbyClosed of a lobby: back to the queue, or removed by the host.
TakeRemoved ==
    /\ FromServer /\ seat # 0
    /\ seat' = 0 /\ room' = 0
    /\ screen' = "menu"
    /\ \/ waiting' = TRUE /\ asked' = TRUE /\ UNCHANGED <<joined, chosen>>
       \/ waiting' = FALSE /\ joined' = FALSE /\ chosen' = FALSE /\ UNCHANGED asked
    /\ UNCHANGED <<wanted, rejoin, start>>
    /\ Handled

\* The relay admits the player.
TakeAdmitted ==
    /\ FromRelay /\ asked
    /\ asked' = FALSE /\ seat' = client
    /\ UNCHANGED <<room, wish, start, screen>>
    /\ Handled

\* Start: the match is to be loaded.  switch_to_relay: the connection is to lead to
\* its relay, and the answers to earlier dials are thrown away.
TakeStart ==
    /\ FromServer /\ seat # 0
    /\ room' = seat
    /\ screen' = "entering" /\ start' = TRUE
    /\ waiting' = FALSE /\ chosen' = FALSE /\ joined' = FALSE
    /\ handoff' = TRUE /\ url' = seat
    /\ HangUp /\ up' = FALSE
    /\ answers' = <<>> /\ early' = FALSE
    /\ clock' = "set" /\ tries' = 0
    /\ pass' = "dial"
    /\ UNCHANGED <<offline, connecting, dials, wanted, rejoin, connected, cleaning>>

\* LobbyClosed of a match that is over, or of a lobby that could not be handed to a
\* relay: exit_to_menu_after_net.
TakeOver ==
    /\ pass = "mail" /\ seat # 0
    /\ Exit
    /\ pass' = "dial"
    /\ UNCHANGED limit

\* LobbyClosed with a rematch: the menu, the server, and a Join owed on the new
\* connection.
TakeRematch ==
    /\ FromRelay /\ seat # 0
    /\ start' = FALSE /\ room' = 0
    /\ rejoin' = TRUE /\ chosen' = TRUE /\ waiting' = TRUE
    /\ screen' = "menu" /\ url' = 0
    /\ HangUp /\ early' = FALSE
    /\ pass' = "dial"
    /\ UNCHANGED <<offline, handoff, up, connecting, dials, answers, limit, joined, wanted,
                   connected, cleaning>>

\* The connection turns out to be closed: a match on a relay is resumed, another is
\* over, and out of a match the next dial goes to the server.
TakeLost ==
    /\ pass = "mail" /\ client # Off /\ pass' = "dial"
    /\ IF OnRelay THEN clock' = "set" /\ tries' = 0 ELSE UNCHANGED limit
    /\ IF screen = "playing" /\ ~OnRelay /\ ~offline
       THEN Exit
       ELSE /\ HangUp /\ up' = FALSE /\ connecting' = FALSE /\ early' = ~OnRelay
            /\ url' = IF screen = "menu" /\ ~offline THEN 0 ELSE url
            /\ UNCHANGED <<offline, handoff, dials, answers, wish, room, loader, show>>

\* No message is left.
TakeNone ==
    /\ pass = "mail" /\ pass' = "dial"
    /\ UNCHANGED <<address, dialling, limit, wish, room, line, loader, show>>

-------------------------------------------------------------------------------
(* The rest of a pass: the dial of update_net, update_loader and the frame. *)

MustDial == client = Off /\ ~connecting /\ ~early /\ ~offline

AutoDial ==
    IF MustDial /\ Outstanding < DialCap
    THEN Dial(url)
    ELSE UNCHANGED <<connecting, dials>>

\* Mutant: is_connected is asked, which the failure of another dial resets.
LoadExitShown ==
    /\ screen = "exiting"
    /\ IF connected
       THEN Cleanup /\ screen' = "menu" /\ UNCHANGED connected
       ELSE connected' = up /\ UNCHANGED <<start, room, rejoin, screen>>

\* The exit splash: until connected, then the cleanup and the menu.
LoadExit ==
    /\ screen = "exiting"
    /\ IF connected
       THEN Cleanup /\ screen' = "menu" /\ UNCHANGED connected
       ELSE connected' = (client # Off) /\ UNCHANGED <<start, room, rejoin, screen>>

\* The enter splash: with an engine and a relay, the match.
LoadEnter ==
    /\ screen = "entering"
    /\ start /\ (offline \/ (up /\ client # Off /\ OnRelay))
    /\ start' = FALSE /\ screen' = "playing"
    /\ UNCHANGED <<connected, room, rejoin>>

\* The cleanup left over from LeaveLobby, if the menu is still shown.
LoadRest ==
    /\ screen # "exiting"
    /\ IF cleaning /\ screen = "menu"
       THEN Cleanup /\ UNCHANGED <<connected, screen>>
       ELSE UNCHANGED <<loader, room, rejoin, screen>>

EndPass ==
    /\ pass = "dial" /\ pass' = "rest"
    /\ AutoDial
    /\ cleaning' = FALSE
    /\ LoadExit \/ LoadEnter \/ LoadRest
    /\ UNCHANGED <<address, early, answers, limit, joined, chosen, wanted, waiting, line>>

-------------------------------------------------------------------------------
Player == RequestJoin \/ LeaveLobby \/ StartOffline \/ MapFails

Pass ==
    \/ TakeConnected \/ TakeFailed
    \/ Expire \/ KeepTime
    \/ \E l \in Rooms : TakeAck(l)
    \/ TakeRefused \/ TakeStarting \/ TakeRemoved \/ TakeAdmitted
    \/ TakeStart \/ TakeOver \/ TakeRematch \/ TakeLost \/ TakeNone
    \/ EndPass

SessionNext ==
    \/ Player \/ Pass \/ DialTime \/ Late
    \/ \E t \in Targets, ok \in BOOLEAN : DialEnds(t, ok)

\* The loop runs and time passes, for a time limit as soon as no dial is left to set it
\* anew; a dial ends.
Running ==
    /\ WF_sessionVars(Pass)
    /\ WF_sessionVars(DialTime)
    /\ WF_sessionVars(Outstanding = 0 /\ client = Off /\ Late)
    /\ \A t \in Targets : WF_sessionVars(\E ok \in BOOLEAN : DialEnds(t, ok))

\* From some time on the server can be reached: no dial to it fails, and no connection
\* to it is lost.
Refused == DialEnds(0, FALSE) \/ (client = 0 /\ TakeLost)
Reachable == <>[][~Refused]_sessionVars

SessionSpec == SessionInit /\ [][SessionNext]_sessionVars /\ Running /\ Reachable

-------------------------------------------------------------------------------
\* Every variable has its type, and nothing is owed by no peer.
SessionTypeOK ==
    /\ screen \in {"menu", "exiting", "entering", "playing"}
    /\ pass \in {"rest", "mail", "dial"} /\ clock \in {"off", "set", "late"}
    /\ {cleaning, offline, handoff, up, connecting, early, joined, chosen, wanted, waiting,
        rejoin, asked, start, connected} \subseteq BOOLEAN
    /\ url \in Targets /\ client \in Targets \cup {Off}
    /\ client = Off => ~asked /\ seat = 0
    /\ dials \in [Targets -> 0..DialCap]
    /\ answers \in Seq([to : Targets, ok : BOOLEAN]) /\ Outstanding <= DialCap
    /\ tries \in 0..(Retries - 1)
    /\ room \in Rooms \cup {0, Solo} /\ seat \in Rooms \cup {0}

\* is_connecting means a dial under way or an answer not yet taken.  The handoff and
\* the exit throw answers away: a flag they left behind would keep the client from
\* dialling ever again (sow-client/src/net/update/mod.rs:234, net/session.rs:172).
DialAnswered == connecting => Outstanding > 0

\* The exit splash ends, whatever dials to a relay are still under way when it begins
\* and however often the relay's time limit, which outlives the match, strikes again.
ExitEnds == screen = "exiting" ~> screen # "exiting"
=============================================================================
