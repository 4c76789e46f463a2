------------------------------ MODULE EngineProofs ------------------------------
(* Theorems about the client's session, for any number of lobbies, retries and    *)
(* dials, about the cities, for any players, land and number of cities, and about *)
(* the engine, in which these and the diplomacy move.                             *)
EXTENDS MCEngine, DiplomacyProofs, Sums, WellFoundedInduction, TLAPS

---------------------------------------------------------------------------------
(* Dials and answers outstanding.                                                 *)

LEMMA SessionConstants ==
    /\ MaxLobby \in Nat \ {0} /\ Retries \in Nat \ {0} /\ DialCap \in Nat \ {0}
    /\ Rooms \subseteq Targets /\ 0 \in Targets /\ Off \notin Targets /\ 0 \notin Rooms
    /\ IsFiniteSet(Targets)
BY SessionAssumption, FS_Interval DEF Rooms, Targets, Off

Queued ==
    /\ dials \in [Targets -> 0..DialCap]
    /\ answers \in Seq([to : Targets, ok : BOOLEAN])
    /\ Outstanding <= DialCap

LEMMA OutstandingNat ==
    ASSUME Queued
    PROVE  /\ SumFunctionOnSet(dials, Targets) \in Nat /\ Len(answers) \in Nat
           /\ Outstanding \in Nat
           /\ \A t \in Targets : dials[t] \in Nat /\ dials[t] <= SumFunctionOnSet(dials, Targets)
<1>1. \A t \in Targets : dials[t] \in Nat
  BY SessionConstants DEF Queued
<1>2. Len(answers) \in Nat
  BY DEF Queued
<1>3. SumFunctionOnSet(dials, Targets) \in Nat
  BY <1>1, SessionConstants, SumNat
<1>4. \A t \in Targets : SumFunctionOnSet(dials, Targets) >= dials[t]
  BY <1>1, SessionConstants, SumTerm
<1> QED BY <1>1, <1>2, <1>3, <1>4 DEF Outstanding

\* One more dial is one more outstanding.
LEMMA DialOut ==
    ASSUME Queued, NEW t \in Targets, Dial(t), UNCHANGED answers
    PROVE  Queued' /\ Outstanding' > 0
<1>1. Outstanding < DialCap /\ dials' = [dials EXCEPT ![t] = @ + 1]
  BY DEF Dial
<1>2. /\ SumFunctionOnSet(dials, Targets) \in Nat /\ Len(answers) \in Nat
      /\ dials[t] \in Nat /\ dials[t] <= SumFunctionOnSet(dials, Targets)
      /\ DialCap \in Nat
  BY OutstandingNat, SessionConstants
<1>3. dials[t] + 1 \in 0..DialCap
  BY <1>1, <1>2 DEF Outstanding
<1>4. dials' \in [Targets -> 0..DialCap]
  BY <1>1, <1>3 DEF Queued
<1>5. /\ dials'[t] = dials[t] + 1
      /\ \A u \in Targets \ {t} : dials'[u] = dials[u]
      /\ \A u \in Targets : dials[u] \in Nat /\ dials'[u] \in Nat
  BY <1>1, <1>4, SessionConstants DEF Queued
<1>6. SumFunctionOnSet(dials', Targets)
        = SumFunctionOnSet(dials, Targets) - dials[t] + dials'[t]
  BY <1>5, SessionConstants, SumExcept
<1>7. Outstanding' = Outstanding + 1 /\ Outstanding \in Nat
  BY <1>2, <1>5, <1>6, OutstandingNat DEF Outstanding
<1> QED BY <1>1, <1>4, <1>7, SessionConstants DEF Queued

\* A dial that ends leaves as many outstanding.
LEMMA EndsOut ==
    ASSUME Queued, NEW t \in Targets, NEW ok \in BOOLEAN, DialEnds(t, ok)
    PROVE  Queued' /\ Outstanding' = Outstanding
<1> DEFINE ans == [to |-> t, ok |-> ok]
<1>1. /\ dials[t] > 0 /\ dials' = [dials EXCEPT ![t] = @ - 1]
      /\ answers' = Append(answers, ans)
  BY DEF DialEnds
<1>2. /\ SumFunctionOnSet(dials, Targets) \in Nat /\ Len(answers) \in Nat
      /\ dials[t] \in Nat /\ DialCap \in Nat
  BY OutstandingNat, SessionConstants
<1>3. dials' \in [Targets -> 0..DialCap]
  BY <1>1, <1>2 DEF Queued
<1>4. ans \in [to : Targets, ok : BOOLEAN]
  OBVIOUS
<1>5. /\ answers' \in Seq([to : Targets, ok : BOOLEAN])
      /\ Len(answers') = Len(answers) + 1
  BY <1>1, <1>4 DEF Queued
<1>6. /\ dials'[t] = dials[t] - 1
      /\ \A u \in Targets \ {t} : dials'[u] = dials[u]
      /\ \A u \in Targets : dials[u] \in Nat /\ dials'[u] \in Nat
  BY <1>1, <1>3, SessionConstants DEF Queued
<1>7. SumFunctionOnSet(dials', Targets)
        = SumFunctionOnSet(dials, Targets) - dials[t] + dials'[t]
  BY <1>6, SessionConstants, SumExcept
<1>8. Outstanding' = Outstanding
  BY <1>2, <1>5, <1>6, <1>7 DEF Outstanding
<1> QED BY <1>3, <1>5, <1>8 DEF Queued

\* Answers that are taken or thrown away are fewer outstanding.
LEMMA FewerOut ==
    ASSUME Queued, UNCHANGED dials,
           answers' = <<>> \/ (answers # <<>> /\ answers' = Tail(answers))
    PROVE  Queued'
<1>1. /\ answers' \in Seq([to : Targets, ok : BOOLEAN]) /\ Len(answers') \in Nat
      /\ Len(answers') <= Len(answers)
  <2>1. CASE answers' = <<>>
    BY <2>1 DEF Queued
  <2>2. CASE answers # <<>> /\ answers' = Tail(answers)
    BY <2>2 DEF Queued
  <2> QED BY <2>1, <2>2
<1>2. /\ SumFunctionOnSet(dials, Targets) \in Nat /\ Len(answers) \in Nat /\ DialCap \in Nat
  BY OutstandingNat, SessionConstants
<1>3. Outstanding' <= DialCap
  BY <1>1, <1>2 DEF Queued, Outstanding
<1> QED BY <1>1, <1>3 DEF Queued

LEMMA SameOut ==
    ASSUME Queued, UNCHANGED <<dials, answers>>
    PROVE  Queued' /\ Outstanding' = Outstanding
BY DEF Queued, Outstanding

---------------------------------------------------------------------------------
(* The inductive invariant.                                                       *)

Flags ==
    /\ cleaning \in BOOLEAN /\ offline \in BOOLEAN /\ handoff \in BOOLEAN
    /\ up \in BOOLEAN /\ connecting \in BOOLEAN /\ early \in BOOLEAN
    /\ joined \in BOOLEAN /\ chosen \in BOOLEAN /\ wanted \in BOOLEAN
    /\ waiting \in BOOLEAN /\ rejoin \in BOOLEAN /\ asked \in BOOLEAN
    /\ start \in BOOLEAN /\ connected \in BOOLEAN

Places ==
    /\ screen \in {"menu", "exiting", "entering", "playing"}
    /\ pass \in {"rest", "mail", "dial"} /\ clock \in {"off", "set", "late"}
    /\ url \in Targets /\ client \in Targets \cup {Off}
    /\ tries \in 0..(Retries - 1)
    /\ room \in Rooms \cup {0, Solo} /\ seat \in Rooms \cup {0}

\* Nothing is owed by no peer, and a client that is there is not dialling.
Lines ==
    /\ client = Off => ~asked /\ seat = 0
    /\ client # Off => ~connecting

SessionInv == Flags /\ Places /\ Lines /\ Queued /\ DialAnswered

LEMMA SessionInvIsType == SessionInv => SessionTypeOK
BY DEF SessionInv, Flags, Places, Lines, Queued, SessionTypeOK

LEMMA SessionInvInit == SessionInit => SessionInv
<1> SUFFICES ASSUME SessionInit PROVE SessionInv
  OBVIOUS
<1>1. Flags /\ Places /\ Lines /\ DialAnswered
  BY SessionConstants DEF SessionInit, Flags, Places, Lines, DialAnswered
<1>2. Queued
  <2>1. dials = [t \in Targets |-> 0] /\ answers = <<>>
    BY DEF SessionInit
  <2>2. SumFunctionOnSet(dials, Targets) = 0
    BY <2>1, SessionConstants, SumZero
  <2> QED BY <2>1, <2>2, SessionConstants DEF Queued, Outstanding
<1> QED BY <1>1, <1>2 DEF SessionInv

---------------------------------------------------------------------------------
(* The steps.                                                                     *)

LEMMA SesJoin ==
    ASSUME SessionInv, RequestJoin
    PROVE  SessionInv'
<1> USE DEF SessionInv
<1>1. Flags' /\ Places' /\ Lines'
  <2>1. /\ waiting' = TRUE /\ chosen' \in BOOLEAN /\ wanted' = (client = Off)
        /\ UNCHANGED <<address, early, joined, rejoin, client, up, loader, show, limit, room,
                       seat, pass>>
    BY DEF RequestJoin
  <2>2. CASE client = Off
    <3>1. connecting' = TRUE /\ asked' = asked
      BY <2>2 DEF RequestJoin, Dial
    <3> QED BY <2>1, <2>2, <3>1 DEF Flags, Places, Lines, address, limit, loader, show
  <2>3. CASE client # Off
    <3>1. connecting' = connecting /\ asked' = (asked \/ client = 0)
      BY <2>3 DEF RequestJoin
    <3>2. Flags'
      BY <2>1, <3>1 DEF Flags, address, loader, show
    <3> QED BY <2>1, <2>3, <3>1, <3>2 DEF Places, Lines, address, limit, loader, show
  <2> QED BY <2>2, <2>3
<1>2. Queued' /\ DialAnswered'
  <2>1. CASE client = Off
    <3>1. url \in Targets /\ Dial(url) /\ UNCHANGED answers
      BY <2>1 DEF RequestJoin, Places
    <3> QED BY <3>1, DialOut DEF DialAnswered
  <2>2. CASE client # Off
    BY <2>2, SameOut DEF RequestJoin, DialAnswered
  <2> QED BY <2>1, <2>2
<1> QED BY <1>1, <1>2

LEMMA SesLeave ==
    ASSUME SessionInv, LeaveLobby
    PROVE  SessionInv'
<1> USE DEF SessionInv
<1>1. Flags' /\ Places' /\ Lines'
  BY SessionConstants DEF LeaveLobby, ExitAtOnce, Abandon, HangUp, Flags, Places, Lines, limit
<1>2. UNCHANGED dials /\ answers' = <<>> /\ connecting' = FALSE
  BY DEF LeaveLobby, ExitAtOnce, Abandon
<1>3. Queued' /\ DialAnswered'
  BY <1>2, FewerOut DEF DialAnswered
<1> QED BY <1>1, <1>3

\* Steps that leave the dials, the answers and is_connecting alone.
LEMMA SesAside ==
    ASSUME SessionInv, UNCHANGED <<dials, answers, connecting>>,
           Flags', Places', client' = Off => ~asked' /\ seat' = 0,
           client' # Off => client # Off
    PROVE  SessionInv'
BY SameOut DEF SessionInv, Lines, DialAnswered

LEMMA SesPlayer ==
    ASSUME SessionInv, StartOffline \/ MapFails \/ DialTime \/ Late
    PROVE  SessionInv'
<1>1. UNCHANGED <<dials, answers, connecting>>
  BY DEF StartOffline, MapFails, DialTime, Late, dialling
<1>2. Flags'
  <2>1. CASE StartOffline
    BY <2>1 DEF SessionInv, Flags, StartOffline, HangUp, dialling, wish
  <2>2. CASE MapFails
    BY <2>2 DEF SessionInv, Flags, MapFails, dialling, address, line, peer
  <2>3. CASE DialTime
    BY ZenonT(60), <2>3 DEF SessionInv, Flags, DialTime, wish, address, line, peer, loader, show
  <2>4. CASE Late
    BY <2>4 DEF SessionInv, Flags, Late, dialling, wish, address, line, peer, loader, show
  <2> QED BY <2>1, <2>2, <2>3, <2>4
<1>3. Places'
  BY DEF SessionInv, Places, StartOffline, MapFails, DialTime, Late, HangUp, dialling, limit, wish,
         address, line, peer, loader, show
<1>4. (client' = Off => ~asked' /\ seat' = 0) /\ (client' # Off => client # Off)
  BY DEF SessionInv, Lines, StartOffline, MapFails, DialTime, Late, HangUp, line, peer
<1> QED BY <1>1, <1>2, <1>3, <1>4, SesAside

LEMMA SesDialEnds ==
    ASSUME SessionInv, NEW t \in Targets, NEW ok \in BOOLEAN, DialEnds(t, ok)
    PROVE  SessionInv'
<1>1. Flags' /\ Places' /\ Lines'
  BY DEF SessionInv, Flags, Places, Lines, DialEnds, address, limit, wish, line, peer, loader, show
<1>2. Queued' /\ Outstanding' = Outstanding /\ UNCHANGED connecting
  BY EndsOut DEF SessionInv, DialEnds
<1> QED BY <1>1, <1>2 DEF SessionInv, DialAnswered

LEMMA SesConnected ==
    ASSUME SessionInv, TakeConnected
    PROVE  SessionInv'
<1>1. Head(answers) \in [to : Targets, ok : BOOLEAN]
  <2> DEFINE A == [to : Targets, ok : BOOLEAN]
  <2>1. answers \in Seq(A) /\ answers # <<>>
    BY DEF SessionInv, Queued, TakeConnected
  <2>2. Head(answers) \in A
    <3> HIDE DEF A
    <3> QED BY <2>1
  <2> QED BY <2>2
<1>2. Head(answers).to \in Targets
  BY <1>1
<1>3. Flags'
  BY DEF SessionInv, Flags, TakeConnected, address, loader, show
<1>4. Places' /\ Lines'
  BY <1>2, SessionConstants DEF SessionInv, Places, Lines, TakeConnected, address, limit, loader, show
<1>5. Queued' /\ DialAnswered'
  BY FewerOut DEF SessionInv, TakeConnected, DialAnswered
<1> QED BY <1>3, <1>4, <1>5 DEF SessionInv

\* The exit throws the answers away, and the flag with them.
LEMMA SesExit ==
    ASSUME SessionInv, Exit, pass' \in {"rest", "mail", "dial"},
           clock' \in {"off", "set", "late"}, tries' \in 0..(Retries - 1)
    PROVE  SessionInv'
<1>1. Flags'
  BY DEF SessionInv, Flags, Exit, Abandon, HangUp
<1>2. Places' /\ Lines'
  BY SessionConstants DEF SessionInv, Places, Lines, Exit, Abandon, HangUp
<1>3. Queued' /\ DialAnswered'
  BY FewerOut DEF SessionInv, Exit, Abandon, DialAnswered
<1> QED BY <1>1, <1>2, <1>3 DEF SessionInv

LEMMA SesFailed ==
    ASSUME SessionInv, TakeFailed
    PROVE  SessionInv'
<1>1. CASE OnRelay /\ ~offline /\ tries + 1 >= Retries
  BY <1>1, SesExit, SessionConstants DEF TakeFailed, SessionInv, Places
<1>2. CASE ~(OnRelay /\ ~offline /\ tries + 1 >= Retries)
  <2>1. /\ answers # <<>> /\ answers' = Tail(answers) /\ up' = FALSE /\ connecting' = FALSE
        /\ early' = TRUE
        /\ UNCHANGED <<address, dials, wish, room, client, peer, loader, show, pass>>
    BY <1>2 DEF TakeFailed
  <2>2. clock' \in {"off", "set", "late"} /\ tries' \in 0..(Retries - 1)
    BY <1>2, SessionConstants DEF TakeFailed, SessionInv, Flags, Places, OnRelay, limit
  <2>3. Flags'
    BY ZenonT(60), <2>1 DEF SessionInv, Flags, address, wish, peer, loader, show
  <2>4. Places' /\ Lines'
    BY <2>1, <2>2 DEF SessionInv, Places, Lines, address, wish, peer, loader, show
  <2>5. Queued' /\ DialAnswered'
    BY <2>1, FewerOut DEF SessionInv, DialAnswered
  <2> QED BY <2>3, <2>4, <2>5 DEF SessionInv
<1> QED BY <1>1, <1>2

LEMMA SesTime ==
    ASSUME SessionInv, Expire \/ KeepTime
    PROVE  SessionInv'
<1>1. CASE Expire
  BY <1>1, SesExit, SessionConstants DEF Expire
<1>2. CASE KeepTime
  <2>1. UNCHANGED <<dials, answers, connecting>> /\ Flags'
    BY <1>2 DEF SessionInv, Flags, KeepTime, dialling, address, wish, line, peer, loader, show
  <2>2. Places'
    BY <1>2, SessionConstants
       DEF SessionInv, Places, KeepTime, dialling, address, wish, line, peer, loader, show
  <2>3. (client' = Off => ~asked' /\ seat' = 0) /\ (client' # Off => client # Off)
    BY <1>2 DEF SessionInv, Lines, KeepTime, line, peer
  <2> QED BY <2>1, <2>2, <2>3, SesAside
<1> QED BY <1>1, <1>2

\* The messages that leave the dials and the answers alone.
LEMMA SesMail ==
    ASSUME SessionInv,
           \/ \E l \in Rooms : TakeAck(l)
           \/ TakeRefused \/ TakeStarting \/ TakeRemoved \/ TakeAdmitted
    PROVE  SessionInv'
<1>1. UNCHANGED <<address, dialling, limit, client, up, connected, cleaning, pass>>
  BY DEF TakeAck, TakeRefused, TakeStarting, TakeRemoved, TakeAdmitted, Handled
<1>2. client # Off
  BY SessionConstants DEF TakeAck, TakeRefused, TakeStarting, TakeRemoved, TakeAdmitted,
        FromServer, FromRelay, Targets
<1>3. /\ joined' \in BOOLEAN /\ chosen' \in BOOLEAN /\ wanted' \in BOOLEAN
      /\ waiting' \in BOOLEAN /\ rejoin' \in BOOLEAN /\ asked' \in BOOLEAN
      /\ start' \in BOOLEAN
  <2>1. CASE \E l \in Rooms : TakeAck(l)
    BY <2>1 DEF SessionInv, Flags, TakeAck
  <2>2. CASE TakeRefused
    BY <2>2 DEF SessionInv, Flags, TakeRefused
  <2>3. CASE TakeStarting
    BY <2>3 DEF SessionInv, Flags, TakeStarting, peer
  <2>4. CASE TakeRemoved
    BY <2>4 DEF SessionInv, Flags, TakeRemoved
  <2>5. CASE TakeAdmitted
    BY <2>5 DEF SessionInv, Flags, TakeAdmitted, wish
  <2> QED BY <2>1, <2>2, <2>3, <2>4, <2>5
<1>4. /\ screen' \in {"menu", "exiting", "entering", "playing"}
      /\ room' \in Rooms \cup {0, Solo} /\ seat' \in Rooms \cup {0}
  <2>1. CASE \E l \in Rooms : TakeAck(l)
    BY <2>1 DEF SessionInv, Places, TakeAck
  <2>2. CASE TakeRefused
    BY <2>2 DEF SessionInv, Places, TakeRefused
  <2>3. CASE TakeStarting
    BY <2>3 DEF SessionInv, Places, TakeStarting, peer
  <2>4. CASE TakeRemoved
    BY <2>4 DEF SessionInv, Places, TakeRemoved
  <2>5. CASE TakeAdmitted
    BY <2>5, <1>2 DEF SessionInv, Places, TakeAdmitted, FromRelay
  <2> QED BY <2>1, <2>2, <2>3, <2>4, <2>5
<1>5. UNCHANGED <<dials, answers, connecting>> /\ Flags' /\ Places'
  BY <1>1, <1>3, <1>4 DEF SessionInv, Flags, Places, address, dialling, limit
<1>6. client' # Off
  BY <1>1, <1>2
<1> QED BY <1>2, <1>5, <1>6, SesAside

\* The switch to the relay: the answers go, and the flag was not up.
LEMMA SesStart ==
    ASSUME SessionInv, TakeStart
    PROVE  SessionInv'
<1>1. connecting' = FALSE
  BY SessionConstants DEF SessionInv, Flags, Lines, TakeStart, FromServer
<1>2. seat \in Rooms /\ seat \in Targets
  BY SessionConstants DEF SessionInv, Places, TakeStart
<1>3. Flags'
  BY <1>1 DEF SessionInv, Flags, TakeStart, HangUp
<1>4. Places' /\ Lines'
  BY <1>2, SessionConstants DEF SessionInv, Places, Lines, TakeStart, HangUp
<1>5. Queued' /\ DialAnswered'
  BY <1>1, FewerOut DEF SessionInv, TakeStart, DialAnswered
<1> QED BY <1>3, <1>4, <1>5 DEF SessionInv

\* The end of a match, a rematch, a connection lost, and no message left.
LEMMA SesEnds ==
    ASSUME SessionInv, TakeOver \/ TakeRematch \/ TakeLost \/ TakeNone
    PROVE  SessionInv'
<1>1. CASE TakeOver
  <2>1. /\ Exit /\ pass' \in {"rest", "mail", "dial"}
        /\ clock' \in {"off", "set", "late"} /\ tries' \in 0..(Retries - 1)
    BY <1>1 DEF TakeOver, SessionInv, Places, limit
  <2> QED BY <2>1, SesExit
<1>2. CASE TakeRematch
  <2>1. UNCHANGED <<dials, answers, connecting>> /\ Flags'
    BY <1>2 DEF TakeRematch, HangUp, SessionInv, Flags
  <2>2. Places'
    BY <1>2, SessionConstants DEF TakeRematch, HangUp, SessionInv, Places, limit
  <2>3. client' = Off /\ ~asked' /\ seat' = 0
    BY <1>2 DEF TakeRematch, HangUp
  <2> QED BY <2>1, <2>2, <2>3, SesAside
<1>3. CASE TakeLost
  <2>1. clock' \in {"off", "set", "late"} /\ tries' \in 0..(Retries - 1) /\ pass' = "dial"
    BY <1>3, SessionConstants DEF TakeLost, SessionInv, Places, limit
  <2>2. CASE screen = "playing" /\ ~OnRelay /\ ~offline
    BY <1>3, <2>1, <2>2, SesExit DEF TakeLost
  <2>3. CASE ~(screen = "playing" /\ ~OnRelay /\ ~offline)
    <3>1. /\ HangUp /\ up' = FALSE /\ connecting' = FALSE /\ early' = ~OnRelay
          /\ url' = IF screen = "menu" /\ ~offline THEN 0 ELSE url
          /\ UNCHANGED <<offline, handoff, dials, answers, wish, room, loader, show>>
      BY <1>3, <2>3 DEF TakeLost
    <3>2. Flags'
      BY <3>1 DEF HangUp, SessionInv, Flags, wish, loader, show, OnRelay
    <3>3. Places' /\ Lines'
      BY <2>1, <3>1, SessionConstants DEF HangUp, SessionInv, Places, Lines, show
    <3>4. Queued' /\ DialAnswered'
      BY <3>1, SameOut DEF SessionInv, DialAnswered
    <3> QED BY <3>2, <3>3, <3>4 DEF SessionInv
  <2> QED BY <2>2, <2>3
<1>4. CASE TakeNone
  <2>1. UNCHANGED <<dials, answers, connecting>> /\ Flags'
    BY <1>4 DEF TakeNone, SessionInv, Flags, dialling, address, wish, line, peer, loader, show
  <2>2. Places'
    BY <1>4 DEF TakeNone, SessionInv, Places, limit, address, line, peer, show
  <2>3. UNCHANGED <<client, asked, seat>>
    BY <1>4 DEF TakeNone, line, peer
  <2> QED BY <2>1, <2>2, <2>3, SesAside DEF SessionInv, Lines
<1> QED BY <1>1, <1>2, <1>3, <1>4

LEMMA SesEndPass ==
    ASSUME SessionInv, EndPass
    PROVE  SessionInv'
<1>1. /\ pass' = "rest" /\ cleaning' = FALSE
      /\ UNCHANGED <<address, early, answers, limit, joined, chosen, wanted, waiting, line>>
  BY DEF EndPass
<1>2. /\ start' \in BOOLEAN /\ connected' \in BOOLEAN /\ rejoin' \in BOOLEAN
      /\ screen' \in {"menu", "exiting", "entering", "playing"}
      /\ room' \in Rooms \cup {0, Solo}
  <2>1. CASE LoadExit
    BY <2>1 DEF LoadExit, Cleanup, SessionInv, Flags, Places
  <2>2. CASE LoadEnter
    BY <2>2 DEF LoadEnter, SessionInv, Flags, Places
  <2>3. CASE LoadRest
    BY <2>3 DEF LoadRest, Cleanup, SessionInv, Flags, Places, loader
  <2> QED BY <2>1, <2>2, <2>3 DEF EndPass
<1>3. CASE MustDial /\ Outstanding < DialCap
  <2>1. Dial(url) /\ url \in Targets /\ client = Off
    BY <1>3 DEF EndPass, AutoDial, MustDial, SessionInv, Places
  <2>2. connecting' = TRUE
    BY <2>1 DEF Dial
  <2>3. Queued' /\ DialAnswered'
    BY <1>1, <2>1, DialOut DEF SessionInv, DialAnswered
  <2>4. Flags'
    BY <1>1, <1>2, <2>2 DEF SessionInv, Flags, address, line, peer
  <2>5. Places' /\ Lines'
    BY <1>1, <1>2, <2>1 DEF SessionInv, Places, Lines, address, limit, line, peer
  <2> QED BY <2>3, <2>4, <2>5 DEF SessionInv
<1>4. CASE ~(MustDial /\ Outstanding < DialCap)
  <2>1. UNCHANGED <<dials, answers, connecting>>
    BY <1>1, <1>4 DEF EndPass, AutoDial
  <2>2. Flags'
    BY <1>1, <1>2, <2>1 DEF SessionInv, Flags, address, line, peer
  <2>3. Places' /\ UNCHANGED <<client, asked, seat>>
    BY <1>1, <1>2 DEF SessionInv, Places, address, limit, line, peer
  <2> QED BY <2>1, <2>2, <2>3, SesAside DEF SessionInv, Lines
<1> QED BY <1>3, <1>4

LEMMA SessionInvStep == SessionInv /\ [SessionNext]_sessionVars => SessionInv'
<1> SUFFICES ASSUME SessionInv, [SessionNext]_sessionVars
             PROVE  SessionInv'
  OBVIOUS
<1>1. CASE Player
  BY <1>1, SesJoin, SesLeave, SesPlayer DEF Player
<1>2. CASE Pass
  BY <1>2, SesConnected, SesFailed, SesTime, SesMail, SesStart, SesEnds, SesEndPass DEF Pass
<1>3. CASE DialTime \/ Late
  BY <1>3, SesPlayer
<1>4. ASSUME NEW t \in Targets, NEW ok \in BOOLEAN, DialEnds(t, ok)
      PROVE  SessionInv'
  BY <1>4, SesDialEnds
<1>5. CASE UNCHANGED sessionVars
  <2>1. UNCHANGED <<dials, answers, connecting>> /\ Flags'
    BY <1>5 DEF sessionVars, SessionInv, Flags, dialling, address, wish, line, peer, loader, show
  <2>2. Places' /\ UNCHANGED <<client, asked, seat>>
    BY <1>5 DEF sessionVars, SessionInv, Places, limit, address, line, peer, show
  <2> QED BY <2>1, <2>2, SesAside DEF SessionInv, Lines
<1> QED BY <1>1, <1>2, <1>3, <1>4, <1>5 DEF SessionNext

THEOREM SessionInvariant == SessionSpec => []SessionInv
BY SessionInvInit, SessionInvStep, PTL DEF SessionSpec

---------------------------------------------------------------------------------
(* The theorems.                                                                  *)

\* Type correctness (sow-client/src/net, loader).
THEOREM SessionTypes == SessionSpec => []SessionTypeOK
BY SessionInvariant, SessionInvIsType, PTL

\* The client never waits for a dial that nobody makes: whenever is_connecting is set, a
\* dial is under way or has left its answer in the channel, whatever the player, the
\* server, the relays and the time limits do (sow-client/src/net/update/mod.rs:234).
THEOREM NoDialIsForgotten == SessionSpec => []DialAnswered
<1>1. SessionInv => DialAnswered
  BY DEF SessionInv
<1> QED BY <1>1, SessionInvariant, PTL

---------------------------------------------------------------------------------
(* Cities: the inductive invariant.                                               *)

\* The ids of cities are given out in order.
Unbuilt == \A i \in CityIds : i >= nextId => city[i] = NoCity

\* What a tribe's counter may still stand for: its cities, and those that are gone,
\* which are never taken off it.
Credit(p) == {i \in CityIds : i < nextId /\ (city[i] = NoCity \/ city[i].owner = p)}
CounterPaid == \A p \in Tribes : counter[p] <= Cardinality(Credit(p))

\* A calculation under way over ports nobody has marked connects them all in the end.
LanesUnderWay ==
    ~lanesDirty /\ calc # NoCalc =>
        /\ calc.left \subseteq Ports
        /\ calc.found \subseteq Pairs(Ports)
        /\ Pairs(ReadyPorts) \subseteq calc.found \cup Pairs(calc.left)

CitiesInv == CitiesTypeOK /\ Unbuilt /\ CounterPaid /\ DerivedCurrent /\ LanesUnderWay

LEMMA CitiesConstants ==
    /\ MaxCities \in Nat \ {0} /\ MaxLevel \in Nat \ {0}
    /\ People \subseteq Owners /\ Nations \subseteq Owners /\ Tribes \subseteq Owners
    /\ Nobody \notin Owners /\ IsFiniteSet(Owners)
    /\ InnerRadius \in [Tiles -> SUBSET Tiles]
    /\ NoCity \notin City /\ NoCalc \notin Calc
    /\ IsFiniteSet(CityIds) /\ Cardinality(CityIds) = MaxCities
    /\ CityIds \subseteq Nat
<1>1. /\ MaxCities \in Nat \ {0} /\ MaxLevel \in Nat \ {0}
      /\ People \subseteq Owners /\ Nations \subseteq Owners /\ Tribes \subseteq Owners
      /\ Nobody \notin Owners /\ IsFiniteSet(Owners)
      /\ InnerRadius \in [Tiles -> SUBSET Tiles]
  BY CitiesAssumption
<1>2. IsFiniteSet(1..MaxCities) /\ Cardinality(1..MaxCities) = MaxCities
  BY <1>1, FS_Interval
<1>3. CityIds \subseteq Nat
  BY <1>1 DEF CityIds
<1> QED BY <1>1, <1>2, <1>3, NothingAssumption DEF CityIds

\* What a standing city is.
LEMMA StandingCity ==
    ASSUME city \in [CityIds -> City \cup {NoCity}], NEW i \in Standing
    PROVE  /\ i \in CityIds /\ city[i] \in City /\ city[i] # NoCity
           /\ city[i].owner \in Owners /\ city[i].tile \in Tiles
           /\ city[i].level \in 1..MaxLevel /\ city[i].level \in Nat
           /\ city[i].active \in 0..MaxLevel /\ city[i].active \in Nat
           /\ city[i].port \in BOOLEAN
<1>1. i \in CityIds /\ city[i] \in City /\ city[i] # NoCity
  BY DEF Standing
<1>2. /\ city[i].owner \in Owners /\ city[i].tile \in Tiles
      /\ city[i].level \in 1..MaxLevel /\ city[i].active \in 0..MaxLevel
      /\ city[i].port \in BOOLEAN
  BY <1>1 DEF City
<1>3. city[i].level \in Nat /\ city[i].active \in Nat
  BY <1>2, CitiesConstants
<1> QED BY <1>1, <1>2, <1>3

LEMMA StandingFinite == Standing \subseteq CityIds /\ IsFiniteSet(Standing)
<1>1. Standing \subseteq CityIds
  BY DEF Standing
<1> QED BY <1>1, CitiesConstants, FS_Subset

---------------------------------------------------------------------------------
(* Lanes.                                                                         *)

LEMMA PairOf ==
    ASSUME NEW S, NEW x \in Pairs(S)
    PROVE  \E i, j \in S : i # j /\ x = {i, j}
BY DEF Pairs

LEMMA PairIn ==
    ASSUME NEW S, NEW i \in S, NEW j \in S, i # j
    PROVE  {i, j} \in Pairs(S)
<1>1. \A k : {i, j} # {k}
  OBVIOUS
<1> QED BY <1>1 DEF Pairs

LEMMA PairsMono ==
    ASSUME NEW S, NEW T, S \subseteq T
    PROVE  Pairs(S) \subseteq Pairs(T)
<1>1. ASSUME NEW x \in Pairs(S) PROVE x \in Pairs(T)
  <2>1. PICK i \in S, j \in S : i # j /\ x = {i, j}
    BY PairOf
  <2> QED BY <2>1, PairIn
<1> QED BY <1>1

LEMMA PairsInIds ==
    ASSUME NEW S, S \subseteq CityIds
    PROVE  Pairs(S) \subseteq SUBSET CityIds
BY PairOf

\* No two ports, no lane.
LEMMA FewPairs ==
    ASSUME NEW S, IsFiniteSet(S), Cardinality(S) < 2
    PROVE  Pairs(S) = {}
<1>1. SUFFICES ASSUME NEW x \in Pairs(S) PROVE FALSE
  OBVIOUS
<1>2. PICK i \in S, j \in S : i # j /\ x = {i, j}
  BY PairOf
<1>3. Cardinality({i, j}) = 2 /\ {i, j} \subseteq S
  <2>1. IsFiniteSet({i}) /\ Cardinality({i}) = 1
    BY FS_Singleton
  <2>2. Cardinality({i} \cup {j}) = 2
    <3> DEFINE s == {i}
    <3>1. IsFiniteSet(s) /\ Cardinality(s) = 1 /\ j \notin s
      BY <1>2, <2>1
    <3> HIDE DEF s
    <3>2. Cardinality(s \cup {j}) = 1 + 1
      BY <3>1, FS_AddElement
    <3> QED BY <3>2 DEF s
  <2>3. {i} \cup {j} = {i, j}
    OBVIOUS
  <2> QED BY <2>2, <2>3
<1>4. Cardinality({i, j}) <= Cardinality(S) /\ Cardinality(S) \in Nat
  BY <1>3, FS_Subset, FS_CardinalityType
<1> QED BY <1>3, <1>4

\* A nonempty set of naturals has a least element.
LEMMA Least ==
    ASSUME NEW S, S \subseteq Nat, S # {}
    PROVE  LET i == CHOOSE i \in S : \A j \in S : i <= j IN i \in S /\ \A j \in S : i <= j
<1> DEFINE Less == {ss \in Nat \X Nat : ss[1] < ss[2]}
<1>1. IsWellFoundedOn(Less, Nat)
  BY NatLessThanWellFounded DEF OpToRel
<1>2. PICK i \in S : \A j \in S : <<j, i>> \notin Less
  <2> HIDE DEF Less
  <2> QED BY <1>1, WFMin
<1>3. \A j \in S : <<j, i>> \in Nat \X Nat /\ (j < i => <<j, i>> \in Less)
  OBVIOUS
<1>4. \A j \in S : ~(j < i)
  <2> HIDE DEF Less
  <2> QED BY <1>2, <1>3
<1>5. \A j \in S : i <= j
  <2> HIDE DEF Less
  <2> QED BY <1>4
<1> QED BY <1>5

\* From one natural to the next.
LEMMA UptoInduction ==
    ASSUME NEW n \in Nat, NEW G, 0 \in G, \A k \in 0..(n - 1) : k \in G => k + 1 \in G
    PROVE  0..n \subseteq G
<1> DEFINE Bad == (0..n) \ G
<1>1. SUFFICES ASSUME Bad # {} PROVE FALSE
  OBVIOUS
<1>2. Bad \subseteq Nat
  OBVIOUS
<1>3. PICK k \in Bad : \A j \in Bad : k <= j
  <2> HIDE DEF Bad
  <2> QED BY <1>1, <1>2, Least
<1>4. k \in 0..n /\ k # 0 /\ k \notin G
  BY <1>3
<1>5. k - 1 \in 0..(n - 1) /\ (k - 1) + 1 = k /\ k - 1 \in 0..n /\ ~(k <= k - 1)
  BY <1>4
<1>6. k - 1 \in G
  BY <1>3, <1>5
<1> QED BY <1>4, <1>5, <1>6

\* What is known of a calculation over the ports R of P.
Connecting(c, P, R) ==
    /\ c.left \subseteq P
    /\ c.found \subseteq Pairs(P)
    /\ Pairs(R) \subseteq c.found \cup Pairs(c.left)

\* A turn keeps that, or publishes lanes that join P and every two of R.
LEMMA ConnectTurn ==
    ASSUME NEW c \in Calc, NEW published, NEW P, P \subseteq CityIds, NEW R,
           Connecting(c, P, R)
    PROVE  LET t == Connect(c, published)
           IN  \/ t.calc = NoCalc /\ Pairs(R) \subseteq t.lanes /\ t.lanes \subseteq Pairs(P)
               \/ t.calc \in Calc /\ Connecting(t.calc, P, R) /\ t.lanes = published
<1> DEFINE t == Connect(c, published)
<1>1. CASE c.left = {}
  <2>1. t.calc = NoCalc /\ t.lanes = c.found
    BY <1>1 DEF Connect
  <2>2. Pairs({}) = {}
    BY PairOf
  <2> QED BY <1>1, <2>1, <2>2 DEF Connecting
<1>2. CASE c.left # {}
  <2> DEFINE i == CHOOSE i \in c.left : \A j \in c.left : i <= j
             rest == c.left \ {i}
             new == {{i, j} : j \in rest}
  <2>1. c.left \subseteq CityIds /\ c.found \subseteq SUBSET CityIds
    BY DEF Calc
  <2>2. i \in c.left
    BY <1>2, <2>1, CitiesConstants, Least
  <2>3. /\ t.calc = [left |-> rest, found |-> c.found \cup new]
        /\ t.lanes = published
    BY <1>2 DEF Connect
  <2> HIDE DEF i, t
  <2>4. t.calc.left = rest /\ t.calc.found = c.found \cup new
    BY <2>3
  <2>5. new \subseteq SUBSET CityIds
    BY <2>1, <2>2
  <2>6. t.calc \in Calc
    BY <2>1, <2>3, <2>5 DEF Calc
  <2>7. c.found \cup new \subseteq Pairs(P)
    <3>1. ASSUME NEW j \in rest PROVE {i, j} \in Pairs(P)
      BY <2>2, PairIn DEF Connecting
    <3> QED BY <3>1 DEF Connecting
  <2>8. ASSUME NEW x \in Pairs(R) PROVE x \in c.found \cup new \cup Pairs(rest)
    <3>1. CASE x \in c.found
      BY <3>1
    <3>2. CASE x \in Pairs(c.left)
      <4>1. PICK a \in c.left, b \in c.left : a # b /\ x = {a, b}
        BY <3>2, PairOf
      <4>2. CASE a = i
        BY <4>1, <4>2
      <4>3. CASE b = i
        <5>1. x = {i, a} /\ a \in rest
          BY <4>1, <4>3
        <5> QED BY <5>1
      <4>4. CASE a # i /\ b # i
        <5>1. x \in Pairs(rest)
          BY <4>1, <4>4, PairIn
        <5> QED BY <5>1
      <4> QED BY <4>2, <4>3, <4>4
    <3> QED BY <3>1, <3>2 DEF Connecting
  <2>9. Connecting(t.calc, P, R)
    BY <2>4, <2>7, <2>8 DEF Connecting
  <2> QED BY <2>3, <2>6, <2>9 DEF t
<1> QED BY <1>1, <1>2

LEMMA PortFacts ==
    ASSUME city \in [CityIds -> City \cup {NoCity}]
    PROVE  ReadyPorts \subseteq Ports /\ Ports \subseteq CityIds /\ IsFiniteSet(ReadyPorts)
<1>1. ReadyPorts \subseteq Ports /\ Ports \subseteq CityIds
  BY DEF ReadyPorts, Ports, Standing
<1> QED BY <1>1, CitiesConstants, FS_Subset

\* What a step of the calculation leaves, over the ports as they stand.
Lanes(c, published) ==
    \/ c = NoCalc /\ Pairs(ReadyPorts) \subseteq published /\ published \subseteq Pairs(Ports)
    \/ c \in Calc /\ Connecting(c, Ports, ReadyPorts)

LEMMA LanesUpdate ==
    ASSUME city \in [CityIds -> City \cup {NoCity}], NEW dirty \in BOOLEAN,
           NEW c \in Calc \cup {NoCalc}, NEW published, published \subseteq SUBSET CityIds,
           ~dirty => Lanes(c, published)
    PROVE  LET t == UpdateSeaLanes(dirty, c, published)
           IN  Lanes(t.calc, t.lanes) /\ t.lanes \subseteq SUBSET CityIds
<1> DEFINE t == UpdateSeaLanes(dirty, c, published)
<1>0. SUFFICES Lanes(t.calc, t.lanes) /\ t.lanes \subseteq SUBSET CityIds
  OBVIOUS
<1>1. /\ ReadyPorts \subseteq Ports /\ Ports \subseteq CityIds /\ IsFiniteSet(ReadyPorts)
      /\ Cardinality(ReadyPorts) \in Nat
  BY PortFacts, FS_CardinalityType
<1>2. ASSUME NEW d \in Calc, Connecting(d, Ports, ReadyPorts), t = Connect(d, published)
      PROVE  Lanes(t.calc, t.lanes) /\ t.lanes \subseteq SUBSET CityIds
  <2> HIDE DEF t
  <2>1. \/ /\ t.calc = NoCalc /\ Pairs(ReadyPorts) \subseteq t.lanes /\ t.lanes \subseteq Pairs(Ports)
        \/ t.calc \in Calc /\ Connecting(t.calc, Ports, ReadyPorts) /\ t.lanes = published
    BY <1>1, <1>2, ConnectTurn
  <2> QED BY <1>1, <2>1, PairsInIds DEF Lanes
<1>3. CASE dirty /\ Cardinality(ReadyPorts) < 2
  <2>1. t = [calc |-> NoCalc, lanes |-> {}]
    BY <1>1, <1>3 DEF UpdateSeaLanes
  <2>2. t.calc = NoCalc /\ t.lanes = {}
    BY <2>1
  <2>3. Pairs(ReadyPorts) = {}
    BY <1>1, <1>3, FewPairs
  <2> HIDE DEF t
  <2> QED BY <2>2, <2>3 DEF Lanes
<1>4. CASE dirty /\ Cardinality(ReadyPorts) >= 2
  <2> DEFINE d == [left |-> ReadyPorts, found |-> {}]
  <2>1. t = Connect(d, published)
    BY <1>1, <1>4 DEF UpdateSeaLanes
  <2>2. d \in Calc /\ Connecting(d, Ports, ReadyPorts)
    BY <1>1 DEF Calc, Connecting
  <2> HIDE DEF d, t
  <2> QED BY <1>2, <2>1, <2>2
<1>5. CASE ~dirty /\ c # NoCalc
  <2>1. t = Connect(c, published)
    BY <1>5 DEF UpdateSeaLanes
  <2>2. c \in Calc /\ Connecting(c, Ports, ReadyPorts)
    BY <1>5 DEF Lanes
  <2> QED BY <1>2, <2>1, <2>2
<1>6. CASE ~dirty /\ c = NoCalc
  <2>1. t = [calc |-> NoCalc, lanes |-> published]
    BY <1>6 DEF UpdateSeaLanes
  <2>2. t.calc = NoCalc /\ t.lanes = published
    BY <2>1
  <2> HIDE DEF t
  <2> QED BY <1>6, <2>2, CitiesConstants DEF Lanes
<1> HIDE DEF t
<1> QED BY <1>1, <1>3, <1>4, <1>5, <1>6

\* The lanes and the calculation, unless they are marked.
LanesGood ==
    /\ lanes \subseteq SUBSET CityIds
    /\ calc \in Calc \cup {NoCalc}
    /\ ~lanesDirty => Lanes(calc, lanes)

LEMMA LanesGoodIs ==
    ASSUME lanesDirty \in BOOLEAN, lanes \subseteq SUBSET CityIds, calc \in Calc \cup {NoCalc}
    PROVE  LanesGood <=> LanesJoinPorts /\ LanesUnderWay
BY CitiesConstants DEF LanesGood, Lanes, LanesJoinPorts, LanesUnderWay, Connecting

\* A step that touches neither, and no port but to take it out of those ready.
LEMMA LanesKept ==
    ASSUME LanesGood, UNCHANGED <<lanes, calc>>, ~lanesDirty' => ~lanesDirty,
           ~lanesDirty' => Ports' = Ports /\ ReadyPorts' \subseteq ReadyPorts
    PROVE  LanesGood'
<1>1. CASE lanesDirty'
  BY <1>1 DEF LanesGood
<1>2. CASE ~lanesDirty'
  <2>1. Lanes(calc, lanes)
    BY <1>2 DEF LanesGood
  <2>2. Pairs(ReadyPorts') \subseteq Pairs(ReadyPorts)
    BY <1>2, PairsMono
  <2>3. Lanes(calc, lanes)'
    BY <1>2, <2>1, <2>2 DEF Lanes, Connecting
  <2> QED BY <2>3 DEF LanesGood
<1> QED BY <1>1, <1>2

\* execute_income.
LEMMA LanesIncome ==
    ASSUME LanesGood, city \in [CityIds -> City \cup {NoCity}], lanesDirty \in BOOLEAN, Income,
           ~lanesDirty' => UNCHANGED city
    PROVE  LanesGood'
<1> DEFINE running == calc # NoCalc
           first == IF running THEN UpdateSeaLanes(lanesDirty, calc, lanes)
                               ELSE [calc |-> calc, lanes |-> lanes]
           stale == lanesDirty /\ ~running
           second == IF stale THEN UpdateSeaLanes(TRUE, first.calc, first.lanes) ELSE first
<1>1. calc' = second.calc /\ lanes' = second.lanes
  BY DEF Income
<1>2. Lanes(second.calc, second.lanes) /\ second.lanes \subseteq SUBSET CityIds
  <2>1. CASE running
    <3>1. second = UpdateSeaLanes(lanesDirty, calc, lanes)
      BY <2>1
    <3> HIDE DEF second
    <3> QED BY <3>1, LanesUpdate DEF LanesGood
  <2>2. CASE stale
    <3>1. first.calc = calc /\ first.lanes = lanes
      BY <2>2
    <3>2. second = UpdateSeaLanes(TRUE, calc, lanes)
      BY <2>2, <3>1
    <3> HIDE DEF second
    <3> QED BY <3>2, LanesUpdate DEF LanesGood
  <2>3. CASE ~running /\ ~stale
    <3>1. second = [calc |-> calc, lanes |-> lanes]
      BY <2>3
    <3> HIDE DEF second
    <3>2. second.calc = calc /\ second.lanes = lanes
      BY <3>1
    <3> QED BY <2>3, <3>2 DEF LanesGood
  <2> QED BY <2>1, <2>2, <2>3
<1> HIDE DEF second
<1>3. calc' \in Calc \cup {NoCalc} /\ lanes' \subseteq SUBSET CityIds
  BY <1>1, <1>2 DEF Lanes
<1>4. ASSUME ~lanesDirty' PROVE Lanes(calc, lanes)'
  <2>1. city' = city
    BY <1>4
  <2>2. Ports' = Ports /\ ReadyPorts' = ReadyPorts
    BY <2>1 DEF Ports, ReadyPorts, Standing, Busy
  <2> QED BY <1>1, <1>2, <2>2 DEF Lanes, Connecting
<1> QED BY <1>3, <1>4 DEF LanesGood

---------------------------------------------------------------------------------
(* Levels.                                                                        *)

Settled == {i \in Looked : ~Busy(i)}

LEMMA ActiveFacts ==
    ASSUME city \in [CityIds -> City \cup {NoCity}]
    PROVE  /\ \A i \in Standing : Active[i] = city[i].active /\ Active[i] \in Nat
                                  /\ Active[i] <= MaxLevel
           /\ Looked \subseteq Standing /\ IsFiniteSet(Looked)
           /\ Settled \subseteq Looked /\ IsFiniteSet(Settled)
<1>1. \A i \in Standing : Active[i] = city[i].active
  BY DEF Active
<1>2. \A i \in Standing : Active[i] \in Nat /\ Active[i] <= MaxLevel
  <2>1. ASSUME NEW i \in Standing PROVE Active[i] \in Nat /\ Active[i] <= MaxLevel
    <3>1. city[i].active \in 0..MaxLevel /\ city[i].active \in Nat
      BY StandingCity
    <3> QED BY <1>1, <3>1, CitiesConstants
  <2> QED BY <2>1
<1>3. Settled \subseteq Looked /\ Looked \subseteq Standing
  BY DEF Settled, Looked
<1> QED BY <1>1, <1>2, <1>3, StandingFinite, FS_Subset

\* A player is paid for at most every level there can be.
LEMMA LevelsBounded ==
    ASSUME city \in [CityIds -> City \cup {NoCity}], NEW p
    PROVE  Levels(p) \in 0..(MaxCities * MaxLevel)
<1> DEFINE S == Holds(p)
<1>1. S \subseteq Standing /\ S \subseteq CityIds /\ IsFiniteSet(S)
  BY StandingFinite, FS_Subset DEF Holds
<1>2. \A i \in S : Active[i] \in Nat /\ Active[i] <= MaxLevel
  BY <1>1, ActiveFacts
<1>3. PICK b \in Nat : b = MaxLevel
  BY CitiesConstants
<1>4. Cardinality(S) \in Nat /\ Cardinality(S) <= MaxCities
  BY <1>1, CitiesConstants, FS_Subset, FS_CardinalityType
<1> HIDE DEF S
<1>5. SumFunctionOnSet(Active, S) <= Cardinality(S) * b /\ SumFunctionOnSet(Active, S) \in Nat
  BY <1>1, <1>2, <1>3, SumBound, SumNat
<1>6. PICK n \in Nat, m \in Nat : n = Cardinality(S) /\ m = MaxCities
  BY <1>4, CitiesConstants
<1>7. PICK k \in Nat : m = n + k
  <2>1. m - n \in Nat /\ m = n + (m - n)
    BY <1>4, <1>6
  <2> QED BY <2>1
<1>8. m * b = n * b + k * b /\ k * b \in Nat /\ n * b \in Nat /\ m * b \in Nat
  BY <1>3, <1>7
<1>9. PICK total \in Nat : total = SumFunctionOnSet(Active, S)
  BY <1>5
<1>10. total <= n * b
  BY <1>5, <1>6, <1>9
<1>11. PICK x \in Nat, y \in Nat, z \in Nat : x = m * b /\ y = n * b /\ z = k * b
  BY <1>8
<1>12. total <= x
  BY <1>8, <1>10, <1>11
<1>13. x = MaxCities * MaxLevel
  BY <1>3, <1>6, <1>11
<1> QED BY <1>9, <1>12, <1>13 DEF Levels, S

\* Taken owner by owner, the finished levels of the owners looked at are all there are
\* in their cities.
LEMMA LevelsOfAll ==
    ASSUME city \in [CityIds -> City \cup {NoCity}], NEW S
    PROVE  SumFunctionOnSet([p \in Owners |-> IF p \in S THEN Levels(p) ELSE 0], Owners)
              = SumFunctionOnSet(Active, {i \in Standing : city[i].owner \in S})
<1> DEFINE Held == {i \in Standing : city[i].owner \in S}
           of == [i \in Held |-> city[i].owner]
           group == [p \in Owners |-> SumFunctionOnSet(Active, {i \in Held : of[i] = p})]
<1>1. \A i \in Held : Active[i] \in Nat /\ of[i] \in Owners
  BY ActiveFacts, StandingCity
<1>2. IsFiniteSet(Held)
  BY StandingFinite, FS_Subset
<1>3. ASSUME NEW p \in Owners PROVE group[p] = IF p \in S THEN Levels(p) ELSE 0
  <2>1. CASE p \in S
    <3>1. {i \in Held : of[i] = p} = Holds(p)
      BY <2>1 DEF Holds
    <3> QED BY <2>1, <3>1 DEF Levels
  <2>2. CASE p \notin S
    <3>1. {i \in Held : of[i] = p} = {}
      BY <2>2
    <3> QED BY <2>2, <3>1, SumEmpty
  <2> QED BY <2>1, <2>2
<1>4. [p \in Owners |-> IF p \in S THEN Levels(p) ELSE 0] = group
  BY <1>3
<1>5. SumFunctionOnSet(group, Owners) = SumFunctionOnSet(Active, Held)
  <2> DEFINE f == Active
  <2>1. IsFiniteSet(Owners) /\ \A i \in Held : f[i] \in Nat /\ of[i] \in Owners
    BY <1>1, CitiesConstants
  <2> HIDE DEF of, Held, f
  <2>2. SumFunctionOnSet([p \in Owners |-> SumFunctionOnSet(f, {i \in Held : of[i] = p})], Owners)
          = SumFunctionOnSet(f, Held)
    BY <1>2, <2>1, SumPartition
  <2> QED BY <2>2 DEF f
<1> QED BY <1>4, <1>5

\* What income is paid from has just been brought up to date, for the owners looked at.
LEMMA LevelsFresh ==
    ASSUME city \in [CityIds -> City \cup {NoCity}], NEW S, Aggregate(S)
    PROVE  /\ aggs' \in [Owners -> 0..(MaxCities * MaxLevel)] /\ skipped' \subseteq CityIds
           /\ UNCHANGED city => LevelsCounted'
<1>1. aggs' = [p \in Owners |-> IF p \in S THEN Levels(p) ELSE 0]
  BY DEF Aggregate
<1>2. aggs' \in [Owners -> 0..(MaxCities * MaxLevel)]
  <2>1. 0 \in 0..(MaxCities * MaxLevel)
    <3>1. PICK n \in Nat : n = MaxCities * MaxLevel
      BY CitiesConstants
    <3> QED BY <3>1
  <2>2. \A p \in Owners : Levels(p) \in 0..(MaxCities * MaxLevel)
    BY LevelsBounded
  <2> QED BY <1>1, <2>1, <2>2
<1>3. skipped' \subseteq CityIds
  BY StandingFinite DEF Aggregate
<1>4. ASSUME UNCHANGED city PROVE LevelsCounted'
  <2> DEFINE Held == {i \in Standing : city[i].owner \in S}
             Done == {i \in Held : ~Busy(i)}
  <2>1. Looked' = Held /\ Settled' = Done /\ Active' = Active
    BY <1>4 DEF Aggregate, Looked, Standing, Active, Settled, Busy
  <2>2. IsFiniteSet(Held) /\ \A i \in Held : Active[i] \in Nat
    BY ActiveFacts, StandingFinite, FS_Subset
  <2>3. Done \subseteq Held
    OBVIOUS
  <2>4. SumFunctionOnSet(aggs', Owners) = SumFunctionOnSet(Active, Held)
    BY <1>1, LevelsOfAll
  <2> HIDE DEF Held, Done
  <2>5. /\ SumFunctionOnSet(Active, Done) <= SumFunctionOnSet(Active, Held)
        /\ SumFunctionOnSet(Active, Done) \in Nat /\ SumFunctionOnSet(Active, Held) \in Nat
    BY <2>2, <2>3, FS_Subset, SumSubset, SumNat
  <2>6. /\ SumFunctionOnSet(aggs', Owners) <= SumFunctionOnSet(Active', Looked')
        /\ SumFunctionOnSet(aggs', Owners) >= SumFunctionOnSet(Active', Settled')
    BY <2>1, <2>4, <2>5
  <2> QED BY <2>6 DEF LevelsCounted, Settled
<1> QED BY <1>2, <1>3, <1>4

\* A step that finishes nothing and destroys nothing, unless it marks.
LEMMA LevelsKept ==
    ASSUME city \in [CityIds -> City \cup {NoCity}], (city \in [CityIds -> City \cup {NoCity}])',
           aggs \in [Owners -> 0..(MaxCities * MaxLevel)],
           LevelsCounted, UNCHANGED <<aggs, skipped>>, ~aggsDirty' => ~aggsDirty,
           ~aggsDirty' => /\ Standing' = Standing /\ Settled' = Settled
                          /\ \A i \in Standing : city[i].active <= city'[i].active
                          /\ \A i \in Settled : city'[i].active = city[i].active
    PROVE  LevelsCounted'
<1>1. SUFFICES ASSUME ~aggsDirty' PROVE LevelsCounted'
  BY DEF LevelsCounted
<1>2. /\ \A i \in Standing : Active[i] = city[i].active /\ Active[i] \in Nat
      /\ Settled \subseteq Looked /\ IsFiniteSet(Settled)
      /\ Looked \subseteq Standing /\ IsFiniteSet(Looked) /\ Looked' = Looked
  BY <1>1, ActiveFacts DEF Looked
<1>3. \A i \in Standing : Active'[i] = city'[i].active /\ Active'[i] \in Nat
  <2>1. \A i \in Standing' : Active'[i] = city'[i].active
    BY DEF Active
  <2>2. ASSUME NEW i \in Standing' PROVE city'[i].active \in Nat
    <3>1. city'[i] \in City
      BY DEF Standing
    <3>2. city'[i].active \in 0..MaxLevel
      BY <3>1 DEF City
    <3> QED BY <3>2, CitiesConstants
  <2> QED BY <1>1, <2>1, <2>2
<1>4. /\ SumFunctionOnSet(Active, Looked) <= SumFunctionOnSet(Active', Looked)
      /\ SumFunctionOnSet(Active, Looked) \in Nat /\ SumFunctionOnSet(Active', Looked) \in Nat
  BY <1>1, <1>2, <1>3, SumMono, SumNat
<1>5. \A i \in Settled : Active[i] = Active'[i]
  BY <1>1, <1>2, <1>3
<1>6. SumFunctionOnSet(Active, Settled) = SumFunctionOnSet(Active', Settled)
  BY <1>2, <1>5, SumSame
<1>7. SumFunctionOnSet(aggs, Owners) \in Nat
  <2>1. \A p \in Owners : aggs[p] \in Nat
    BY CitiesConstants
  <2> QED BY <2>1, CitiesConstants, SumNat
<1>8. /\ SumFunctionOnSet(aggs, Owners) <= SumFunctionOnSet(Active, Looked)
      /\ SumFunctionOnSet(aggs, Owners) >= SumFunctionOnSet(Active, Settled)
  BY <1>1 DEF LevelsCounted, Settled
<1>9. /\ SumFunctionOnSet(aggs, Owners) <= SumFunctionOnSet(Active', Looked')
      /\ SumFunctionOnSet(aggs, Owners) >= SumFunctionOnSet(Active', Settled')
  BY <1>1, <1>2, <1>4, <1>6, <1>7, <1>8
<1> QED BY <1>9 DEF LevelsCounted, Settled

---------------------------------------------------------------------------------
(* The tribes' counters.                                                          *)

\* One city of a turn's changes of hands.
CountStep(p, x, i) ==
    CASE i \in Losing(p) -> IF x = 0 THEN 0 ELSE x - 1
      [] i \in Taken(p) -> x + 1
      [] OTHER -> x

IsChange(g, k, p) ==
    g = [i \in 0..k |-> IF i = 0 THEN counter[p] ELSE CountStep(p, g[i - 1], i)]

LEMMA ChangeExists ==
    ASSUME NEW p
    PROVE  \E g : IsChange(g, MaxCities, p)
<1> DEFINE G == {k \in Nat : \E g : IsChange(g, k, p)}
<1>1. 0 \in G
  <2> DEFINE g == [i \in 0..0 |-> counter[p]]
  <2>1. g = [i \in 0..0 |-> IF i = 0 THEN counter[p] ELSE CountStep(p, g[i - 1], i)]
    OBVIOUS
  <2> QED BY <2>1 DEF IsChange
<1>2. ASSUME NEW k \in Nat, k \in G PROVE k + 1 \in G
  <2>1. PICK g : IsChange(g, k, p)
    BY <1>2
  <2> DEFINE h == [i \in 0..(k + 1) |-> IF i = 0 THEN counter[p] ELSE CountStep(p, g[i - 1], i)]
  <2>2. \A i \in 0..k : i \in 0..(k + 1) /\ h[i] = g[i]
    BY <2>1 DEF IsChange
  <2>3. ASSUME NEW i \in 0..(k + 1), i # 0
        PROVE  CountStep(p, g[i - 1], i) = CountStep(p, h[i - 1], i)
    <3>1. i - 1 \in 0..k
      BY <2>3
    <3>2. h[i - 1] = g[i - 1]
      BY <2>2, <3>1
    <3> QED BY <3>2
  <2>4. h = [i \in 0..(k + 1) |-> IF i = 0 THEN counter[p] ELSE CountStep(p, h[i - 1], i)]
    BY <2>3
  <2> HIDE DEF h
  <2> QED BY <2>4 DEF IsChange
<1> HIDE DEF G
<1>3. 0..MaxCities \subseteq G
  BY <1>1, <1>2, CitiesConstants, UptoInduction
<1>4. MaxCities \in 0..MaxCities
  BY CitiesConstants
<1> QED BY <1>3, <1>4 DEF G

\* saturating_sub and += leave a counter at no more than it may stand for.
LEMMA CountedPaid ==
    ASSUME CitiesTypeOK, Unbuilt, CounterPaid, Sync, NEW p \in Tribes
    PROVE  Counted(p) \in Nat /\ Counted(p) <= Cardinality(Credit(p)')
<1> DEFINE g == CHOOSE g : IsChange(g, MaxCities, p)
           lost(k) == {i \in Losing(p) : i <= k}
           won(k) == {i \in Taken(p) : i <= k}
           A(k) == (Credit(p) \ lost(k)) \cup won(k)
           G == {k \in 0..MaxCities : g[k] \in Nat /\ g[k] <= Cardinality(A(k))}
<1>1. Counted(p) = g[MaxCities]
  BY DEF Counted, IsChange, CountStep
<1>2. IsChange(g, MaxCities, p)
  BY ChangeExists
<1> HIDE DEF g
<1>3. /\ 0 \in 0..MaxCities /\ MaxCities \in 0..MaxCities /\ MaxCities \in Nat
      /\ g[0] = counter[p]
      /\ \A i \in 0..MaxCities : i # 0 => g[i] = CountStep(p, g[i - 1], i)
  BY <1>2, CitiesConstants DEF IsChange
<1>4. /\ Credit(p) \subseteq CityIds /\ Taken(p) \subseteq CityIds /\ Losing(p) \subseteq CityIds
  BY DEF Credit, Taken, Losing, Holds, Standing
<1>5. \A k : A(k) \subseteq CityIds /\ IsFiniteSet(A(k)) /\ Cardinality(A(k)) \in Nat
  <2>1. \A k : A(k) \subseteq CityIds
    BY <1>4
  <2> HIDE DEF A
  <2> QED BY <2>1, CitiesConstants, FS_Subset, FS_CardinalityType
<1>6. /\ Losing(p) \subseteq Credit(p)
      /\ Taken(p) \cap Credit(p) = {}
      /\ Taken(p) \cap Losing(p) = {}
  BY DEF Losing, Taken, Credit, Holds, Standing, Moved, Unbuilt, CitiesTypeOK, CityIds
<1>7. 0 \in G
  <2>1. A(0) = Credit(p)
    BY <1>4 DEF CityIds
  <2>2. counter[p] \in Nat /\ counter[p] <= Cardinality(Credit(p))
    BY CitiesConstants DEF CitiesTypeOK, CounterPaid
  <2> QED BY <1>3, <2>1, <2>2
<1>8. ASSUME NEW k \in 0..(MaxCities - 1), k \in G PROVE k + 1 \in G
  <2>1. /\ k + 1 \in 0..MaxCities /\ k + 1 # 0 /\ (k + 1) - 1 = k /\ k \in Nat
        /\ \A i \in Nat : i <= k + 1 <=> i <= k \/ i = k + 1
        /\ ~(k + 1 <= k)
    BY <1>3, <1>8
  <2>2. PICK x \in Nat : x = g[k]
    BY <1>8
  <2>3. g[k + 1] = CountStep(p, x, k + 1)
    BY <1>3, <2>1, <2>2
  <2>4. x <= Cardinality(A(k)) /\ Cardinality(A(k)) \in Nat /\ Cardinality(A(k + 1)) \in Nat
    BY <1>5, <1>8, <2>2
  <2>5. CASE k + 1 \in Losing(p)
    <3>1. A(k + 1) = A(k) \ {k + 1} /\ k + 1 \in A(k)
      BY <1>4, <1>6, <2>1, <2>5, CitiesConstants
    <3>2. Cardinality(A(k + 1)) = Cardinality(A(k)) - 1
      <4> HIDE DEF A
      <4> QED BY <1>5, <3>1, FS_RemoveElement
    <3>3. g[k + 1] = IF x = 0 THEN 0 ELSE x - 1
      BY <1>6, <2>3, <2>5 DEF CountStep
    <3> HIDE DEF A
    <3>4. g[k + 1] \in Nat /\ g[k + 1] <= Cardinality(A(k + 1))
      BY <2>2, <2>4, <3>2, <3>3
    <3> QED BY <2>1, <3>4
  <2>6. CASE k + 1 \in Taken(p)
    <3>1. A(k + 1) = A(k) \cup {k + 1} /\ k + 1 \notin A(k)
      BY <1>4, <1>6, <2>1, <2>6, CitiesConstants
    <3>2. Cardinality(A(k + 1)) = Cardinality(A(k)) + 1
      <4> HIDE DEF A
      <4> QED BY <1>5, <3>1, FS_AddElement
    <3>3. g[k + 1] = x + 1
      BY <1>6, <2>3, <2>6 DEF CountStep
    <3> HIDE DEF A
    <3>4. g[k + 1] \in Nat /\ g[k + 1] <= Cardinality(A(k + 1))
      BY <2>2, <2>4, <3>2, <3>3
    <3> QED BY <2>1, <3>4
  <2>7. CASE k + 1 \notin Losing(p) /\ k + 1 \notin Taken(p)
    <3>1. A(k + 1) = A(k)
      BY <1>4, <2>1, <2>7, CitiesConstants
    <3>2. g[k + 1] = x
      BY <2>3, <2>7 DEF CountStep
    <3> QED BY <2>1, <2>2, <2>4, <3>1, <3>2
  <2> QED BY <2>5, <2>6, <2>7
<1> HIDE DEF G
<1>9. MaxCities \in G
  BY <1>3, <1>7, <1>8, UptoInduction
<1>10. A(MaxCities) = Credit(p)'
  <2>1. lost(MaxCities) = Losing(p) /\ won(MaxCities) = Taken(p)
    BY <1>4 DEF CityIds
  <2>2. ASSUME NEW i \in CityIds PROVE i \in (Credit(p) \ Losing(p)) \cup Taken(p) <=> i \in Credit(p)'
    <3>1. nextId' = nextId
      BY DEF Sync
    <3>2. city'[i] = IF Moved(i) THEN [city[i] EXCEPT !.owner = land[city[i].tile]] ELSE city[i]
      BY <2>2 DEF Sync
    <3>3. CASE ~Moved(i)
      <4>1. i \notin Losing(p) /\ i \notin Taken(p) /\ city'[i] = city[i]
        BY <3>2, <3>3 DEF Losing, Taken
      <4> QED BY <3>1, <4>1 DEF Credit
    <3>4. CASE Moved(i)
      <4>1. i \in Standing /\ city[i] \in City /\ city[i] # NoCity /\ i < nextId
        BY <3>4, CitiesConstants DEF Moved, Standing, CitiesTypeOK, Unbuilt, CityIds
      <4>2. land[city[i].tile] \in Owners
        BY <4>1, <3>4, StandingCity DEF Moved, CitiesTypeOK
      <4>3. city'[i].owner = land[city[i].tile] /\ city'[i] \in City
        BY <3>2, <3>4, <4>1, <4>2 DEF City
      <4>4. city'[i] # NoCity
        BY <4>3, CitiesConstants
      <4>5. i \in Credit(p)' <=> land[city[i].tile] = p
        BY <3>1, <4>1, <4>3, <4>4 DEF Credit
      <4>6. i \in Taken(p) <=> land[city[i].tile] = p
        BY <3>4 DEF Taken
      <4>7. i \in Losing(p) <=> city[i].owner = p
        BY <3>4, <4>1 DEF Losing, Holds
      <4>8. i \in Credit(p) <=> city[i].owner = p
        BY <4>1 DEF Credit
      <4> QED BY <4>5, <4>6, <4>7, <4>8
    <3> QED BY <3>3, <3>4
  <2>3. Credit(p)' \subseteq CityIds
    BY DEF Credit
  <2> QED BY <1>4, <2>1, <2>2, <2>3
<1> QED BY <1>1, <1>9, <1>10 DEF G

---------------------------------------------------------------------------------
(* Cities: the steps.                                                             *)

LEMMA CreditFinite ==
    \A p : Credit(p) \subseteq CityIds /\ IsFiniteSet(Credit(p))
           /\ Cardinality(Credit(p)) \in Nat /\ Cardinality(Credit(p)) <= MaxCities
<1>1. ASSUME NEW p PROVE Credit(p) \subseteq CityIds
  BY DEF Credit
<1> QED BY <1>1, CitiesConstants, FS_Subset, FS_CardinalityType

\* The invariant, part by part.
LandTypes ==
    /\ step \in {"orders", "plan", "think", "strike", "fight", "sea"}
    /\ land \in [Tiles -> Owners \cup {Nobody}]
    /\ living \subseteq Owners
    /\ sailors \subseteq Owners /\ flight \subseteq Tiles

CityTypes ==
    /\ city \in [CityIds -> City \cup {NoCity}]
    /\ \A i \in Standing : city[i].active <= city[i].level
    /\ nextId \in 1 .. MaxCities + 1
    /\ Unbuilt

Counters == counter \in [Tribes -> Nat] /\ CounterPaid

Paid ==
    /\ aggs \in [Owners -> 0 .. MaxCities * MaxLevel] /\ skipped \subseteq CityIds
    /\ LevelsCounted

Flagged == aggsDirty \in BOOLEAN /\ lanesDirty \in BOOLEAN

LEMMA CitiesParts ==
    CitiesInv <=> LandTypes /\ CityTypes /\ Counters /\ Paid /\ Flagged /\ LanesGood
<1>1. CitiesInv => LandTypes /\ CityTypes /\ Counters /\ Paid /\ Flagged /\ LanesGood
  <2>1. SUFFICES ASSUME CitiesInv
                 PROVE  LandTypes /\ CityTypes /\ Counters /\ Paid /\ Flagged /\ LanesGood
    OBVIOUS
  <2>2. LandTypes /\ CityTypes
    BY <2>1 DEF CitiesInv, CitiesTypeOK, LandTypes, CityTypes
  <2>3. Counters
    <3>1. counter \in [Tribes -> Nat]
      BY <2>1, CitiesConstants DEF CitiesInv, CitiesTypeOK
    <3> QED BY <2>1, <3>1 DEF CitiesInv, Counters
  <2>4. Paid /\ Flagged
    BY <2>1 DEF CitiesInv, CitiesTypeOK, Paid, Flagged, DerivedCurrent
  <2>5. LanesGood
    BY <2>1, LanesGoodIs DEF CitiesInv, CitiesTypeOK, DerivedCurrent
  <2> QED BY <2>2, <2>3, <2>4, <2>5
<1>2. LandTypes /\ CityTypes /\ Counters /\ Paid /\ Flagged /\ LanesGood => CitiesInv
  <2>1. SUFFICES ASSUME LandTypes, CityTypes, Counters, Paid, Flagged, LanesGood
                 PROVE  CitiesInv
    OBVIOUS
  <2>2. counter \in [Tribes -> 0 .. MaxCities]
    <3>1. \A p \in Tribes : counter[p] \in 0 .. MaxCities
      BY <2>1, CreditFinite, CitiesConstants DEF Counters, CounterPaid
    <3> QED BY <2>1, <3>1 DEF Counters
  <2>3. CitiesTypeOK
    BY <2>1, <2>2 DEF LandTypes, CityTypes, Paid, Flagged, LanesGood, CitiesTypeOK
  <2>4. LanesJoinPorts /\ LanesUnderWay
    BY <2>1, LanesGoodIs DEF Flagged, LanesGood
  <2> QED BY <2>1, <2>3, <2>4 DEF CitiesInv, CityTypes, Counters, Paid, DerivedCurrent
<1> QED BY <1>1, <1>2

\* A counter that stays pays for no more than before, if no credit is lost.
LEMMA CreditKept ==
    ASSUME Counters, UNCHANGED counter, \A p \in Tribes : Credit(p) \subseteq Credit(p)'
    PROVE  Counters'
<1>1. ASSUME NEW p \in Tribes PROVE counter'[p] <= Cardinality(Credit(p)')
  <2> DEFINE S == Credit(p)
             T == Credit(p)'
  <2>1. S \subseteq T /\ T \subseteq CityIds
    BY DEF Credit
  <2>2. counter[p] \in Nat /\ counter[p] <= Cardinality(S)
    BY DEF Counters, CounterPaid
  <2> HIDE DEF S, T
  <2>3. IsFiniteSet(T)
    BY <2>1, CitiesConstants, FS_Subset
  <2>4. Cardinality(S) <= Cardinality(T) /\ Cardinality(S) \in Nat /\ Cardinality(T) \in Nat
    BY <2>1, <2>3, FS_Subset, FS_CardinalityType
  <2>5. counter'[p] <= Cardinality(T)
    BY <2>2, <2>4
  <2> QED BY <2>5 DEF T
<1> QED BY <1>1 DEF Counters, CounterPaid

\* Land changes hands, fleets and nukes move: the cities do not.
LEMMA CitiesQuiet ==
    ASSUME CitiesInv, UNCHANGED <<city, nextId, counter, aggs, skipped, aggsDirty, laneVars>>, LandTypes'
    PROVE  CitiesInv'
<1>1. CityTypes /\ Counters /\ Paid /\ Flagged /\ LanesGood
  BY CitiesParts
<1>2. Standing' = Standing /\ \A i : Busy(i)' = Busy(i)
  BY DEF Standing, Busy
<1>3. CityTypes' /\ Flagged'
  BY <1>1, <1>2 DEF CityTypes, Flagged, Unbuilt, laneVars
<1>4. Counters'
  BY <1>1 DEF Counters, CounterPaid, Credit
<1>5. Active' = Active /\ Ports' = Ports /\ ReadyPorts' = ReadyPorts
  BY <1>2 DEF Active, Ports, ReadyPorts
<1>6. Paid'
  BY <1>1, <1>2, <1>5 DEF Paid, LevelsCounted, Looked
<1>7. LanesGood'
  BY <1>1, <1>5, LanesKept DEF laneVars
<1>8. CitiesInv' <=> (LandTypes /\ CityTypes /\ Counters /\ Paid /\ Flagged /\ LanesGood)'
  BY CitiesParts, PTL
<1> QED BY <1>3, <1>4, <1>6, <1>7, <1>8

LEMMA CitiesQuietSteps ==
    ASSUME CitiesInv, NEW p \in Owners, NEW t \in Tiles,
           LaunchNuke(p, t) \/ Conquer(p, t) \/ Disembark(p, t)
    PROVE  CitiesInv'
<1>1. UNCHANGED <<city, nextId, counter, aggs, skipped, aggsDirty, laneVars>>
  BY DEF LaunchNuke, Conquer, Disembark
<1>2. LandTypes
  BY CitiesParts
<1>3. LandTypes'
  <2>1. CASE LaunchNuke(p, t)
    BY <1>2, <2>1 DEF LaunchNuke, LandTypes, landVars
  <2>2. CASE Conquer(p, t)
    BY <1>2, <2>2 DEF Conquer, LandTypes
  <2>3. CASE Disembark(p, t)
    BY <1>2, <2>3 DEF Disembark, LandTypes
  <2> QED BY <2>1, <2>2, <2>3
<1> QED BY <1>1, <1>3, CitiesQuiet

\* What marks both needs to look after the types and the counters only.
LEMMA CitiesMarked ==
    ASSUME CitiesInv, (LandTypes /\ CityTypes /\ Counters)', UNCHANGED <<aggs, skipped, lanes, calc>>,
           aggsDirty' = TRUE,
           lanesDirty' = TRUE \/ /\ lanesDirty' = lanesDirty
                                 /\ Ports' = Ports /\ ReadyPorts' \subseteq ReadyPorts
    PROVE  CitiesInv'
<1>1. Paid /\ Flagged /\ LanesGood
  BY CitiesParts
<1>2. Paid'
  BY <1>1 DEF Paid, LevelsCounted
<1>3. Flagged'
  BY <1>1 DEF Flagged
<1>4. LanesGood'
  BY <1>1, LanesKept
<1>5. CitiesInv' <=> (LandTypes /\ CityTypes /\ Counters /\ Paid /\ Flagged /\ LanesGood)'
  BY CitiesParts, PTL
<1> QED BY <1>2, <1>3, <1>4, <1>5

LEMMA CitiesStack ==
    ASSUME CitiesInv, NEW p \in Owners, NEW i \in CityIds, Stack(p, i)
    PROVE  CitiesInv'
<1>1. LandTypes /\ CityTypes /\ Counters /\ Flagged
  BY CitiesParts
<1> DEFINE c == [city[i] EXCEPT !.level = @ + 1]
<1>2. i \in Standing /\ city[i].level < MaxLevel /\ city' = [city EXCEPT ![i] = c]
  BY DEF Stack, Holds
<1>3. /\ city[i] \in City /\ city[i] # NoCity
      /\ city[i].level \in 1..MaxLevel /\ city[i].active \in 0..MaxLevel
      /\ city[i].active <= city[i].level
  BY <1>1, <1>2, StandingCity DEF CityTypes
<1>4. /\ c \in City /\ c.owner = city[i].owner /\ c.active = city[i].active /\ c.port = city[i].port
      /\ c.level = city[i].level + 1
  BY <1>2, <1>3, CitiesConstants DEF City
<1>5. c # NoCity
  BY <1>4, CitiesConstants
<1> HIDE DEF c
<1>6. /\ city' \in [CityIds -> City \cup {NoCity}]
      /\ city'[i] = c /\ \A j \in CityIds \ {i} : city'[j] = city[j]
  BY <1>1, <1>2, <1>4 DEF CityTypes
<1>7. Standing' = Standing
  BY <1>2, <1>5, <1>6 DEF Standing
<1>8. /\ \A j \in Standing : /\ city'[j].active = city[j].active /\ city'[j].owner = city[j].owner
                             /\ city'[j].port = city[j].port
                             /\ city[j].level <= city'[j].level
      /\ \A j \in Standing \ {i} : city'[j] = city[j]
  <2>1. Standing \subseteq CityIds
    BY StandingFinite
  <2>2. \A j \in Standing : city[j].level \in Nat
    BY <1>1, StandingCity DEF CityTypes
  <2> QED BY <1>4, <1>6, <2>1, <2>2
<1>9. UNCHANGED <<step, landVars, counter, aggs, skipped, laneVars, flight, nextId>> /\ aggsDirty' = TRUE
  BY DEF Stack
<1>10. LandTypes'
  BY <1>1, <1>9 DEF LandTypes, landVars
<1>11. CityTypes'
  <2>1. ASSUME NEW j \in Standing' PROVE city'[j].active <= city'[j].level
    <3>1. CASE j = i
      BY <1>3, <1>4, <1>6, <3>1
    <3>2. CASE j # i
      BY <1>1, <1>7, <1>8, <3>2 DEF CityTypes
    <3> QED BY <3>1, <3>2
  <2>2. Unbuilt'
    BY <1>1, <1>2, <1>6, <1>9 DEF CityTypes, Unbuilt, Standing
  <2> QED BY <1>1, <1>6, <1>9, <2>1, <2>2 DEF CityTypes
<1>12. Counters'
  <2>1. \A q \in Tribes : Credit(q) \subseteq Credit(q)'
    BY <1>2, <1>4, <1>6, <1>9 DEF Credit, Standing
  <2> QED BY <1>1, <1>9, <2>1, CreditKept
<1>13. Ports' = Ports /\ ReadyPorts' \subseteq ReadyPorts
  <2>1. Ports' = Ports
    BY <1>7, <1>8 DEF Ports
  <2>2. ASSUME NEW j \in ReadyPorts' PROVE j \in ReadyPorts
    <3>1. j \in Ports /\ j \in Standing /\ ~Busy(j)'
      BY <2>1, <2>2 DEF ReadyPorts, Ports
    <3>2. city[j].level \in Nat /\ city[j].active \in Nat /\ city'[j].level \in Nat
      BY <1>1, <1>3, <1>4, <1>6, <1>8, <3>1, StandingCity DEF CityTypes
    <3>3. ~Busy(j)
      BY <1>8, <3>1, <3>2 DEF Busy
    <3> QED BY <3>1, <3>3 DEF ReadyPorts
  <2> QED BY <2>1, <2>2
<1> QED BY <1>9, <1>10, <1>11, <1>12, <1>13, CitiesMarked DEF laneVars

LEMMA CitiesAddPort ==
    ASSUME CitiesInv, NEW p \in Owners, NEW i \in CityIds, AddPort(p, i)
    PROVE  CitiesInv'
<1>1. LandTypes /\ CityTypes /\ Counters /\ Flagged
  BY CitiesParts
<1> DEFINE c == [city[i] EXCEPT !.port = TRUE]
<1>2. i \in Standing /\ city' = [city EXCEPT ![i] = c]
  BY DEF AddPort, Holds
<1>3. city[i] \in City /\ city[i] # NoCity
  BY <1>1, <1>2, StandingCity DEF CityTypes
<1>4. c \in City /\ c.owner = city[i].owner /\ c.active = city[i].active /\ c.level = city[i].level
  BY <1>3 DEF City
<1>5. c # NoCity
  BY <1>4, CitiesConstants
<1> HIDE DEF c
<1>6. /\ city' \in [CityIds -> City \cup {NoCity}]
      /\ city'[i] = c /\ \A j \in CityIds \ {i} : city'[j] = city[j]
  BY <1>1, <1>2, <1>4 DEF CityTypes
<1>7. Standing' = Standing
  BY <1>2, <1>5, <1>6 DEF Standing
<1>8. /\ UNCHANGED <<step, landVars, counter, aggs, skipped, lanes, calc, flight, nextId>>
      /\ aggsDirty' = TRUE /\ lanesDirty' = TRUE
  BY DEF AddPort
<1>9. LandTypes'
  BY <1>1, <1>8 DEF LandTypes, landVars
<1>10. CityTypes'
  <2>1. ASSUME NEW j \in Standing' PROVE city'[j].active <= city'[j].level
    <3>1. j \in CityIds /\ city[j].active <= city[j].level
      BY <1>1, <1>7, StandingFinite DEF CityTypes
    <3> QED BY <1>4, <1>6, <3>1
  <2>2. Unbuilt'
    BY <1>1, <1>2, <1>6, <1>8 DEF CityTypes, Unbuilt, Standing
  <2> QED BY <1>1, <1>6, <1>8, <2>1, <2>2 DEF CityTypes
<1>11. Counters'
  <2>1. \A q \in Tribes : Credit(q) \subseteq Credit(q)'
    BY <1>2, <1>4, <1>6, <1>8 DEF Credit, Standing
  <2> QED BY <1>1, <1>8, <2>1, CreditKept
<1> QED BY <1>8, <1>9, <1>10, <1>11, CitiesMarked

\* A new city is the next one.
LEMMA Founded ==
    ASSUME CityTypes, NEW p \in Owners, NEW t \in Tiles, NEW a \in {0, 1}, AddCity(p, t, a)
    PROVE  CityTypes' /\ \A q : Credit(q) \subseteq Credit(q)' /\ nextId \notin Credit(q)
                               /\ (q = p => nextId \in Credit(q)')
<1> DEFINE c == [owner |-> p, tile |-> t, level |-> 1, active |-> a, port |-> FALSE]
<1>1. nextId \in CityIds /\ nextId' = nextId + 1 /\ city' = [city EXCEPT ![nextId] = c]
  BY DEF AddCity
<1>2. c \in City /\ c.owner = p /\ c.active <= c.level
  <2>1. 1 \in 1..MaxLevel /\ a \in 0..MaxLevel
    BY CitiesConstants
  <2> QED BY <2>1 DEF City
<1>3. c # NoCity
  BY <1>2, CitiesConstants
<1> HIDE DEF c
<1>4. /\ city' \in [CityIds -> City \cup {NoCity}]
      /\ city'[nextId] = c /\ \A j \in CityIds \ {nextId} : city'[j] = city[j]
  BY <1>1, <1>2 DEF CityTypes
<1>5. nextId \in Nat /\ nextId' \in 1 .. MaxCities + 1
  BY <1>1, CitiesConstants DEF CityIds
<1>6. \A j \in Standing' : city'[j].active <= city'[j].level
  BY <1>2, <1>4 DEF CityTypes, Standing
<1>7. Unbuilt'
  <2>1. ASSUME NEW i \in CityIds, i >= nextId' PROVE city'[i] = NoCity
    <3>1. i # nextId /\ i >= nextId
      BY <1>1, <1>5, <2>1, CitiesConstants
    <3> QED BY <1>4, <3>1 DEF CityTypes, Unbuilt
  <2> QED BY <2>1 DEF Unbuilt
<1>8. ASSUME NEW q
      PROVE  Credit(q) \subseteq Credit(q)' /\ nextId \notin Credit(q) /\ (q = p => nextId \in Credit(q)')
  <2>1. nextId \notin Credit(q)
    BY <1>5 DEF Credit
  <2>2. ASSUME NEW i \in Credit(q) PROVE i \in Credit(q)'
    <3>1. i \in CityIds /\ i # nextId /\ i < nextId' /\ city'[i] = city[i]
      BY <1>1, <1>4, <1>5, <2>1, <2>2, CitiesConstants DEF Credit
    <3> QED BY <2>2, <3>1 DEF Credit
  <2>3. q = p => nextId \in Credit(q)'
    BY <1>1, <1>2, <1>4, <1>5 DEF Credit
  <2> QED BY <2>1, <2>2, <2>3
<1>9. CityTypes'
  BY <1>4, <1>5, <1>6, <1>7 DEF CityTypes
<1> QED BY <1>8, <1>9

LEMMA CitiesFound ==
    ASSUME CitiesInv, NEW p \in Owners, NEW t \in Tiles, Found(p, t)
    PROVE  CitiesInv'
<1>1. LandTypes /\ CityTypes /\ Counters /\ Flagged
  BY CitiesParts
<1>2. /\ UNCHANGED <<step, landVars, counter, aggs, skipped, laneVars, flight>>
      /\ aggsDirty' = TRUE /\ AddCity(p, t, 0)
  BY DEF Found
<1>3. CityTypes' /\ \A q : Credit(q) \subseteq Credit(q)'
  BY <1>1, <1>2, Founded
<1>4. LandTypes'
  BY <1>1, <1>2 DEF LandTypes, landVars
<1>5. Counters'
  BY <1>1, <1>2, <1>3, CreditKept
<1>6. Ports' = Ports /\ ReadyPorts' \subseteq ReadyPorts
  <2> DEFINE c == [owner |-> p, tile |-> t, level |-> 1, active |-> 0, port |-> FALSE]
  <2>1. nextId \in CityIds /\ city' = [city EXCEPT ![nextId] = c] /\ c.port = FALSE
    BY <1>2 DEF AddCity
  <2> HIDE DEF c
  <2>2. city'[nextId] = c /\ \A j \in CityIds \ {nextId} : city'[j] = city[j]
    BY <1>1, <2>1 DEF CityTypes
  <2>3. city[nextId] = NoCity
    BY <1>1, <2>1, CitiesConstants DEF CityTypes, Unbuilt
  <2>4. Ports' = Ports
    <3>1. ASSUME NEW j \in Ports' PROVE j \in Ports
      <4>1. j \in CityIds /\ city'[j] # NoCity /\ city'[j].port
        BY <3>1 DEF Ports, Standing
      <4>2. j # nextId
        BY <2>1, <2>2, <4>1
      <4> QED BY <2>2, <4>1, <4>2 DEF Ports, Standing
    <3>2. ASSUME NEW j \in Ports PROVE j \in Ports'
      BY <2>2, <2>3, <3>2 DEF Ports, Standing
    <3> QED BY <3>1, <3>2
  <2>5. nextId \notin Ports
    BY <2>3 DEF Ports, Standing
  <2>6. \A j \in Ports : city'[j] = city[j]
    BY <2>2, <2>5 DEF Ports, Standing
  <2> QED BY <2>4, <2>6 DEF ReadyPorts, Busy
<1> QED BY <1>2, <1>3, <1>4, <1>5, <1>6, CitiesMarked DEF laneVars

LEMMA CitiesPlan ==
    ASSUME CitiesInv, Plan
    PROVE  CitiesInv'
<1>1. LandTypes /\ CityTypes /\ Counters /\ Paid /\ Flagged /\ LanesGood
  BY CitiesParts
<1>2. /\ step' = "think" /\ UNCHANGED <<landVars, city, counter, laneVars, flight, nextId>>
      /\ \/ UNCHANGED <<aggs, skipped, aggsDirty>>
         \/ aggsDirty' = FALSE /\ \E S : Aggregate(S)
  BY DEF Plan
<1>3. Paid'
  <2>1. CASE UNCHANGED <<aggs, skipped, aggsDirty>>
    BY <1>1, <1>2, <2>1 DEF Paid, LevelsCounted, Looked, Standing, Busy, Active
  <2>2. ASSUME aggsDirty' = FALSE, NEW S, Aggregate(S) PROVE Paid'
    BY <1>1, <1>2, <2>2, LevelsFresh DEF CityTypes, Paid
  <2> QED BY <1>2, <2>1, <2>2
<1>4. Standing' = Standing /\ \A i : Busy(i)' = Busy(i)
  BY <1>2 DEF Standing, Busy
<1>5. LandTypes' /\ CityTypes' /\ Flagged'
  BY <1>1, <1>2, <1>4 DEF LandTypes, CityTypes, Flagged, Unbuilt, landVars, laneVars
<1>6. Counters'
  BY <1>1, <1>2 DEF Counters, CounterPaid, Credit
<1>7. LanesGood'
  <2>1. Ports' = Ports /\ ReadyPorts' = ReadyPorts
    BY <1>2, <1>4 DEF Ports, ReadyPorts
  <2> QED BY <1>1, <1>2, <2>1, LanesKept DEF laneVars
<1>8. CitiesInv' <=> (LandTypes /\ CityTypes /\ Counters /\ Paid /\ Flagged /\ LanesGood)'
  BY CitiesParts, PTL
<1> QED BY <1>3, <1>5, <1>6, <1>7, <1>8

LEMMA CitiesConstruct ==
    ASSUME CitiesInv, NEW S \in SUBSET CityIds, Construct(S)
    PROVE  CitiesInv'
<1>1. LandTypes /\ CityTypes /\ Counters /\ Paid /\ Flagged /\ LanesGood
  BY CitiesParts
<1> DEFINE done == \E i \in S : city[i].active + 1 = city[i].level
<1>2. /\ step' = "strike"
      /\ S \subseteq Standing /\ \A i \in S : Busy(i)
      /\ city' = [i \in CityIds |-> IF i \in S THEN [city[i] EXCEPT !.active = @ + 1] ELSE city[i]]
      /\ aggsDirty' = (aggsDirty \/ done) /\ lanesDirty' = (lanesDirty \/ done)
      /\ UNCHANGED <<landVars, counter, aggs, skipped, lanes, calc, flight, nextId>>
  BY DEF Construct
<1> HIDE DEF done
<1>3. ASSUME NEW i \in S
      PROVE  /\ city'[i] \in City /\ city'[i] # NoCity
             /\ city'[i].active = city[i].active + 1 /\ city[i].active < city[i].level
             /\ city'[i].owner = city[i].owner /\ city'[i].level = city[i].level
             /\ city'[i].port = city[i].port
             /\ city[i].active \in Nat /\ city[i].level \in Nat
  <2>1. /\ i \in CityIds /\ city[i] \in City /\ city[i].active \in 0..MaxLevel /\ city[i].level \in 1..MaxLevel
        /\ city[i].active \in Nat /\ city[i].level \in Nat
    BY <1>1, <1>2, StandingCity DEF CityTypes
  <2>2. city[i].active < city[i].level
    BY <1>2 DEF Busy
  <2>3. city[i].active + 1 \in 0..MaxLevel
    BY <2>1, <2>2, CitiesConstants
  <2>4. city'[i] = [city[i] EXCEPT !.active = @ + 1]
    BY <1>2, <2>1
  <2>5. city'[i] \in City
    BY <2>1, <2>3, <2>4 DEF City
  <2>6. /\ city'[i].active = city[i].active + 1 /\ city'[i].owner = city[i].owner
        /\ city'[i].level = city[i].level /\ city'[i].port = city[i].port
    BY <2>1, <2>4 DEF City
  <2> QED BY <2>1, <2>2, <2>5, <2>6, CitiesConstants
<1>4. \A i \in CityIds \ S : city'[i] = city[i]
  BY <1>2
<1>5. city' \in [CityIds -> City \cup {NoCity}]
  <2>1. \A i \in CityIds : city'[i] \in City \cup {NoCity}
    BY <1>1, <1>3, <1>4 DEF CityTypes
  <2> QED BY <1>2, <2>1
<1>6. Standing' = Standing
  BY <1>2, <1>3, <1>4 DEF Standing
<1>7. CityTypes'
  <2>1. ASSUME NEW j \in Standing' PROVE city'[j].active <= city'[j].level
    <3>1. CASE j \in S
      BY <1>3, <3>1
    <3>2. CASE j \notin S
      BY <1>1, <1>4, <1>6, <3>2, StandingFinite DEF CityTypes
    <3> QED BY <3>1, <3>2
  <2>2. Unbuilt'
    <3>1. ASSUME NEW i \in CityIds, i >= nextId PROVE city'[i] = NoCity
      <4>1. city[i] = NoCity
        BY <1>1, <3>1 DEF CityTypes, Unbuilt
      <4>2. i \notin S
        BY <1>2, <4>1 DEF Standing
      <4> QED BY <1>4, <4>1, <4>2
    <3> QED BY <1>2, <3>1 DEF Unbuilt
  <2> QED BY <1>1, <1>2, <1>5, <2>1, <2>2 DEF CityTypes
<1>8. LandTypes' /\ Flagged'
  <2>1. done \in BOOLEAN
    BY DEF done
  <2> QED BY <1>1, <1>2, <2>1 DEF LandTypes, Flagged, landVars
<1>9. Counters'
  <2>1. ASSUME NEW q, NEW i \in Credit(q) PROVE i \in Credit(q)'
    BY <1>2, <1>3, <1>4, <2>1 DEF Credit, Standing
  <2> QED BY <1>1, <1>2, <2>1, CreditKept
\* Unless something is finished, what was busy is, and what was not is as it was.
<1>10. ASSUME ~done PROVE \A i \in Standing : Busy(i)' = Busy(i)
  <2>1. ASSUME NEW i \in S PROVE city'[i].active < city'[i].level
    <3>1. city[i].active + 1 # city[i].level
      BY <1>10, <2>1 DEF done
    <3> QED BY <1>3, <2>1, <3>1
  <2>2. ASSUME NEW i \in Standing PROVE Busy(i)' = Busy(i)
    <3>1. CASE i \in S
      BY <1>2, <2>1, <3>1 DEF Busy
    <3>2. CASE i \notin S
      BY <1>4, <3>2, StandingFinite DEF Busy
    <3> QED BY <3>1, <3>2
  <2> QED BY <2>2
<1>11. Paid'
  <2>1. ASSUME ~done
        PROVE  /\ Settled' = Settled
               /\ \A i \in Standing : city[i].active <= city'[i].active
               /\ \A i \in Settled : city'[i].active = city[i].active
    <3>1. Settled' = Settled /\ Settled \cap S = {} /\ Settled \subseteq CityIds
      BY <1>2, <1>6, <1>10, <2>1, StandingFinite DEF Settled, Looked
    <3>2. ASSUME NEW i \in Standing PROVE city[i].active <= city'[i].active
      <4>1. i \in CityIds /\ city[i].active \in Nat
        BY <1>1, StandingCity DEF CityTypes
      <4>2. CASE i \in S
        BY <1>3, <4>1, <4>2
      <4>3. CASE i \notin S
        BY <1>4, <4>1, <4>3
      <4> QED BY <4>2, <4>3
    <3> QED BY <1>4, <3>1, <3>2
  <2>2. ~aggsDirty' => ~aggsDirty /\ ~done
    BY <1>2
  <2>3. LevelsCounted'
    BY <1>1, <1>2, <1>5, <1>6, <2>1, <2>2, LevelsKept DEF CityTypes, Paid
  <2> QED BY <1>1, <1>2, <2>3 DEF Paid
<1>12. LanesGood'
  <2>1. Ports' = Ports
    <3>1. \A i \in Standing : city'[i].port = city[i].port
      BY <1>3, <1>4, StandingFinite
    <3> QED BY <1>6, <3>1 DEF Ports
  <2>2. ~done => ReadyPorts' = ReadyPorts
    BY <1>10, <2>1 DEF ReadyPorts, Ports
  <2>3. ~lanesDirty' => ~lanesDirty /\ ~done
    BY <1>2
  <2> QED BY <1>1, <1>2, <2>1, <2>2, <2>3, LanesKept
<1>13. CitiesInv' <=> (LandTypes /\ CityTypes /\ Counters /\ Paid /\ Flagged /\ LanesGood)'
  BY CitiesParts, PTL
<1> QED BY <1>7, <1>8, <1>9, <1>11, <1>12, <1>13

LEMMA CitiesStrike ==
    ASSUME CitiesInv, NEW arrived \in SUBSET Tiles, NEW shot \in SUBSET Tiles,
           Strike(arrived, shot)
    PROVE  CitiesInv'
<1>1. LandTypes /\ CityTypes /\ Counters /\ Paid /\ Flagged /\ LanesGood
  BY CitiesParts
<1> DEFINE hit == UNION {InnerRadius[t] : t \in arrived}
           left == [t \in Tiles |-> IF t \in hit THEN Nobody ELSE land[t]]
<1>2. /\ step' = "fight" /\ flight' = flight \ (arrived \cup shot)
      /\ land' = left
      /\ city' = [i \in CityIds |-> IF i \in Standing /\ city[i].tile \in hit
                                    THEN NoCity ELSE city[i]]
      /\ living' \subseteq living
      /\ aggsDirty' = (aggsDirty \/ arrived # {}) /\ lanesDirty' = (lanesDirty \/ arrived # {})
      /\ UNCHANGED <<counter, aggs, skipped, lanes, calc, sailors, nextId>>
  BY DEF Strike
<1>3. LandTypes' /\ Flagged'
  <2>1. left \in [Tiles -> Owners \cup {Nobody}]
    BY <1>1 DEF LandTypes
  <2>2. (arrived # {}) \in BOOLEAN
    OBVIOUS
  <2> HIDE DEF left, hit
  <2> QED BY <1>1, <1>2, <2>1, <2>2 DEF LandTypes, Flagged
<1>4. hit = {} \/ arrived # {}
  OBVIOUS
<1> HIDE DEF left, hit
<1>5. /\ \A i \in CityIds : city'[i] = NoCity \/ city'[i] = city[i]
      /\ city' \in [CityIds -> City \cup {NoCity}]
      /\ Standing' \subseteq Standing /\ \A i \in Standing' : city'[i] = city[i]
  BY <1>1, <1>2 DEF CityTypes, Standing
<1>6. CityTypes'
  <2>1. Unbuilt'
    BY <1>1, <1>2, <1>5 DEF CityTypes, Unbuilt
  <2> QED BY <1>1, <1>2, <1>5, <2>1 DEF CityTypes
<1>7. Counters'
  <2>1. \A q : Credit(q) \subseteq Credit(q)'
    BY <1>2, <1>5 DEF Credit
  <2> QED BY <1>1, <1>2, <2>1, CreditKept
<1>8. arrived = {} => city' = city
  <2>1. arrived = {} => \A i \in CityIds : city'[i] = city[i]
    BY <1>2, <1>4
  <2> QED BY <1>1, <1>5, <2>1 DEF CityTypes
<1>9. arrived = {} => /\ Standing' = Standing /\ Settled' = Settled /\ Active' = Active
                      /\ Ports' = Ports /\ ReadyPorts' = ReadyPorts
  BY <1>2, <1>8 DEF Standing, Settled, Looked, Active, Ports, ReadyPorts, Busy
<1>10. Paid'
  BY <1>1, <1>2, <1>9 DEF Paid, LevelsCounted, Looked, Settled
<1>11. LanesGood'
  BY <1>1, <1>2, <1>9, LanesKept
<1>12. CitiesInv' <=> (LandTypes /\ CityTypes /\ Counters /\ Paid /\ Flagged /\ LanesGood)'
  BY CitiesParts, PTL
<1> QED BY <1>3, <1>6, <1>7, <1>10, <1>11, <1>12

LEMMA CitiesSync ==
    ASSUME CitiesInv, Sync
    PROVE  CitiesInv'
<1>1. LandTypes /\ CityTypes /\ Counters /\ Paid /\ Flagged /\ LanesGood
  BY CitiesParts
<1>2. /\ step' = "sea"
      /\ city' = [i \in CityIds |-> IF Moved(i) THEN [city[i] EXCEPT !.owner = land[city[i].tile]]
                                                ELSE city[i]]
      /\ counter' = [p \in Tribes |-> Counted(p)]
      /\ UNCHANGED <<landVars, aggs, skipped, aggsDirty, laneVars, flight, nextId>>
  BY DEF Sync
<1>3. LandTypes' /\ Flagged'
  BY <1>1, <1>2 DEF LandTypes, Flagged, landVars, laneVars
<1>4. ASSUME NEW i \in Standing
      PROVE  /\ city'[i] \in City /\ city'[i] # NoCity
             /\ city'[i].active = city[i].active /\ city'[i].level = city[i].level
             /\ city'[i].port = city[i].port
  <2>1. i \in CityIds /\ city[i] \in City /\ city[i].tile \in Tiles
    BY <1>1, StandingCity DEF CityTypes
  <2>2. CASE Moved(i)
    <3>1. land[city[i].tile] \in Owners
      BY <1>1, <2>1, <2>2 DEF Moved, LandTypes
    <3>2. city'[i] = [city[i] EXCEPT !.owner = land[city[i].tile]]
      BY <1>2, <2>1, <2>2
    <3> QED BY <2>1, <3>1, <3>2, CitiesConstants DEF City
  <2>3. CASE ~Moved(i)
    <3>1. city'[i] = city[i]
      BY <1>2, <2>1, <2>3
    <3> QED BY <2>1, <3>1, CitiesConstants
  <2> QED BY <2>2, <2>3
<1>5. \A i \in CityIds \ Standing : city'[i] = NoCity
  BY <1>2 DEF Moved, Standing
<1>6. city' \in [CityIds -> City \cup {NoCity}] /\ Standing' = Standing
  <2>1. \A i \in CityIds : city'[i] \in City \cup {NoCity} /\ (city'[i] # NoCity <=> i \in Standing)
    BY <1>4, <1>5
  <2> QED BY <1>2, <2>1, StandingFinite DEF Standing
<1>7. CityTypes'
  <2>1. Unbuilt'
    BY <1>1, <1>2, <1>5 DEF CityTypes, Unbuilt, Standing
  <2> QED BY <1>1, <1>2, <1>4, <1>6, <2>1 DEF CityTypes
<1>8. Counters'
  <2>1. CitiesTypeOK /\ Unbuilt /\ CounterPaid
    BY DEF CitiesInv
  <2>2. \A p \in Tribes : Counted(p) \in Nat /\ Counted(p) <= Cardinality(Credit(p)')
    BY <2>1, CountedPaid
  <2>3. counter' \in [Tribes -> Nat] /\ \A p \in Tribes : counter'[p] <= Cardinality(Credit(p)')
    BY <1>2, <2>2
  <2> QED BY <2>3 DEF Counters, CounterPaid
<1>9. /\ \A i \in Standing : Busy(i)' = Busy(i)
      /\ Active' = Active /\ Ports' = Ports
  BY <1>4, <1>6 DEF Busy, Active, Ports
<1>10. ReadyPorts' = ReadyPorts /\ Settled' = Settled
  BY <1>2, <1>6, <1>9 DEF ReadyPorts, Settled, Looked, Ports
<1>11. Paid'
  BY <1>1, <1>2, <1>6, <1>9, <1>10 DEF Paid, LevelsCounted, Looked, Settled
<1>12. LanesGood'
  BY <1>1, <1>2, <1>9, <1>10, LanesKept DEF laneVars
<1>13. CitiesInv' <=> (LandTypes /\ CityTypes /\ Counters /\ Paid /\ Flagged /\ LanesGood)'
  BY CitiesParts, PTL
<1> QED BY <1>3, <1>7, <1>8, <1>11, <1>12, <1>13

LEMMA CitiesIncome ==
    ASSUME CitiesInv, Income
    PROVE  CitiesInv'
<1>1. LandTypes /\ CityTypes /\ Counters /\ Paid /\ Flagged /\ LanesGood
  BY CitiesParts
<1> DEFINE NoneGiven == UNCHANGED <<city, nextId, counter>> /\ aggsDirty' = FALSE /\ lanesDirty' = FALSE
           Given(p, t) == /\ AddCity(p, t, 1)
                          /\ counter' = [counter EXCEPT ![p] = @ + 1]
                          /\ aggsDirty' = TRUE /\ lanesDirty' = TRUE
<1>2. /\ step' = "plan"
      /\ IF aggsDirty THEN Aggregate(Owners) ELSE UNCHANGED <<aggs, skipped>>
      /\ living' \subseteq living
      /\ UNCHANGED <<land, sailors, flight>>
      /\ NoneGiven \/ \E p \in Cityless, t \in Tiles : Given(p, t)
  BY DEF Income
<1> HIDE DEF NoneGiven
<1>3. LandTypes'
  BY <1>1, <1>2 DEF LandTypes
<1>4. CASE NoneGiven
  <2>1. UNCHANGED <<city, nextId, counter>> /\ aggsDirty' = FALSE /\ lanesDirty' = FALSE
    BY <1>4 DEF NoneGiven
  <2>2. CityTypes' /\ Flagged'
    BY <1>1, <2>1 DEF CityTypes, Flagged, Unbuilt, Standing
  <2>3. Counters'
    BY <1>1, <2>1 DEF Counters, CounterPaid, Credit
  <2>4. Paid'
    <3>1. CASE aggsDirty
      BY <1>1, <1>2, <2>1, <3>1, LevelsFresh DEF CityTypes, Paid
    <3>2. CASE ~aggsDirty
      <4>1. Standing' = Standing /\ Settled' = Settled /\ Active' = Active
        BY <1>2, <2>1, <3>2 DEF Standing, Settled, Looked, Active, Busy
      <4> QED BY <1>1, <1>2, <3>2, <4>1 DEF Paid, LevelsCounted, Looked, Settled
    <3> QED BY <3>1, <3>2
  <2>5. LanesGood'
    BY <1>1, <2>1, LanesIncome DEF CityTypes, Flagged
  <2>6. CitiesInv' <=> (LandTypes /\ CityTypes /\ Counters /\ Paid /\ Flagged /\ LanesGood)'
    BY CitiesParts, PTL
  <2> QED BY <1>3, <2>2, <2>3, <2>4, <2>5, <2>6
<1>5. ASSUME NEW p \in Cityless, NEW t \in Tiles, Given(p, t) PROVE CitiesInv'
  <2>1. p \in Tribes /\ p \in Owners
    BY CitiesConstants DEF Cityless
  <2>2. /\ AddCity(p, t, 1) /\ counter' = [counter EXCEPT ![p] = @ + 1]
        /\ aggsDirty' = TRUE /\ lanesDirty' = TRUE
    BY <1>5
  <2>3. CityTypes' /\ \A q : Credit(q) \subseteq Credit(q)' /\ nextId \notin Credit(q)
                             /\ (q = p => nextId \in Credit(q)')
    BY <1>1, <2>1, <2>2, Founded
  <2>4. Flagged'
    BY <2>2 DEF Flagged
  <2>5. Counters'
    <3>1. counter' \in [Tribes -> Nat]
      BY <1>1, <2>1, <2>2 DEF Counters
    <3>2. ASSUME NEW q \in Tribes PROVE counter'[q] <= Cardinality(Credit(q)')
      <4> DEFINE S == Credit(q)
                 T == Credit(q)'
      <4>1. S \subseteq T /\ T \subseteq CityIds /\ nextId \notin S /\ (q = p => nextId \in T)
        BY <2>3 DEF Credit
      <4>2. counter[q] \in Nat /\ counter[q] <= Cardinality(S)
        BY <1>1 DEF Counters, CounterPaid
      <4>3. counter'[q] = IF q = p THEN counter[q] + 1 ELSE counter[q]
        BY <1>1, <2>2 DEF Counters
      <4> HIDE DEF S, T
      <4>4. IsFiniteSet(T) /\ IsFiniteSet(S)
        BY <4>1, CitiesConstants, FS_Subset
      <4>5. Cardinality(S) <= Cardinality(T) /\ Cardinality(S) \in Nat /\ Cardinality(T) \in Nat
        BY <4>1, <4>4, FS_Subset, FS_CardinalityType
      <4>6. q = p => Cardinality(S) + 1 <= Cardinality(T)
        <5>1. SUFFICES ASSUME q = p PROVE Cardinality(S) + 1 <= Cardinality(T)
          OBVIOUS
        <5>2. S \cup {nextId} \subseteq T /\ nextId \notin S
          BY <4>1, <5>1
        <5>3. Cardinality(S \cup {nextId}) = Cardinality(S) + 1
          BY <4>4, <5>2, FS_AddElement
        <5>4. Cardinality(S \cup {nextId}) <= Cardinality(T)
          BY <4>4, <5>2, FS_Subset
        <5> QED BY <5>3, <5>4
      <4>7. counter'[q] <= Cardinality(T)
        BY <4>2, <4>3, <4>5, <4>6
      <4> QED BY <4>7 DEF T
    <3> QED BY <3>1, <3>2 DEF Counters, CounterPaid
  <2>6. Paid'
    <3>1. aggs' \in [Owners -> 0 .. MaxCities * MaxLevel] /\ skipped' \subseteq CityIds
      <4>1. CASE aggsDirty
        BY <1>1, <1>2, <4>1, LevelsFresh DEF CityTypes
      <4>2. CASE ~aggsDirty
        BY <1>1, <1>2, <4>2 DEF Paid
      <4> QED BY <4>1, <4>2
    <3> QED BY <2>2, <3>1 DEF Paid, LevelsCounted
  <2>7. LanesGood'
    BY <1>1, <2>2, LanesIncome DEF CityTypes, Flagged
  <2>8. CitiesInv' <=> (LandTypes /\ CityTypes /\ Counters /\ Paid /\ Flagged /\ LanesGood)'
    BY CitiesParts, PTL
  <2> QED BY <1>3, <2>3, <2>4, <2>5, <2>6, <2>7, <2>8
<1> HIDE DEF Given
<1> QED BY <1>2, <1>4, <1>5

LEMMA CitiesInvInit == CitiesInit => CitiesInv
<1> SUFFICES ASSUME CitiesInit PROVE CitiesInv
  OBVIOUS
<1>1. Standing = {}
  BY DEF CitiesInit, Standing
<1>2. LandTypes /\ Flagged
  BY DEF CitiesInit, LandTypes, Flagged
<1>3. CityTypes
  BY <1>1, CitiesConstants DEF CitiesInit, CityTypes, Unbuilt
<1>4. Counters
  <2>1. counter = [p \in Tribes |-> 0]
    BY DEF CitiesInit
  <2> QED BY <2>1, CreditFinite DEF Counters, CounterPaid
<1>5. Paid
  <2>1. PICK n \in Nat : n = MaxCities * MaxLevel
    BY CitiesConstants
  <2> QED BY <2>1 DEF CitiesInit, Paid, LevelsCounted
<1>6. LanesGood
  BY DEF CitiesInit, LanesGood
<1> QED BY <1>2, <1>3, <1>4, <1>5, <1>6, CitiesParts

LEMMA CitiesInvStep == CitiesInv /\ [CitiesNext]_cityVars => CitiesInv'
<1> SUFFICES ASSUME CitiesInv, [CitiesNext]_cityVars PROVE CitiesInv'
  OBVIOUS
<1>1. ASSUME NEW p \in Owners, NEW i \in CityIds, Stack(p, i) \/ AddPort(p, i) PROVE CitiesInv'
  BY <1>1, CitiesStack, CitiesAddPort
<1>2. ASSUME NEW p \in Owners, NEW t \in Tiles,
             Found(p, t) \/ LaunchNuke(p, t) \/ Conquer(p, t) \/ Disembark(p, t)
      PROVE  CitiesInv'
  BY <1>2, CitiesFound, CitiesQuietSteps
<1>3. ASSUME NEW p \in Owners, Sail(p) \/ GiveUp(p) PROVE CitiesInv'
  <2>1. UNCHANGED <<city, nextId, counter, aggs, skipped, aggsDirty, laneVars>>
    BY <1>3 DEF Sail, GiveUp
  <2>2. LandTypes
    BY CitiesParts
  <2>3. LandTypes'
    <3>1. CASE Sail(p)
      BY <2>2, <3>1 DEF Sail, LandTypes
    <3>2. CASE GiveUp(p)
      BY <2>2, <3>2 DEF GiveUp, LandTypes
    <3> QED BY <1>3, <3>1, <3>2
  <2> QED BY <2>1, <2>3, CitiesQuiet
<1>4. CASE Income \/ Plan \/ Sync
  BY <1>4, CitiesIncome, CitiesPlan, CitiesSync
<1>5. CASE TickEnds \/ UNCHANGED cityVars
  <2>1. UNCHANGED <<city, nextId, counter, aggs, skipped, aggsDirty, laneVars>>
    BY <1>5 DEF TickEnds, cityVars
  <2>2. LandTypes
    BY CitiesParts
  <2>3. LandTypes'
    <3>1. CASE TickEnds
      BY <2>2, <3>1 DEF TickEnds, LandTypes, landVars
    <3>2. CASE UNCHANGED cityVars
      BY <2>2, <3>2 DEF cityVars, LandTypes, landVars
    <3> QED BY <1>5, <3>1, <3>2
  <2> QED BY <2>1, <2>3, CitiesQuiet
<1>6. ASSUME NEW S \in SUBSET CityIds, Construct(S) PROVE CitiesInv'
  BY <1>6, CitiesConstruct
<1>7. ASSUME NEW arrived \in SUBSET Tiles, NEW shot \in SUBSET Tiles, Strike(arrived, shot)
      PROVE  CitiesInv'
  BY <1>7, CitiesStrike
<1> QED BY <1>1, <1>2, <1>3, <1>4, <1>5, <1>6, <1>7 DEF CitiesNext

LEMMA CitiesInvariant == CitiesSpec => []CitiesInv
<1> QED BY CitiesInvInit, CitiesInvStep, PTL DEF CitiesSpec

\* Every variable has its type: in particular no counter of a tribe runs over, whatever
\* order its cities are taken, lost and destroyed in (sow-core engine/tick.rs, game.rs).
THEOREM CitiesTypes == CitiesSpec => []CitiesTypeOK
<1>1. CitiesInv => CitiesTypeOK
  BY DEF CitiesInv
<1> QED BY <1>1, CitiesInvariant, PTL

\* What income is paid from and the sea lanes are current unless they are marked dirty,
\* for any number of cities, players and nukes (execution/income.rs, sea_lane.rs).
THEOREM CitiesDerived == CitiesSpec => []DerivedCurrent
<1>1. CitiesInv => DerivedCurrent
  BY DEF CitiesInv
<1> QED BY <1>1, CitiesInvariant, PTL

---------------------------------------------------------------------------------
(* The engine: diplomacy, cities and the client's session, one of which moves.    *)

LEMMA EngineParts ==
    EngineSpec => Init /\ [][Next]_vars /\ CitiesSpec /\ SessionInit /\ [][SessionNext]_sessionVars
<1>1. EngineInit => Init /\ CitiesInit /\ SessionInit
  BY DEF EngineInit
<1>2. [EngineNext]_<<moving, vars, cityVars, sessionVars>>
        => [Next]_vars /\ [CitiesNext]_cityVars /\ [SessionNext]_sessionVars
  BY DEF EngineNext
<1> QED BY <1>1, <1>2, PTL DEF EngineSpec, CitiesSpec

\* Every variable of the three parts has its type, whichever of them moves.
THEOREM EngineTypes == EngineSpec => []EngineTypeOK
<1>1. Init /\ [][Next]_vars => []TypeOK
  BY TypeCorrect DEF Spec
<1>2. CitiesSpec => []CitiesTypeOK
  BY CitiesTypes
<1>3. SessionInit /\ [][SessionNext]_sessionVars => []SessionTypeOK
  BY SessionInvInit, SessionInvStep, SessionInvIsType, PTL
<1>4. TypeOK /\ CitiesTypeOK /\ SessionTypeOK => EngineTypeOK
  BY DEF EngineTypeOK
<1> QED BY <1>1, <1>2, <1>3, <1>4, EngineParts, PTL

\* All that is claimed of the parts apart holds of the engine: alliances are mutual, their
\* requests fit and their members are at peace, what is derived from the cities is current,
\* the client waits for no dial nobody makes, and nobody is allied without consent.
THEOREM EngineSafety ==
    EngineSpec => /\ [](AlliesAgree /\ RequestsFit /\ AlliesAtPeace)
                  /\ []DerivedCurrent /\ []DialAnswered /\ Consent
<1>1. Init /\ [][Next]_vars => [](AlliesAgree /\ RequestsFit /\ AlliesAtPeace) /\ Consent
  BY AlliesAgreeCorrect, RequestsFitCorrect, AlliesAtPeaceCorrect, ConsentCorrect, PTL DEF Spec
<1>2. CitiesSpec => []DerivedCurrent
  BY CitiesDerived
<1>3. SessionInit /\ [][SessionNext]_sessionVars => []DialAnswered
  <2>1. SessionInv => DialAnswered
    BY DEF SessionInv
  <2> QED BY <2>1, SessionInvInit, SessionInvStep, PTL
<1> QED BY <1>1, <1>2, <1>3, EngineParts, PTL
=================================================================================
