--------------------------- MODULE ServerLobbyProofs ---------------------------
(* Theorems about the lobbies of the master server, for any number of           *)
(* connections, lobbies, ports and events, any sizes and any countdowns.        *)
EXTENDS ServerLobby, FiniteSetTheorems, SequenceTheorems, WellFoundedInduction,
        TLAPS

Accounts == {Account[c] : c \in Conns}
Times    == 0..(CountTicks + ForceTicks + LoadTicks)
Rosters  == [Pids -> Conns \cup {Bot, Empty}]
NoOne    == [p \in Pids |-> Empty]

LEMMA LobbyConstants ==
    /\ Bot # Empty /\ Bot \notin Conns /\ Empty \notin Conns
    /\ MaxLobbies \in Nat /\ MaxLobbies > 0 /\ Rematches \in Nat
    /\ MaxPid \in Nat /\ MaxPid > 0 /\ MaxJoins \in Nat
    /\ EventCap \in Nat /\ EventCap > 0
    /\ Cap \in Nat /\ 1 <= Cap /\ Cap <= MaxPid
    /\ BotFill \in Nat /\ BotFill <= Cap
    /\ CountTicks \in Nat /\ CountTicks > 1
    /\ ForceTicks \in Nat /\ ForceTicks > 0
    /\ LoadTicks \in Nat /\ LoadTicks > 0
    /\ SettleTicks \in Nat /\ SettleTicks > 0
    /\ Ports \in Nat
    /\ Accounts \cap Conns = {}
    /\ 1 \in Pids /\ 0 \notin Pids /\ Pids \subseteq Nat /\ Lobbies \subseteq Nat /\ 0 \notin Lobbies
    /\ IsFiniteSet(Pids) /\ IsFiniteSet(Lobbies)
<1>1. /\ MaxLobbies \in Nat /\ MaxLobbies > 0 /\ Rematches \in Nat
      /\ MaxPid \in Nat /\ MaxPid > 0
  BY LobbyAssumption
<1>2. IsFiniteSet(1..MaxPid) /\ IsFiniteSet(1..(MaxLobbies + Rematches))
  BY <1>1, FS_Interval
<1>3. Accounts \cap Conns = {}
  BY LobbyAssumption DEF Accounts
<1>4. /\ MaxJoins \in Nat
      /\ EventCap \in Nat /\ EventCap > 0
      /\ Cap \in Nat /\ 1 <= Cap /\ Cap <= MaxPid
      /\ BotFill \in Nat /\ BotFill <= Cap
      /\ CountTicks \in Nat /\ CountTicks > 1
      /\ ForceTicks \in Nat /\ ForceTicks > 0
      /\ LoadTicks \in Nat /\ LoadTicks > 0
      /\ SettleTicks \in Nat /\ SettleTicks > 0
      /\ Ports \in Nat /\ Bot # Empty /\ Bot \notin Conns /\ Empty \notin Conns
  BY LobbyAssumption
<1>5. 1 \in Pids /\ 0 \notin Pids /\ Pids \subseteq Nat /\ Lobbies \subseteq Nat /\ 0 \notin Lobbies
  BY <1>1 DEF Pids, Lobbies
<1> QED BY <1>1, <1>2, <1>3, <1>4, <1>5 DEF Pids, Lobbies

--------------------------------------------------------------------------------
(* Least and greatest.                                                          *)

LEMMA LowestIn ==
    ASSUME NEW S, S \subseteq Nat, S # {}
    PROVE  Lowest(S) \in S /\ \A q \in S : Lowest(S) <= q
<1>1. \E p \in S : \A q \in S : p <= q
  <2> DEFINE Less == {ss \in Nat \X Nat : ss[1] < ss[2]}
  <2>1. IsWellFoundedOn(Less, Nat)
    BY NatLessThanWellFounded DEF OpToRel
  <2>2. PICK m \in S : \A q \in S : <<q, m>> \notin Less
    <3> HIDE DEF Less
    <3> QED BY <2>1, WFMin
  <2>3. \A q \in S : <<q, m>> \in Nat \X Nat /\ (q < m => <<q, m>> \in Less)
    OBVIOUS
  <2>4. \A q \in S : ~(q < m)
    <3> HIDE DEF Less
    <3> QED BY <2>2, <2>3
  <2>5. m \in S /\ \A q \in S : m <= q
    BY <2>4
  <2> QED BY <2>5
<1> QED BY <1>1 DEF Lowest

LEMMA HighestIn ==
    ASSUME NEW S \in SUBSET Pids
    PROVE  /\ Highest(S) \in Nat /\ Highest(S) \in Pids \cup {0}
           /\ \A q \in S : q <= Highest(S)
           /\ S = {} => Highest(S) = 0
<1>1. CASE S = {}
  BY <1>1 DEF Highest
<1>2. CASE S # {}
  <2> DEFINE D == {MaxPid - s : s \in S}
  <2>1. D \subseteq Nat /\ D # {}
    <3>1. \A s \in S : MaxPid - s \in Nat
      BY LobbyConstants DEF Pids
    <3> QED BY <1>2, <3>1
  <2>2. PICK d \in D : \A e \in D : d <= e
    <3> HIDE DEF D
    <3> QED BY <2>1, LowestIn
  <2>3. PICK p \in S : d = MaxPid - p
    BY <2>2
  <2>4. \A q \in S : q <= p
    <3>1. ASSUME NEW q \in S PROVE q <= p
      <4>1. MaxPid - q \in D
        BY <3>1
      <4>2. d <= MaxPid - q
        BY <2>2, <4>1
      <4>3. p \in Nat /\ q \in Nat /\ MaxPid \in Nat
        BY <2>3, LobbyConstants
      <4> HIDE DEF D
      <4> QED BY <4>2, <4>3, <2>3
    <3> QED BY <3>1
  <2>5. Highest(S) \in S /\ \A q \in S : q <= Highest(S)
    BY <1>2, <2>3, <2>4 DEF Highest
  <2> QED BY <1>2, <2>5, LobbyConstants
<1> QED BY <1>1, <1>2

--------------------------------------------------------------------------------
(* Sizes of rosters.                                                            *)

Count(s) == Cardinality(Seated(s))

LEMMA CountNat ==
    ASSUME NEW s
    PROVE  Count(s) \in Nat /\ IsFiniteSet(Seated(s)) /\ Seated(s) \in SUBSET Pids
<1>1. Seated(s) \in SUBSET Pids
  BY DEF Seated
<1> QED BY <1>1, LobbyConstants, FS_Subset, FS_CardinalityType DEF Count

LEMMA CountLess ==
    ASSUME NEW s, NEW r, Seated(r) \subseteq Seated(s)
    PROVE  Count(r) <= Count(s)
BY CountNat, FS_Subset DEF Count

LEMMA CountMore ==
    ASSUME NEW s \in Rosters, NEW p \in Pids, NEW c
    PROVE  /\ Count([s EXCEPT ![p] = c]) <= Count(s) + 1
           /\ p \in Seated(s) => Count([s EXCEPT ![p] = c]) <= Count(s)
<1> DEFINE r == [s EXCEPT ![p] = c]
<1>1. Seated(r) \subseteq Seated(s) \cup {p}
  BY DEF Seated, Rosters
<1>2. IsFiniteSet(Seated(s) \cup {p}) /\ Cardinality(Seated(s) \cup {p}) <= Count(s) + 1
      /\ (p \in Seated(s) => Cardinality(Seated(s) \cup {p}) = Count(s))
  <2>1. IsFiniteSet(Seated(s)) /\ Cardinality(Seated(s)) \in Nat
    BY CountNat DEF Count
  <2>2. /\ IsFiniteSet(Seated(s) \cup {p})
        /\ Cardinality(Seated(s) \cup {p})
             = IF p \in Seated(s) THEN Cardinality(Seated(s)) ELSE Cardinality(Seated(s)) + 1
    <3> DEFINE S == Seated(s)
    <3>1. IsFiniteSet(S)
      BY <2>1
    <3> HIDE DEF S
    <3>2. /\ IsFiniteSet(S \cup {p})
          /\ Cardinality(S \cup {p}) = IF p \in S THEN Cardinality(S) ELSE Cardinality(S) + 1
      BY <3>1, FS_AddElement
    <3> QED BY <3>2 DEF S
  <2> QED BY <2>1, <2>2 DEF Count
<1>3. Count(r) <= Cardinality(Seated(s) \cup {p})
  <2> HIDE DEF r
  <2> QED BY <1>1, <1>2, FS_Subset DEF Count
<1>4. Count(r) \in Nat /\ Count(s) \in Nat /\ Cardinality(Seated(s) \cup {p}) \in Nat
  BY CountNat, <1>2, FS_CardinalityType
<1> HIDE DEF r
<1>5. Count(r) <= Count(s) + 1 /\ (p \in Seated(s) => Count(r) <= Count(s))
  BY <1>2, <1>3, <1>4
<1> QED BY <1>5 DEF r

LEMMA CountNoOne == Count(NoOne) = 0 /\ Seated(NoOne) = {} /\ NoOne \in Rosters
BY FS_EmptySet DEF Count, Seated, NoOne, Rosters

\* k bots that sit down past the highest seat.
LEMMA CountBots ==
    ASSUME NEW s \in Rosters, NEW l, seat[l] = s, NEW k \in Nat, NewBots(l, k) \subseteq Pids,
           NEW r, r = [p \in Pids |-> IF p \in NewBots(l, k) THEN Bot ELSE s[p]]
    PROVE  /\ r \in Rosters
           /\ Count(r) <= Count(s) + k
           /\ Cardinality(NewBots(l, k)) = k
           /\ Externals(r) = Externals(s)
           /\ \A p \in Externals(s) : r[p] = s[p]
           /\ Bots(r) = Bots(s) \cup NewBots(l, k)
<1> DEFINE N == NewBots(l, k)
           H == Highest(Seated(s))
<1>1. H \in Nat /\ \A q \in Seated(s) : q <= H
  BY HighestIn, CountNat
<1>2. N = (H + 1)..(H + k)
  BY DEF NewBots
<1>3. IsFiniteSet(N) /\ Cardinality(N) = k
  BY <1>1, <1>2, FS_Interval
<1>4. N \cap Seated(s) = {}
  <2>1. \A p \in N : p > H
    BY <1>1, <1>2
  <2>2. \A q \in Seated(s) : q \in Nat
    BY LobbyConstants DEF Seated
  <2> HIDE DEF N, H
  <2> QED BY <1>1, <2>1, <2>2
<1>5. r \in Rosters
  BY DEF Rosters
<1>6. Seated(r) \subseteq Seated(s) \cup N
  BY DEF Seated
<1>7. Count(r) <= Count(s) + k
  <2>1. IsFiniteSet(Seated(s) \cup N)
        /\ Cardinality(Seated(s) \cup N) = Count(s) + k - Cardinality(Seated(s) \cap N)
    BY <1>3, CountNat, FS_Union DEF Count
  <2>2. Cardinality(Seated(s) \cap N) = 0
    BY <1>4, FS_EmptySet
  <2>3. Count(r) <= Cardinality(Seated(s) \cup N)
    BY <2>1, <1>6, FS_Subset DEF Count
  <2> QED BY <2>1, <2>2, <2>3, CountNat
<1> HIDE DEF N
<1>8. \A p \in Pids : r[p] = IF p \in N THEN Bot ELSE s[p]
  BY DEF N
<1>9. \A p \in N : p \in Pids /\ s[p] = Empty
  BY <1>4 DEF N, Seated
<1>10. Externals(r) = Externals(s) /\ (\A p \in Externals(s) : r[p] = s[p])
  BY <1>8, <1>9 DEF Externals
<1>11. Bots(r) = Bots(s) \cup N
  BY <1>8, <1>9, LobbyConstants DEF Bots
<1> QED BY <1>3, <1>5, <1>7, <1>10, <1>11 DEF N

--------------------------------------------------------------------------------
(* One lobby: what holds of its phase, kind, host, timer, roster and bans.      *)

NoRepeat(s) ==
    \A p, q \in Externals(s) : Account[s[p]] = Account[s[q]] /\ Account[s[p]] # Guest => p = q

NoBanned(s, b) == \A p \in Externals(s) : Account[s[p]] # Guest => Account[s[p]] \notin b

Room(ph, k, h, t, s, b) ==
    /\ ph \in Phases /\ k \in {"queue", "custom"} /\ h \in {0, 1} /\ t \in Times
    /\ s \in Rosters /\ b \in SUBSET (Conns \cup Accounts)
    /\ ph \in {"waiting", "counting", "loading", "ready"} => Count(s) <= Cap
    /\ ph \in {"counting", "loading"} => t >= 1
    /\ ph = "none" => k = "queue" /\ s = NoOne /\ b = {}
    /\ k = "queue" => h = 0
    /\ ph \in {"waiting", "counting"} /\ h # 0 => s[h] \notin {Empty, Bot}
    /\ NoRepeat(s) /\ NoBanned(s, b)

LEMMA RosterFacts ==
    ASSUME NEW s \in Rosters
    PROVE  /\ Externals(s) = {p \in Pids : s[p] \in Conns}
           /\ \A p \in Externals(s) : Account[s[p]] \in Accounts
           /\ \A p \in Pids : p \in Seated(s) <=> s[p] # Empty
BY LobbyConstants DEF Rosters, Externals, Accounts, Seated

\* A seat of the same account is taken over, by whoever proves it.
LEMMA RoomTakeover ==
    ASSUME NEW ph, NEW k, NEW h, NEW t, NEW s, NEW b, Room(ph, k, h, t, s, b), ph # "none",
           NEW c \in Conns, NEW p \in SameAccount(c, s)
    PROVE  Room(ph, k, h, t, [s EXCEPT ![p] = c], b)
<1> DEFINE r == [s EXCEPT ![p] = c]
<1>1. /\ s \in Rosters /\ p \in Pids /\ s[p] \in Conns /\ Account[s[p]] = Account[c]
      /\ Account[c] # Guest
  BY DEF Room, SameAccount
<1>2. r \in Rosters /\ \A q \in Pids : r[q] = IF q = p THEN c ELSE s[q]
  BY <1>1 DEF Rosters
<1>3. Count(r) <= Count(s)
  BY <1>1, CountMore, RosterFacts, LobbyConstants
<1> HIDE DEF r
<1>4. Externals(r) = Externals(s) /\ \A q \in Externals(s) : Account[r[q]] = Account[s[q]]
  <2>1. Externals(r) = {q \in Pids : r[q] \in Conns}
    BY <1>2, RosterFacts
  <2>2. Externals(s) = {q \in Pids : s[q] \in Conns}
    BY <1>1, RosterFacts
  <2>3. \A q \in Pids : r[q] \in Conns <=> s[q] \in Conns
    BY <1>1, <1>2
  <2>4. \A q \in Pids : Account[r[q]] = Account[s[q]]
    BY <1>1, <1>2
  <2> QED BY <2>1, <2>2, <2>3, <2>4
<1>5. NoRepeat(r) /\ NoBanned(r, b)
  BY <1>4 DEF Room, NoRepeat, NoBanned
<1>6. Count(r) \in Nat /\ Count(s) \in Nat
  BY CountNat
<1>7. ph \in {"waiting", "counting"} /\ h # 0 => r[h] \notin {Empty, Bot}
  BY <1>2, LobbyConstants DEF Room
<1> QED BY <1>2, <1>3, <1>5, <1>6, <1>7, LobbyConstants DEF Room, r

\* A seat is added, for who is not barred and sits nowhere.
LEMMA RoomEnter ==
    ASSUME NEW ph, NEW k, NEW h, NEW t, NEW s, NEW b, Room(ph, k, h, t, s, b), ph # "none",
           NEW c \in Conns, SameAccount(c, s) = {}, NEW p \in Pids, p \notin Seated(s),
           Count(s) < Cap, Identity(c) \notin b
    PROVE  Room(ph, k, h, t, [s EXCEPT ![p] = c], b)
<1> DEFINE r == [s EXCEPT ![p] = c]
<1>1. s \in Rosters /\ s[p] = Empty
  BY DEF Room, Seated
<1>2. r \in Rosters /\ \A q \in Pids : r[q] = IF q = p THEN c ELSE s[q]
  BY <1>1 DEF Rosters
<1>3. Count(r) <= Count(s) + 1
  BY <1>1, CountMore
<1> HIDE DEF r
<1>4. Externals(r) = Externals(s) \cup {p} /\ p \notin Externals(s)
  <2>1. Externals(r) = {q \in Pids : r[q] \in Conns}
    BY <1>2, RosterFacts
  <2>2. Externals(s) = {q \in Pids : s[q] \in Conns}
    BY <1>1, RosterFacts
  <2>3. s[p] \notin Conns
    BY <1>1, LobbyConstants
  <2>4. \A q \in Pids : r[q] \in Conns <=> s[q] \in Conns \/ q = p
    BY <1>2
  <2> QED BY <2>1, <2>2, <2>3, <2>4
<1>5. \A q \in Externals(s) : Account[c] # Guest => Account[s[q]] # Account[c]
  BY <1>1, RosterFacts DEF SameAccount
<1>6. NoRepeat(r)
  BY <1>2, <1>4, <1>5, RosterFacts, <1>1 DEF Room, NoRepeat, Externals
<1>7. NoBanned(r, b)
  BY <1>2, <1>4, RosterFacts, <1>1 DEF Room, NoBanned, Externals, Identity
<1>8. Count(r) \in Nat /\ Count(s) \in Nat
  BY CountNat
<1>9. ph \in {"waiting", "counting"} /\ h # 0 => r[h] \notin {Empty, Bot}
  BY <1>2, LobbyConstants DEF Room
<1> QED BY <1>2, <1>3, <1>6, <1>7, <1>8, <1>9, LobbyConstants DEF Room, r

\* A lobby that is spawned for one, who hosts it or not.
LEMMA RoomSpawn ==
    ASSUME NEW k \in {"queue", "custom"}, NEW h \in {0, 1}, NEW t \in Times,
           k = "queue" => h = 0, NEW c \in Conns
    PROVE  Room("waiting", k, h, t, [NoOne EXCEPT ![1] = c], {})
<1> DEFINE r == [NoOne EXCEPT ![1] = c]
<1>1. r \in Rosters /\ \A q \in Pids : r[q] = IF q = 1 THEN c ELSE Empty
  BY CountNoOne, LobbyConstants DEF Rosters, NoOne
<1>2. Count(r) <= 1
  BY CountMore, CountNoOne, LobbyConstants
<1>3. Count(r) \in Nat
  BY CountNat
<1> HIDE DEF r
<1>4. Externals(r) = {1} /\ r[1] = c
  BY <1>1, RosterFacts, LobbyConstants
<1>5. NoRepeat(r) /\ NoBanned(r, {})
  BY <1>4 DEF NoRepeat, NoBanned
<1>6. Count(r) <= Cap
  BY <1>2, <1>3, LobbyConstants
<1> QED BY <1>1, <1>4, <1>5, <1>6, LobbyConstants DEF Room, Phases, r

\* A roster that loses people, and bans that grow by who has gone.
LEMMA RoomShrink ==
    ASSUME NEW ph, NEW k, NEW h, NEW t, NEW s, NEW b, Room(ph, k, h, t, s, b), ph # "none",
           NEW r \in Rosters, \A p \in Pids : r[p] \in {s[p], Empty},
           NEW e \in SUBSET (Conns \cup Accounts), b \subseteq e, NoBanned(r, e),
           NEW qh \in Phases, qh # "none", NEW u \in Times,
           qh \in {"waiting", "counting"} => ph \in {"waiting", "counting"} /\ (h = 0 \/ r[h] = s[h]),
           qh \in {"counting", "loading"} => u >= 1,
           qh \in {"waiting", "counting", "loading", "ready"}
             => ph \in {"waiting", "counting", "loading", "ready"}
    PROVE  Room(qh, k, h, u, r, e)
<1>1. s \in Rosters
  BY DEF Room
<1>2. Seated(r) \subseteq Seated(s)
  BY DEF Seated
<1>3. Count(r) <= Count(s) /\ Count(r) \in Nat /\ Count(s) \in Nat
  BY <1>2, CountLess, CountNat
<1>4. \A p \in Externals(r) : p \in Externals(s) /\ r[p] = s[p]
  BY DEF Externals
<1>5. NoRepeat(r)
  BY <1>4 DEF Room, NoRepeat
<1>6. qh \in {"waiting", "counting"} /\ h # 0 => r[h] \notin {Empty, Bot}
  BY DEF Room
<1>7. qh \in {"waiting", "counting", "loading", "ready"} => Count(r) <= Cap
  BY <1>3, LobbyConstants DEF Room
<1> QED BY <1>5, <1>6, <1>7 DEF Room

\* Bots come to a lobby of the queue.
LEMMA RoomFill ==
    ASSUME NEW ph, NEW h, NEW t, NEW s, NEW b, Room(ph, "queue", h, t, s, b),
           NEW r \in Rosters, Externals(r) = Externals(s), \A p \in Externals(s) : r[p] = s[p],
           Count(r) <= Cap,
           NEW qh \in {"waiting", "counting", "loading"}, NEW u \in Times,
           qh \in {"counting", "loading"} => u >= 1
    PROVE  Room(qh, "queue", h, u, r, b)
<1>1. NoRepeat(r) /\ NoBanned(r, b)
  BY DEF Room, NoRepeat, NoBanned
<1> QED BY <1>1 DEF Room, Phases

--------------------------------------------------------------------------------
(* The inductive invariant.                                                     *)

RoomTypes ==
    /\ phase \in [Lobbies -> Phases]
    /\ kind \in [Lobbies -> {"queue", "custom"}]
    /\ host \in [Lobbies -> {0, 1}]
    /\ timer \in [Lobbies -> Times]
    /\ seat \in [Lobbies -> Rosters]
    /\ banned \in [Lobbies -> SUBSET (Conns \cup Accounts)]
    /\ ready \in [Lobbies -> SUBSET Pids]
    /\ pending \in [Lobbies -> 0..BotFill]

EachRoom ==
    \A l \in Lobbies : Room(phase[l], kind[l], host[l], timer[l], seat[l], banned[l])

\* The ids that the server has not given out name no lobby.
Numbered ==
    /\ nextId \in Nat \ {0}
    /\ \A l \in 1..MaxLobbies : l >= nextId => phase[l] = "none"

Handoffs == {l \in Lobbies : phase[l] = "handed"}

\* A lobby that is being handed over has a port.
PortsLeft == used \in 0..Ports /\ Cardinality(Handoffs) <= used

GoodEvent ==
    {e \in Event :
        /\ e.what = "join" => e.arg \in Targets
        /\ e.what \in {"ready", "start", "kick", "ban", "leave"} =>
              e.lobby \in Lobbies /\ e.pid \in Pids
        /\ e.what \in {"kick", "ban"} => e.arg \in Pids}

JoinsAt(q) == {i \in 1..Len(q) : q[i].what = "join"}
JoinsLeft  == Cardinality(JoinsAt(events))

\* An id beyond the bound was spent on a rematch, by a Join that is handled.
Queued ==
    /\ nextId \in Nat /\ events \in Seq(GoodEvent) /\ Len(events) <= EventCap
    /\ joins \in 0..MaxJoins /\ JoinsLeft <= joins
    /\ nextId + JoinsLeft <= MaxLobbies + 1 + joins

Tasks ==
    /\ open \subseteq Conns
    /\ mine \in [Conns -> Place \cup {Nobody}]
    /\ acks \in [Conns -> Seq(Place)]

LobbyInv == RoomTypes /\ EachRoom /\ Numbered /\ PortsLeft /\ Queued /\ Tasks

LEMMA JoinsNat ==
    ASSUME NEW S, NEW q \in Seq(S)
    PROVE  IsFiniteSet(JoinsAt(q)) /\ Cardinality(JoinsAt(q)) \in Nat /\ JoinsAt(q) \in SUBSET Nat
<1>1. IsFiniteSet(1..Len(q))
  BY FS_Interval
<1>2. JoinsAt(q) \in SUBSET (1..Len(q))
  BY DEF JoinsAt
<1>3. IsFiniteSet(JoinsAt(q)) /\ JoinsAt(q) \in SUBSET Nat
  BY <1>1, <1>2, FS_Subset
<1> QED BY <1>3, FS_CardinalityType

LEMMA JoinsAppend ==
    ASSUME NEW S, NEW q \in Seq(S), NEW e \in S
    PROVE  /\ Cardinality(JoinsAt(Append(q, e))) <= Cardinality(JoinsAt(q)) + 1
           /\ e.what # "join" => Cardinality(JoinsAt(Append(q, e))) <= Cardinality(JoinsAt(q))
<1> DEFINE J == JoinsAt(q)
           K == JoinsAt(Append(q, e))
           n == Len(q) + 1
<1>1. IsFiniteSet(J) /\ Cardinality(J) \in Nat
  BY JoinsNat
<1>2. K \subseteq J \cup {n} /\ (e.what # "join" => K \subseteq J)
  BY DEF JoinsAt
<1> HIDE DEF J, K, n
<1>3. IsFiniteSet(J \cup {n}) /\ Cardinality(J \cup {n}) <= Cardinality(J) + 1
      /\ Cardinality(J \cup {n}) \in Nat
  <2>1. IsFiniteSet(J \cup {n})
        /\ Cardinality(J \cup {n}) = IF n \in J THEN Cardinality(J) ELSE Cardinality(J) + 1
    BY <1>1, FS_AddElement
  <2> QED BY <1>1, <2>1
<1>4. IsFiniteSet(K) /\ Cardinality(K) <= Cardinality(J \cup {n})
      /\ (e.what # "join" => Cardinality(K) <= Cardinality(J))
  BY <1>1, <1>2, <1>3, FS_Subset
<1>5. Cardinality(K) \in Nat
  BY <1>4, FS_CardinalityType
<1>6. Cardinality(K) <= Cardinality(J) + 1
  BY <1>1, <1>3, <1>4, <1>5
<1> QED BY <1>4, <1>6 DEF J, K

LEMMA JoinsTail ==
    ASSUME NEW S, NEW q \in Seq(S), q # <<>>
    PROVE  /\ Cardinality(JoinsAt(Tail(q))) <= Cardinality(JoinsAt(q))
           /\ Head(q).what = "join" =>
                 Cardinality(JoinsAt(Tail(q))) <= Cardinality(JoinsAt(q)) - 1
<1> DEFINE J == JoinsAt(q)
           L == J \ {1}
           K == JoinsAt(Tail(q))
           M == {i - 1 : i \in L}
<1>1. IsFiniteSet(J) /\ Cardinality(J) \in Nat /\ J \in SUBSET Nat
  BY JoinsNat
<1>2. Tail(q) \in Seq(S) /\ Len(Tail(q)) = Len(q) - 1 /\ Len(q) \in Nat
      /\ \A i \in 1..Len(Tail(q)) : Tail(q)[i] = q[i + 1]
  BY HeadTailProperties, LenProperties
<1>3. K \subseteq M
  <2>1. ASSUME NEW i \in K PROVE i \in M
    <3>1. i \in 1..Len(Tail(q)) /\ Tail(q)[i].what = "join"
      BY <2>1 DEF JoinsAt
    <3>2. i + 1 \in J /\ i + 1 # 1 /\ (i + 1) - 1 = i
      BY <3>1, <1>2 DEF JoinsAt
    <3> HIDE DEF J
    <3> QED BY <3>2
  <2> QED BY <2>1
<1>4. Head(q).what = "join" => 1 \in J
  <2>1. Head(q) = q[1] /\ 1 \in 1..Len(q)
    BY <1>2
  <2> QED BY <2>1 DEF JoinsAt
<1> HIDE DEF J, K
<1>5. IsFiniteSet(L) /\ Cardinality(L) \in Nat
      /\ Cardinality(L) = IF 1 \in J THEN Cardinality(J) - 1 ELSE Cardinality(J)
  <2>1. IsFiniteSet(J \ {1})
        /\ Cardinality(J \ {1}) = IF 1 \in J THEN Cardinality(J) - 1 ELSE Cardinality(J)
    BY <1>1, FS_RemoveElement
  <2> QED BY <2>1, FS_CardinalityType
<1>6. IsFiniteSet(M) /\ Cardinality(M) <= Cardinality(L)
  <2> DEFINE f == [i \in L |-> i - 1]
  <2>1. f \in Surjection(L, M)
    BY DEF Surjection
  <2> HIDE DEF f, L, M
  <2> QED BY <1>5, <2>1, FS_Surjection
<1>7. IsFiniteSet(K) /\ Cardinality(K) <= Cardinality(M)
  <2> HIDE DEF M
  <2> QED BY <1>3, <1>6, FS_Subset
<1>8. Cardinality(K) \in Nat /\ Cardinality(M) \in Nat
  BY <1>6, <1>7, FS_CardinalityType
<1> HIDE DEF L, M
<1>9. Cardinality(K) <= Cardinality(J)
      /\ (Head(q).what = "join" => Cardinality(K) <= Cardinality(J) - 1)
  BY <1>1, <1>4, <1>5, <1>6, <1>7, <1>8
<1> QED BY <1>9 DEF J, K

LEMMA LobbyInit == Init => LobbyInv
<1> SUFFICES ASSUME Init PROVE LobbyInv
  OBVIOUS
<1> USE LobbyConstants DEF Init
<1>1. RoomTypes
  <2>1. CountTicks - 1 \in Times /\ 0 \in Times /\ BotFill \in 0..BotFill
    BY DEF Times
  <2>2. NoOne \in Rosters
    BY CountNoOne
  <2> QED BY <2>1, <2>2 DEF RoomTypes, Phases, NoOne
<1>2. EachRoom
  <2>1. ASSUME NEW l \in Lobbies
        PROVE  Room(phase[l], kind[l], host[l], timer[l], seat[l], banned[l])
    <3>1. seat[l] = NoOne /\ banned[l] = {} /\ host[l] = 0 /\ kind[l] = "queue"
          /\ timer[l] = (IF l = 1 THEN CountTicks - 1 ELSE 0)
          /\ phase[l] = (IF l = 1 THEN "counting" ELSE "none")
      BY DEF NoOne
    <3>2. timer[l] \in Times /\ (l = 1 => timer[l] >= 1)
      BY <3>1 DEF Times
    <3>3. Externals(NoOne) = {}
      BY CountNoOne DEF Externals, NoOne
    <3>4. NoRepeat(NoOne) /\ NoBanned(NoOne, {})
      BY <3>3 DEF NoRepeat, NoBanned
    <3> HIDE DEF Init
    <3> QED BY <3>1, <3>2, <3>4, CountNoOne DEF Room, Phases
  <2> QED BY <2>1 DEF EachRoom
<1>3. Numbered
  <2>1. 1..MaxLobbies \subseteq Lobbies
    BY DEF Lobbies
  <2> QED BY <2>1 DEF Numbered
<1>4. PortsLeft
  <2>1. Handoffs = {}
    BY DEF Handoffs
  <2> QED BY <2>1, FS_EmptySet DEF PortsLeft
<1>5. Queued
  <2>1. JoinsAt(events) = {}
    BY DEF JoinsAt
  <2>2. JoinsLeft = 0
    BY <2>1, FS_EmptySet DEF JoinsLeft
  <2>3. events \in Seq(GoodEvent) /\ Len(events) = 0
    OBVIOUS
  <2> QED BY <2>2, <2>3 DEF Queued
<1>6. Tasks
  BY DEF Tasks
<1> QED BY <1>1, <1>2, <1>3, <1>4, <1>5, <1>6 DEF LobbyInv

--------------------------------------------------------------------------------
(* The connection tasks.                                                        *)

\* An event that is sent.
LEMMA AskQueued ==
    ASSUME Queued, NEW what, NEW c \in Conns, NEW l, NEW p, NEW arg, Ask(what, c, l, p, arg),
           [what |-> what, conn |-> c, lobby |-> l, pid |-> p, arg |-> arg] \in GoodEvent,
           UNCHANGED nextId,
           \/ what # "join" /\ joins' \in {joins, joins + 1}
           \/ joins' = joins + 1,
           joins' <= MaxJoins
    PROVE  Queued'
<1> DEFINE e == [what |-> what, conn |-> c, lobby |-> l, pid |-> p, arg |-> arg]
<1>1. Len(events) < EventCap /\ events' = Append(events, e) /\ e \in GoodEvent /\ e.what = what
  BY DEF Ask
<1> HIDE DEF e
<1>2. events \in Seq(GoodEvent) /\ JoinsLeft \in Nat /\ Len(events) \in Nat
  BY JoinsNat DEF Queued, JoinsLeft
<1>3. events' \in Seq(GoodEvent) /\ Len(events') = Len(events) + 1 /\ JoinsLeft' \in Nat
  <2>1. events' \in Seq(GoodEvent) /\ Len(events') = Len(events) + 1
    BY <1>1, <1>2
  <2> QED BY <2>1, JoinsNat DEF JoinsLeft
<1>4. JoinsLeft' <= JoinsLeft + 1 /\ (what # "join" => JoinsLeft' <= JoinsLeft)
  BY <1>1, <1>2, JoinsAppend DEF JoinsLeft
<1>5. joins \in Nat /\ joins' \in 0..MaxJoins
  BY LobbyConstants DEF Queued
<1>6. PICK a \in Nat, b \in Nat, i \in Nat, j \in Nat, n \in Nat :
        a = JoinsLeft /\ b = JoinsLeft' /\ i = joins /\ j = joins' /\ n = nextId
  BY <1>2, <1>3, <1>5, LobbyConstants DEF Queued
<1>7. b - a <= j - i
  <2>1. CASE what # "join" /\ joins' \in {joins, joins + 1}
    <3>1. b <= a /\ (j = i \/ j = i + 1)
      BY <2>1, <1>4, <1>6
    <3> QED BY <3>1
  <2>2. CASE joins' = joins + 1
    <3>1. b <= a + 1 /\ j = i + 1
      BY <2>2, <1>4, <1>6
    <3> QED BY <3>1
  <2> QED BY <2>1, <2>2
<1>8. a <= i /\ n + a <= MaxLobbies + 1 + i
  BY <1>6 DEF Queued
<1>9. b <= j /\ n + b <= MaxLobbies + 1 + j
  BY <1>7, <1>8, LobbyConstants
<1>10. Len(events') <= EventCap
  BY <1>1, <1>2, <1>3, LobbyConstants
<1> QED BY <1>3, <1>5, <1>6, <1>9, <1>10 DEF Queued

LEMMA PlaceFacts ==
    ASSUME Tasks, NEW c \in Conns, mine[c] # Nobody
    PROVE  mine[c].lobby \in Lobbies /\ mine[c].pid \in Pids
BY DEF Tasks, Place

\* An event that names the sender's own seat.
LEMMA AskOwn ==
    ASSUME Queued, Tasks, NEW c \in Conns, mine[c] # Nobody,
           NEW what \in {"ready", "start", "kick", "ban", "leave"},
           NEW arg, arg = 0 \/ arg \in Pids, what \in {"kick", "ban"} => arg \in Pids,
           Ask(what, c, mine[c].lobby, mine[c].pid, arg), UNCHANGED <<nextId, joins>>
    PROVE  Queued'
<1>1. mine[c].lobby \in Lobbies /\ mine[c].pid \in Pids
  BY PlaceFacts
<1>2. [what |-> what, conn |-> c, lobby |-> mine[c].lobby, pid |-> mine[c].pid, arg |-> arg]
        \in GoodEvent
  BY <1>1 DEF GoodEvent, Event, Targets
<1> QED BY <1>2, AskQueued DEF Queued

LEMMA QueuedSame ==
    ASSUME Queued, UNCHANGED <<events, joins, nextId>>
    PROVE  Queued'
BY DEF Queued, JoinsLeft

LEMMA ConnStep ==
    ASSUME Queued, Tasks, NEW c \in Conns, ConnTask(c)
    PROVE  Queued' /\ Tasks' /\ UNCHANGED lobbyVars
<1> USE DEF Tasks
<1>1. ASSUME NEW what \in {"host", "join"}, NEW target \in Targets, SendJoin(c, what, target)
      PROVE  Queued' /\ Tasks' /\ UNCHANGED lobbyVars
  <2>1. [what |-> what, conn |-> c, lobby |-> 0, pid |-> 0, arg |-> target] \in GoodEvent
    BY DEF GoodEvent, Event
  <2>2. joins' = joins + 1 /\ joins' <= MaxJoins /\ UNCHANGED nextId
    BY <1>1, LobbyConstants DEF SendJoin, Queued, lobbyVars
  <2>3. Queued'
    BY <1>1, <2>1, <2>2, AskQueued DEF SendJoin
  <2> QED BY <1>1, <2>3 DEF SendJoin
<1>2. CASE SendReady(c)
  BY <1>2, AskOwn DEF SendReady, lobbyVars, connVars
<1>3. CASE SendStart(c)
  BY <1>3, AskOwn DEF SendStart, lobbyVars, connVars
<1>4. ASSUME NEW what \in {"kick", "ban"}, NEW p \in Pids, SendKick(c, what, p)
      PROVE  Queued' /\ Tasks' /\ UNCHANGED lobbyVars
  BY <1>4, AskOwn DEF SendKick, lobbyVars, connVars
<1>5. CASE ReceiveAck(c)
  <2>1. acks[c] \in Seq(Place) /\ acks[c] # <<>>
    BY <1>5 DEF ReceiveAck
  <2>2. Head(acks[c]) \in Place /\ Tail(acks[c]) \in Seq(Place)
    <3> DEFINE a == acks[c]
    <3>1. a \in Seq(Place) /\ a # <<>>
      BY <2>1
    <3> HIDE DEF a
    <3>2. Head(a) \in Place /\ Tail(a) \in Seq(Place)
      BY <3>1, HeadTailProperties
    <3> QED BY <3>2 DEF a
  <2>3. Tasks'
    BY <1>5, <2>2 DEF ReceiveAck
  <2> QED BY <1>5, <2>3, QueuedSame DEF ReceiveAck, lobbyVars
<1>6. CASE SendLeave(c)
  <2>1. Queued'
    BY <1>6, AskOwn DEF SendLeave, lobbyVars
  <2> QED BY <1>6, <2>1 DEF SendLeave
<1>7. CASE Close(c)
  <2>1. Queued'
    <3>1. CASE mine[c] = Nobody
      BY <1>7, <3>1, QueuedSame DEF Close, lobbyVars
    <3>2. CASE mine[c] # Nobody
      BY <1>7, <3>2, AskOwn DEF Close, lobbyVars
    <3> QED BY <3>1, <3>2
  <2>2. Tasks'
    BY <1>7 DEF Close
  <2> QED BY <1>7, <2>1, <2>2 DEF Close
<1>8. 0 \in Targets
  BY DEF Targets
<1> QED BY <1>1, <1>2, <1>3, <1>4, <1>5, <1>6, <1>7, <1>8 DEF ConnTask

--------------------------------------------------------------------------------
(* The event that is handled.                                                   *)

LEMMA TakeQueued ==
    ASSUME Queued, NEW what, Take(what), UNCHANGED joins,
           \/ nextId' = nextId
           \/ nextId' = nextId + 1 /\ (nextId <= MaxLobbies \/ what = "join")
    PROVE  Queued'
<1>1. events \in Seq(GoodEvent) /\ events # <<>> /\ Head(events).what = what
      /\ events' = Tail(events)
  BY DEF Queued, Take
<1>2. events' \in Seq(GoodEvent) /\ Len(events') = Len(events) - 1 /\ Len(events) \in Nat
  BY <1>1, HeadTailProperties, LenProperties
<1>3. JoinsLeft' <= JoinsLeft /\ (what = "join" => JoinsLeft' <= JoinsLeft - 1)
  BY <1>1, JoinsTail DEF JoinsLeft
<1>4. JoinsLeft \in Nat /\ JoinsLeft' \in Nat
  BY <1>1, <1>2, JoinsNat DEF JoinsLeft
<1>5. PICK a \in Nat, b \in Nat, i \in Nat, n \in Nat, m \in Nat :
        a = JoinsLeft /\ b = JoinsLeft' /\ i = joins /\ n = nextId /\ m = nextId'
  <2>1. joins \in Nat /\ nextId \in Nat
    BY LobbyConstants DEF Queued
  <2>2. nextId' \in Nat
    BY <2>1
  <2> QED BY <1>4, <2>1, <2>2
<1>6. b <= a /\ (what = "join" => b <= a - 1)
  BY <1>3, <1>5
<1>7. m = n \/ (m = n + 1 /\ (n <= MaxLobbies \/ what = "join"))
  BY <1>5
<1>8. a <= i /\ n + a <= MaxLobbies + 1 + i
  BY <1>5 DEF Queued
<1>9. b <= i /\ m + b <= MaxLobbies + 1 + i
  <2>1. CASE what = "join"
    BY <2>1, <1>6, <1>7, <1>8, LobbyConstants
  <2>2. CASE what # "join"
    BY <2>2, <1>6, <1>7, <1>8, LobbyConstants
  <2> QED BY <2>1, <2>2
<1>10. Len(events') <= EventCap
  BY <1>2, LobbyConstants DEF Queued
<1> QED BY <1>2, <1>5, <1>9, <1>10 DEF Queued

LEMMA TakeGood ==
    ASSUME Queued, NEW what, Take(what)
    PROVE  /\ Head(events) \in GoodEvent /\ Head(events).conn \in Conns
           /\ Head(events).what = what
           /\ what = "join" => Head(events).arg \in Targets
           /\ what \in {"ready", "start", "kick", "ban", "leave"} =>
                 Head(events).lobby \in Lobbies /\ Head(events).pid \in Pids
           /\ what \in {"kick", "ban"} => Head(events).arg \in Pids
<1>1. events \in Seq(GoodEvent) /\ events # <<>> /\ Head(events).what = what
  BY DEF Queued, Take
<1>2. Head(events) \in GoodEvent
  BY <1>1, HeadTailProperties
<1> QED BY <1>1, <1>2 DEF GoodEvent, Event

--------------------------------------------------------------------------------
(* What a Join comes to: a seat taken over, a seat added, a lobby spawned, or    *)
(* nothing.                                                                     *)

Over(c, l) ==
    /\ phase[l] # "none"
    /\ \E p \in SameAccount(c, seat[l]) : seat' = [seat EXCEPT ![l] = [seat[l] EXCEPT ![p] = c]]
    /\ UNCHANGED <<phase, kind, host>>

Added(c, l) ==
    /\ HasRoom(l) /\ ~Barred(c, l) /\ SameAccount(c, seat[l]) = {}
    /\ \E p \in Pids : /\ p \notin Seated(seat[l])
                       /\ seat' = [seat EXCEPT ![l] = [seat[l] EXCEPT ![p] = c]]
    /\ UNCHANGED <<phase, kind, host>>

Spawned(c, l) ==
    /\ phase[l] = "none" /\ phase' = [phase EXCEPT ![l] = "waiting"]
    /\ \E k \in {"queue", "custom"}, h \in {0, 1} :
          /\ k = "queue" => h = 0
          /\ kind' = [kind EXCEPT ![l] = k] /\ host' = [host EXCEPT ![l] = h]
    /\ seat' = [seat EXCEPT ![l] = [NoOne EXCEPT ![1] = c]]

Idle == UNCHANGED <<phase, kind, host, seat>>

AcksGood == acks' \in [Conns -> Seq(Place)]

LEMMA EnterShape ==
    ASSUME Tasks, NEW c \in Conns, NEW l \in Lobbies, NEW s \in Rosters, Enter(c, l, s)
    PROVE  /\ AcksGood
           /\ \/ \E p \in SameAccount(c, s) : seat' = [seat EXCEPT ![l] = [s EXCEPT ![p] = c]]
              \/ /\ SameAccount(c, s) = {}
                 /\ \E p \in Pids : /\ p \notin Seated(s) /\ (s = NoOne => p = 1)
                                    /\ seat' = [seat EXCEPT ![l] = [s EXCEPT ![p] = c]]
<1> DEFINE same == SameAccount(c, s)
           p == IF same # {} THEN Lowest(same) ELSE Highest(Seated(s)) + 1
<1>1. /\ p \in Pids
      /\ seat' = [seat EXCEPT ![l] = [s EXCEPT ![p] = c]]
      /\ acks' = IF c \in open
                 THEN [acks EXCEPT ![c] = Append(@, [lobby |-> l, pid |-> p])]
                 ELSE acks
  BY DEF Enter
<1>2. AcksGood
  <2>1. [lobby |-> l, pid |-> p] \in Place
    BY <1>1 DEF Place
  <2>2. Append(acks[c], [lobby |-> l, pid |-> p]) \in Seq(Place)
    <3> DEFINE e == [lobby |-> l, pid |-> p]
    <3>1. e \in Place /\ acks[c] \in Seq(Place)
      BY <2>1 DEF Tasks
    <3> HIDE DEF e
    <3>2. Append(acks[c], e) \in Seq(Place)
      BY <3>1
    <3> QED BY <3>2 DEF e
  <2> HIDE DEF p
  <2> QED BY <1>1, <2>2 DEF AcksGood, Tasks
<1>3. CASE same # {}
  <2>1. same \subseteq Nat
    BY LobbyConstants DEF SameAccount
  <2>2. Lowest(same) \in same
    <3> HIDE DEF same
    <3> QED BY <1>3, <2>1, LowestIn
  <2> QED BY <1>1, <1>2, <1>3, <2>2
<1>4. CASE same = {}
  <2>1. p = Highest(Seated(s)) + 1
    BY <1>4
  <2>2. \A q \in Seated(s) : q <= Highest(Seated(s)) /\ q \in Nat
    BY HighestIn, CountNat, LobbyConstants
  <2>3. Highest(Seated(s)) \in Nat /\ (s = NoOne => Highest(Seated(s)) = 0)
    BY HighestIn, CountNat, CountNoOne
  <2> HIDE DEF p, same
  <2>4. p \notin Seated(s) /\ (s = NoOne => p = 1)
    BY <2>1, <2>2, <2>3
  <2> QED BY <1>1, <1>2, <1>4, <2>4 DEF same
<1> QED BY <1>3, <1>4

LEMMA AdmitShape ==
    ASSUME RoomTypes, Tasks, NEW c \in Conns, NEW l \in Lobbies, HasRoom(l), Admit(c, l)
    PROVE  AcksGood /\ nextId' = nextId /\ (Over(c, l) \/ Added(c, l) \/ Idle)
<1>1. seat[l] \in Rosters /\ phase[l] # "none"
  BY DEF RoomTypes, HasRoom, Joinable
<1>2. CASE ~Barred(c, l) /\ Enter(c, l, seat[l]) /\ UNCHANGED <<nextId, phase, kind, host>>
  BY <1>1, <1>2, EnterShape DEF Over, Added
<1>3. CASE Refused
  BY <1>3 DEF Refused, Idle, AcksGood, Tasks
<1> QED BY <1>2, <1>3 DEF Admit

LEMMA SpawnShape ==
    ASSUME RoomTypes, Tasks, NEW c \in Conns, NEW l \in Lobbies,
           NEW k \in {"queue", "custom"}, NEW h \in {0, 1}, k = "queue" => h = 0,
           SpawnFor(c, l, k, h)
    PROVE  AcksGood /\ Spawned(c, l)
<1>1. Enter(c, l, NoOne) /\ NoOne \in Rosters
  BY CountNoOne DEF SpawnFor, NoOne
<1>2. SameAccount(c, NoOne) = {}
  BY LobbyConstants DEF SameAccount, NoOne
<1>3. AcksGood /\ seat' = [seat EXCEPT ![l] = [NoOne EXCEPT ![1] = c]]
  BY <1>1, <1>2, EnterShape
<1> QED BY <1>3 DEF SpawnFor, Spawned

LEMMA JoinShape ==
    ASSUME RoomTypes, Numbered, Queued, Tasks, HandleJoin
    PROVE  /\ AcksGood /\ Queued'
           /\ UNCHANGED <<timer, ready, banned, pending, used, open, mine, joins>>
           /\ nextId' \in {nextId, nextId + 1}
           /\ \E c \in Conns : \/ Idle
                               \/ \E l \in Lobbies :
                                    \/ Over(c, l) \/ Added(c, l)
                                    \/ Spawned(c, l) /\ (l \in 1..MaxLobbies => l = nextId /\ nextId' = nextId + 1)
<1> DEFINE e == Head(events)
           Shape == \E c \in Conns : \/ Idle
                               \/ \E l \in Lobbies :
                                    \/ Over(c, l) \/ Added(c, l)
                                    \/ Spawned(c, l) /\ (l \in 1..MaxLobbies => l = nextId /\ nextId' = nextId + 1)
<1>1. UNCHANGED <<timer, ready, banned, pending, used, open, mine, joins>>
  BY DEF HandleJoin
<1>2. nextId \in Nat /\ (nextId <= MaxLobbies => nextId \in Lobbies)
  BY LobbyConstants DEF Numbered, Lobbies
<1>3. CASE Take("host")
  <2>1. e.conn \in Conns /\ JoinAsHost(e.conn)
    BY <1>3, TakeGood DEF HandleJoin
  <2>2. nextId <= MaxLobbies /\ nextId' = nextId + 1 /\ SpawnFor(e.conn, nextId, "custom", 1)
    BY <2>1 DEF JoinAsHost
  <2>3. AcksGood /\ Spawned(e.conn, nextId)
    BY <1>2, <2>1, <2>2, SpawnShape
  <2>4. Queued'
    BY <1>1, <1>3, <2>2, TakeQueued
  <2> QED BY <1>1, <1>2, <2>1, <2>2, <2>3, <2>4
<1>4. CASE Take("join")
  <2> DEFINE c == e.conn
  <2>1. c \in Conns /\ e.what = "join" /\ e.arg \in Targets
    BY <1>4, TakeGood
  <2>2. IF e.arg = 0 THEN JoinQuick(c) ELSE JoinLobby(c, e.arg)
    BY <2>1 DEF HandleJoin
  <2> HIDE DEF c, e
  <2>3. ASSUME AcksGood, nextId' \in {nextId, nextId + 1}, Shape
        PROVE  AcksGood /\ Queued' /\ nextId' \in {nextId, nextId + 1} /\ Shape
    <3>1. Queued'
      BY <1>1, <1>4, <2>3, TakeQueued
    <3> QED BY <2>3, <3>1
  <2>4. CASE e.arg = 0
    <3>1. JoinQuick(c)
      BY <2>2, <2>4
    <3>2. CASE QueueWithRoom # {}
      <4>1. Lowest(QueueWithRoom) \in QueueWithRoom
        <5>1. QueueWithRoom \subseteq Nat
          BY LobbyConstants DEF QueueWithRoom
        <5> QED BY <3>2, <5>1, LowestIn
      <4>2. PICK l \in Lobbies : HasRoom(l) /\ Admit(c, l)
        BY <3>1, <3>2, <4>1 DEF JoinQuick, QueueWithRoom
      <4>3. AcksGood /\ nextId' = nextId /\ (Over(c, l) \/ Added(c, l) \/ Idle)
        BY <2>1, <4>2, AdmitShape
      <4> QED BY <1>1, <2>1, <2>3, <4>3
    <3>3. CASE QueueWithRoom = {}
      <4>1. nextId <= MaxLobbies /\ nextId' = nextId + 1 /\ SpawnFor(c, nextId, "queue", 0)
        BY <3>1, <3>3 DEF JoinQuick
      <4>2. AcksGood /\ Spawned(c, nextId)
        BY <1>2, <2>1, <4>1, SpawnShape
      <4> QED BY <1>1, <1>2, <2>1, <2>3, <4>1, <4>2
    <3> QED BY <3>2, <3>3
  <2>5. CASE e.arg # 0
    <3> DEFINE l == e.arg
    <3>1. l \in Lobbies /\ JoinLobby(c, l)
      BY <2>1, <2>2, <2>5 DEF Targets
    <3> HIDE DEF l
    <3>2. CASE HasRoom(l)
      <4>1. AcksGood /\ nextId' = nextId /\ (Over(c, l) \/ Added(c, l) \/ Idle)
        BY <2>1, <3>1, <3>2, AdmitShape DEF JoinLobby
      <4> QED BY <1>1, <2>1, <2>3, <3>1, <4>1
    <3>3. CASE ~HasRoom(l) /\ l \notin Rematch
      <4>1. AcksGood /\ nextId' = nextId /\ Idle
        BY <3>1, <3>3 DEF JoinLobby, Refused, Idle, AcksGood, Tasks
      <4> QED BY <1>1, <2>1, <2>3, <4>1
    <3>4. CASE ~HasRoom(l) /\ l \in Rematch
      <4>1. nextId' = nextId + 1 /\ l \notin 1..MaxLobbies
        BY <3>1, <3>4, LobbyConstants DEF JoinLobby, Rematch
      <4>2. CASE phase[l] = "none"
        <5>1. AcksGood /\ Spawned(c, l)
          BY <2>1, <3>1, <3>4, <4>2, SpawnShape DEF JoinLobby
        <5> QED BY <1>1, <2>1, <2>3, <3>1, <4>1, <5>1
      <4>3. CASE phase[l] # "none" /\ Joinable(l) /\ SameAccount(c, seat[l]) # {}
        <5>1. Enter(c, l, seat[l]) /\ UNCHANGED <<phase, kind, host>>
          BY <3>1, <3>4, <4>3 DEF JoinLobby
        <5>2. AcksGood /\ Over(c, l)
          BY <2>1, <3>1, <4>3, <5>1, EnterShape DEF Over, RoomTypes
        <5> QED BY <1>1, <2>1, <2>3, <3>1, <4>1, <5>2
      <4>4. CASE phase[l] # "none" /\ ~(Joinable(l) /\ SameAccount(c, seat[l]) # {})
        <5>1. AcksGood /\ Idle
          BY <3>1, <3>4, <4>4 DEF JoinLobby, Idle, AcksGood, Tasks
        <5> QED BY <1>1, <2>1, <2>3, <4>1, <5>1
      <4> QED BY <4>2, <4>3, <4>4
    <3> QED BY <3>2, <3>3, <3>4
  <2> QED BY <1>1, <2>4, <2>5
<1> QED BY <1>3, <1>4 DEF HandleJoin

--------------------------------------------------------------------------------
(* The handlers keep the rooms in order.                                        *)

\* A step that changes at most one lobby.
LEMMA OneRoom ==
    ASSUME EachRoom, RoomTypes', NEW l \in Lobbies,
           \A m \in Lobbies \ {l} :
              UNCHANGED <<phase[m], kind[m], host[m], timer[m], seat[m], banned[m]>>,
           Room(phase'[l], kind'[l], host'[l], timer'[l], seat'[l], banned'[l])
    PROVE  EachRoom'
<1>1. ASSUME NEW m \in Lobbies
      PROVE  Room(phase'[m], kind'[m], host'[m], timer'[m], seat'[m], banned'[m])
  <2>1. CASE m = l
    BY <2>1
  <2>2. CASE m # l
    <3>1. /\ phase'[m] = phase[m] /\ kind'[m] = kind[m] /\ host'[m] = host[m]
          /\ timer'[m] = timer[m] /\ seat'[m] = seat[m] /\ banned'[m] = banned[m]
      BY <2>2
    <3>2. Room(phase[m], kind[m], host[m], timer[m], seat[m], banned[m])
      BY DEF EachRoom
    <3> QED BY <3>1, <3>2
  <2> QED BY <2>1, <2>2
<1> QED BY <1>1 DEF EachRoom

LEMMA RoomsSame ==
    ASSUME LobbyInv, UNCHANGED lobbyVars, Queued', Tasks'
    PROVE  LobbyInv'
<1>1. RoomTypes' /\ EachRoom' /\ Numbered' /\ Handoffs' = Handoffs
  BY DEF LobbyInv, lobbyVars, RoomTypes, EachRoom, Numbered, Handoffs
<1> QED BY <1>1 DEF LobbyInv, PortsLeft, lobbyVars

\* Steps that give no lobby to a relay and name no new one.
LEMMA PortsSame ==
    ASSUME PortsLeft, UNCHANGED used, Handoffs' = Handoffs
    PROVE  PortsLeft'
BY DEF PortsLeft

LEMMA JoinStep ==
    ASSUME LobbyInv, HandleJoin
    PROVE  LobbyInv'
<1>1. /\ AcksGood /\ Queued'
      /\ UNCHANGED <<timer, ready, banned, pending, used, open, mine, joins>>
      /\ nextId' \in {nextId, nextId + 1}
  BY JoinShape DEF LobbyInv
<1>2. PICK c \in Conns : \/ Idle
                         \/ \E l \in Lobbies :
                              \/ Over(c, l) \/ Added(c, l)
                              \/ Spawned(c, l) /\ (l \in 1..MaxLobbies => l = nextId /\ nextId' = nextId + 1)
  BY JoinShape DEF LobbyInv
<1>3. Tasks'
  BY <1>1 DEF LobbyInv, Tasks, AcksGood
<1>4. nextId \in Nat \ {0} /\ nextId' \in Nat \ {0}
  BY <1>1 DEF LobbyInv, Numbered
<1>5. CASE Idle
  <2>1. RoomTypes' /\ EachRoom' /\ Handoffs' = Handoffs
    BY <1>1, <1>5 DEF LobbyInv, Idle, RoomTypes, EachRoom, Handoffs
  <2>2. Numbered'
    BY <1>1, <1>4, <1>5 DEF LobbyInv, Idle, Numbered
  <2> QED BY <1>1, <1>3, <2>1, <2>2, PortsSame DEF LobbyInv
<1>6. ASSUME NEW l \in Lobbies, Over(c, l) \/ Added(c, l)
      PROVE  LobbyInv'
  <2>1. PICK p \in Pids : /\ seat' = [seat EXCEPT ![l] = [seat[l] EXCEPT ![p] = c]]
                          /\ \/ p \in SameAccount(c, seat[l]) /\ phase[l] # "none"
                             \/ /\ p \notin Seated(seat[l]) /\ SameAccount(c, seat[l]) = {}
                                /\ HasRoom(l) /\ ~Barred(c, l)
    BY <1>6 DEF Over, Added, SameAccount
  <2>2. UNCHANGED <<phase, kind, host>>
    BY <1>6 DEF Over, Added
  <2>3. Room(phase[l], kind[l], host[l], timer[l], seat[l], banned[l])
    BY DEF LobbyInv, EachRoom
  <2>4. seat[l] \in Rosters
    BY DEF LobbyInv, RoomTypes
  <2> DEFINE r == [seat[l] EXCEPT ![p] = c]
  <2>5. Room(phase[l], kind[l], host[l], timer[l], r, banned[l])
    <3>1. CASE p \in SameAccount(c, seat[l]) /\ phase[l] # "none"
      BY <2>3, <3>1, RoomTakeover
    <3>2. CASE /\ p \notin Seated(seat[l]) /\ SameAccount(c, seat[l]) = {}
               /\ HasRoom(l) /\ ~Barred(c, l)
      <4>1. phase[l] # "none" /\ Count(seat[l]) < Cap /\ Identity(c) \notin banned[l]
        BY <3>2 DEF HasRoom, Joinable, Size, Count, Barred
      <4> QED BY <2>3, <3>2, <4>1, RoomEnter
    <3> QED BY <2>1, <3>1, <3>2
  <2>6. r \in Rosters
    BY <2>4 DEF Rosters
  <2> HIDE DEF r
  <2>7. seat' = [seat EXCEPT ![l] = r]
    BY <2>1 DEF r
  <2>8. RoomTypes'
    BY <1>1, <2>2, <2>6, <2>7 DEF LobbyInv, RoomTypes
  <2>9. EachRoom'
    <3>1. seat'[l] = r /\ \A m \in Lobbies \ {l} : seat'[m] = seat[m]
      BY <2>7 DEF LobbyInv, RoomTypes
    <3> QED BY <1>1, <2>2, <2>5, <2>8, <3>1, OneRoom DEF LobbyInv
  <2>10. Numbered' /\ Handoffs' = Handoffs
    BY <1>1, <1>4, <2>2 DEF LobbyInv, Numbered, Handoffs
  <2> QED BY <1>1, <1>3, <2>8, <2>9, <2>10, PortsSame DEF LobbyInv
<1>7. ASSUME NEW l \in Lobbies, Spawned(c, l), l \in 1..MaxLobbies => l = nextId /\ nextId' = nextId + 1
      PROVE  LobbyInv'
  <2>1. PICK k \in {"queue", "custom"}, h \in {0, 1} :
           /\ k = "queue" => h = 0
           /\ kind' = [kind EXCEPT ![l] = k] /\ host' = [host EXCEPT ![l] = h]
    BY <1>7 DEF Spawned
  <2> DEFINE r == [NoOne EXCEPT ![1] = c]
  <2>2. /\ phase[l] = "none" /\ phase' = [phase EXCEPT ![l] = "waiting"]
        /\ seat' = [seat EXCEPT ![l] = r]
    BY <1>7 DEF Spawned
  <2>3. timer[l] \in Times /\ banned[l] = {}
    BY <2>2 DEF LobbyInv, RoomTypes, EachRoom, Room
  <2>4. Room("waiting", k, h, timer[l], r, {}) /\ r \in Rosters
    <3>1. Room("waiting", k, h, timer[l], r, {})
      BY <2>1, <2>3, RoomSpawn
    <3> QED BY <3>1 DEF Room
  <2> HIDE DEF r
  <2>5. RoomTypes'
    BY <1>1, <2>1, <2>2, <2>4 DEF LobbyInv, RoomTypes, Phases
  <2>6. EachRoom'
    <3>1. /\ phase'[l] = "waiting" /\ kind'[l] = k /\ host'[l] = h /\ seat'[l] = r
          /\ \A m \in Lobbies \ {l} : UNCHANGED <<phase[m], kind[m], host[m], seat[m]>>
      BY <2>1, <2>2 DEF LobbyInv, RoomTypes
    <3> QED BY <1>1, <2>3, <2>4, <2>5, <3>1, OneRoom DEF LobbyInv
  <2>7. Numbered'
    <3>1. ASSUME NEW m \in 1..MaxLobbies, m >= nextId' PROVE phase'[m] = "none"
      <4>1. phase[m] = "none" /\ m \in Lobbies /\ m # l
        BY <1>1, <1>4, <1>7, <3>1, LobbyConstants DEF LobbyInv, Numbered, Lobbies
      <4> QED BY <2>2, <4>1 DEF LobbyInv, RoomTypes
    <3> QED BY <1>4, <3>1 DEF Numbered
  <2>8. Handoffs' = Handoffs
    BY <2>2 DEF Handoffs, LobbyInv, RoomTypes
  <2> QED BY <1>1, <1>3, <2>5, <2>6, <2>7, <2>8, PortsSame DEF LobbyInv
<1> QED BY <1>2, <1>5, <1>6, <1>7

\* A seat is vacated, by its player or by the host, and perhaps barred.
LEMMA VacateStep ==
    ASSUME LobbyInv, NEW l \in Lobbies, NEW p \in Pids, Vacate(l, p), InGames(l),
           Joinable(l) /\ host[l] # 0 => p # host[l],
           NEW e \in SUBSET (Conns \cup Accounts), banned' = [banned EXCEPT ![l] = e],
           banned[l] \subseteq e,
           \/ e = banned[l]
           \/ seat[l][p] \in Conns /\ e = banned[l] \cup {Identity(seat[l][p])},
           UNCHANGED <<phase, kind, host, timer, pending>>
    PROVE  RoomTypes' /\ EachRoom'
<1> DEFINE s == seat[l]
           r == [s EXCEPT ![p] = Empty]
<1>1. s \in Rosters /\ phase[l] \in Phases /\ phase[l] # "none" /\ timer[l] \in Times /\ host[l] \in {0, 1}
  BY DEF LobbyInv, RoomTypes, InGames
<1>2. Room(phase[l], kind[l], host[l], timer[l], s, banned[l])
  BY DEF LobbyInv, EachRoom
<1>3. r \in Rosters /\ \A q \in Pids : r[q] = IF q = p THEN Empty ELSE s[q]
  BY <1>1 DEF Rosters
<1>4. seat' = [seat EXCEPT ![l] = r]
  BY DEF Vacate
<1>5. ready' \in [Lobbies -> SUBSET Pids]
  BY DEF Vacate, LobbyInv, RoomTypes
<1> HIDE DEF s, r
<1>6. \A q \in Externals(r) : q \in Externals(s) /\ q # p /\ r[q] = s[q]
  BY <1>3 DEF Externals
<1>7. NoBanned(r, e)
  <2>1. CASE e = banned[l]
    BY <1>2, <1>6, <2>1 DEF Room, NoBanned
  <2>2. CASE s[p] \in Conns /\ e = banned[l] \cup {Identity(s[p])}
    <3>1. ASSUME NEW q \in Externals(r), Account[r[q]] # Guest
          PROVE  Account[r[q]] \notin e
      <4>1. q \in Externals(s) /\ q # p /\ r[q] = s[q] /\ Account[s[q]] \in Accounts
        BY <1>1, <1>6, <3>1, RosterFacts
      <4>2. Account[s[q]] \notin banned[l]
        BY <1>2, <3>1, <4>1 DEF Room, NoBanned
      <4>3. p \in Externals(s)
        BY <2>2, <1>1, RosterFacts
      <4>4. Account[s[q]] # Account[s[p]]
        BY <1>2, <3>1, <4>1, <4>3 DEF Room, NoRepeat
      <4>5. Account[s[q]] # Identity(s[p])
        BY <2>2, <4>1, <4>4, LobbyConstants DEF Identity
      <4> QED BY <2>2, <4>1, <4>2, <4>5
    <3> QED BY <3>1 DEF NoBanned
  <2> QED BY <2>1, <2>2 DEF s
<1>8. phase[l] \in {"waiting", "counting"} => host[l] = 0 \/ r[host[l]] = s[host[l]]
  BY <1>1, <1>3, LobbyConstants DEF Joinable
<1>9. Room(phase[l], kind[l], host[l], timer[l], r, e)
  <2>1. \A q \in Pids : r[q] \in {s[q], Empty}
    BY <1>3
  <2>2. phase[l] \in {"counting", "loading"} => timer[l] >= 1
    BY <1>2 DEF Room
  <2> QED BY <1>1, <1>2, <1>3, <1>7, <1>8, <2>1, <2>2, RoomShrink
<1>10. RoomTypes'
  BY <1>3, <1>4, <1>5 DEF LobbyInv, RoomTypes
<1>11. /\ seat'[l] = r /\ banned'[l] = e
       /\ \A m \in Lobbies \ {l} : seat'[m] = seat[m] /\ banned'[m] = banned[m]
  BY <1>4 DEF LobbyInv, RoomTypes
<1> QED BY <1>9, <1>10, <1>11, OneRoom DEF LobbyInv

\* A lobby that is gone, or starts to count down.
LEMMA PhaseStep ==
    ASSUME LobbyInv, NEW l \in Lobbies, NEW ph \in {"gone", "counting"}, NEW t \in Times,
           phase[l] # "none", phase' = [phase EXCEPT ![l] = ph],
           ph = "counting" => phase[l] \in {"waiting", "counting"} /\ t >= 1,
           timer' = [timer EXCEPT ![l] = t],
           UNCHANGED <<kind, host, seat, ready, banned, pending>>
    PROVE  RoomTypes' /\ EachRoom'
<1>1. Room(phase[l], kind[l], host[l], timer[l], seat[l], banned[l])
  BY DEF LobbyInv, EachRoom
<1>2. Room(ph, kind[l], host[l], t, seat[l], banned[l])
  BY <1>1 DEF Room, Phases
<1>3. RoomTypes'
  BY DEF LobbyInv, RoomTypes, Phases
<1>4. /\ phase'[l] = ph /\ timer'[l] = t
      /\ \A m \in Lobbies \ {l} : phase'[m] = phase[m] /\ timer'[m] = timer[m]
  BY DEF LobbyInv, RoomTypes
<1> QED BY <1>2, <1>3, <1>4, OneRoom DEF LobbyInv

\* Only the lobby itself changed phase, and had one.
LEMMA PhaseAside ==
    ASSUME LobbyInv, NEW l \in Lobbies, NEW ph \in {"gone", "counting"},
           phase[l] \notin {"none", "handed"}, phase' = [phase EXCEPT ![l] = ph],
           UNCHANGED <<nextId, used>>
    PROVE  Numbered' /\ PortsLeft'
<1>1. Handoffs' = Handoffs
  BY DEF Handoffs, LobbyInv, RoomTypes
<1>2. Numbered'
  BY DEF Numbered, LobbyInv, RoomTypes
<1> QED BY <1>1, <1>2, PortsSame DEF LobbyInv

LEMMA LeaveStep ==
    ASSUME LobbyInv, HandleLeave
    PROVE  LobbyInv'
<1> DEFINE l == Head(events).lobby
           p == Head(events).pid
<1>1. l \in Lobbies /\ p \in Pids /\ Take("leave")
  BY TakeGood DEF HandleLeave, LobbyInv
<1>2. UNCHANGED <<nextId, kind, host, timer, banned, pending, used, open, mine, acks, joins>>
  BY DEF HandleLeave, connVars
<1>3. IF InGames(l) /\ phase[l] # "ready" /\ HostOf(l, p)
      THEN phase' = [phase EXCEPT ![l] = "gone"] /\ UNCHANGED <<seat, ready>>
      ELSE /\ UNCHANGED phase
           /\ IF InGames(l) THEN Vacate(l, p) ELSE UNCHANGED <<seat, ready>>
  BY DEF HandleLeave
<1> HIDE DEF l, p
<1>4. Queued'
  BY <1>1, <1>2, TakeQueued DEF LobbyInv
<1>5. Tasks'
  BY <1>2 DEF LobbyInv, Tasks
<1>6. CASE InGames(l) /\ phase[l] # "ready" /\ HostOf(l, p)
  <2>1. phase' = [phase EXCEPT ![l] = "gone"] /\ UNCHANGED <<seat, ready>>
    BY <1>3, <1>6
  <2>2. timer' = [timer EXCEPT ![l] = timer[l]] /\ timer[l] \in Times
    BY <1>1, <1>2 DEF LobbyInv, RoomTypes
  <2>3. phase[l] \notin {"none", "handed"}
    BY <1>6 DEF InGames
  <2> QED BY <1>1, <1>2, <1>4, <1>5, <2>1, <2>2, <2>3, PhaseStep, PhaseAside DEF LobbyInv
<1>7. CASE ~(InGames(l) /\ phase[l] # "ready" /\ HostOf(l, p)) /\ InGames(l)
  <2>1. Vacate(l, p) /\ UNCHANGED phase
    BY <1>3, <1>7
  <2>2. kind[l] = "queue" => host[l] = 0
    BY <1>1 DEF LobbyInv, EachRoom, Room
  <2>3. kind[l] \in {"queue", "custom"} /\ banned[l] \in SUBSET (Conns \cup Accounts)
        /\ banned' = [banned EXCEPT ![l] = banned[l]]
    BY <1>1, <1>2 DEF LobbyInv, RoomTypes
  <2>4. Joinable(l) /\ host[l] # 0 => p # host[l]
    BY <1>7, <2>2, <2>3 DEF HostOf, Joinable
  <2>5. RoomTypes' /\ EachRoom'
    BY <1>1, <1>2, <1>7, <2>1, <2>3, <2>4, VacateStep
  <2>6. Numbered' /\ Handoffs' = Handoffs
    BY <1>2, <2>1 DEF LobbyInv, Numbered, Handoffs
  <2> QED BY <1>2, <1>4, <1>5, <2>5, <2>6, PortsSame DEF LobbyInv
<1>8. CASE ~InGames(l)
  <2>1. UNCHANGED lobbyVars
    BY <1>2, <1>3, <1>8 DEF lobbyVars
  <2> QED BY <1>4, <1>5, <2>1, RoomsSame
<1> QED BY <1>6, <1>7, <1>8

LEMMA ReadyStep ==
    ASSUME LobbyInv, HandleReady
    PROVE  LobbyInv'
<1> DEFINE l == Head(events).lobby
           p == Head(events).pid
<1>1. l \in Lobbies /\ p \in Pids /\ Take("ready")
  BY TakeGood DEF HandleReady, LobbyInv
<1>2. UNCHANGED <<nextId, phase, kind, host, timer, seat, banned, pending, used, open, mine, acks,
                  joins>>
      /\ ready' = IF InGames(l) THEN [ready EXCEPT ![l] = @ \cup {p}] ELSE ready
  BY DEF HandleReady, connVars
<1> HIDE DEF l, p
<1>3. Queued'
  BY <1>1, <1>2, TakeQueued DEF LobbyInv
<1>4. Tasks' /\ EachRoom' /\ Numbered' /\ Handoffs' = Handoffs
  BY <1>2 DEF LobbyInv, Tasks, EachRoom, Numbered, Handoffs
<1>5. RoomTypes'
  BY <1>1, <1>2 DEF LobbyInv, RoomTypes
<1> QED BY <1>2, <1>3, <1>4, <1>5, PortsSame DEF LobbyInv

LEMMA KickStep ==
    ASSUME LobbyInv, HandleKick
    PROVE  LobbyInv'
<1> DEFINE e == Head(events)
           l == e.lobby
           s == seat[l]
           may == InGames(l) /\ MayCommand(l, e.pid) /\ e.arg # e.pid /\ s[e.arg] # Empty
<1>1. PICK what \in {"kick", "ban"} : Take(what)
  BY DEF HandleKick
<1>2. l \in Lobbies /\ e.pid \in Pids /\ e.arg \in Pids
  BY <1>1, TakeGood DEF LobbyInv
<1>3. UNCHANGED <<nextId, phase, kind, host, timer, pending, used, open, mine, acks, joins>>
  BY DEF HandleKick, connVars
<1>4. IF may
      THEN /\ Vacate(l, e.arg)
           /\ banned' = IF e.what = "ban" /\ s[e.arg] # Bot
                        THEN [banned EXCEPT ![l] = @ \cup {Identity(s[e.arg])}]
                        ELSE banned
      ELSE UNCHANGED <<seat, ready, banned>>
  BY DEF HandleKick
<1>5. Queued'
  BY <1>1, <1>3, TakeQueued DEF LobbyInv
<1>6. Tasks' /\ Numbered' /\ Handoffs' = Handoffs
  BY <1>3 DEF LobbyInv, Tasks, Numbered, Handoffs
<1>7. PortsLeft'
  BY <1>3, <1>6, PortsSame DEF LobbyInv
<1>8. CASE may
  <2>1. InGames(l) /\ host[l] = e.pid /\ e.arg # e.pid /\ s[e.arg] # Empty /\ Vacate(l, e.arg)
    BY <1>4, <1>8 DEF MayCommand, HostOf
  <2>2. s \in Rosters /\ banned[l] \in SUBSET (Conns \cup Accounts)
    BY <1>2 DEF LobbyInv, RoomTypes
  <2>3. s[e.arg] \in Conns \/ s[e.arg] = Bot
    BY <1>2, <2>1, <2>2 DEF Rosters
  <2> HIDE DEF l, s, e, may
  <2>4. PICK d \in SUBSET (Conns \cup Accounts) :
          /\ banned' = [banned EXCEPT ![l] = d] /\ banned[l] \subseteq d
          /\ \/ d = banned[l]
             \/ s[e.arg] \in Conns /\ d = banned[l] \cup {Identity(s[e.arg])}
    <3>1. CASE e.what = "ban" /\ s[e.arg] # Bot
      <4>1. s[e.arg] \in Conns /\ Identity(s[e.arg]) \in Conns \cup Accounts
        BY <2>3, <3>1 DEF Identity, Accounts
      <4>2. banned' = [banned EXCEPT ![l] = banned[l] \cup {Identity(s[e.arg])}]
        BY <1>2, <1>4, <1>8, <3>1
      <4> QED BY <2>2, <4>1, <4>2
    <3>2. CASE ~(e.what = "ban" /\ s[e.arg] # Bot)
      <4>1. banned' = [banned EXCEPT ![l] = banned[l]]
        BY <1>2, <1>4, <1>8, <3>2 DEF LobbyInv, RoomTypes
      <4> QED BY <2>2, <4>1
    <3> QED BY <3>1, <3>2
  <2>5. RoomTypes' /\ EachRoom'
    <3>1. s[e.arg] \in Conns \/ d = banned[l]
      BY <2>4
    <3> QED BY <1>2, <1>3, <2>1, <2>4, VacateStep DEF s
  <2> QED BY <1>5, <1>6, <1>7, <2>5 DEF LobbyInv
<1>9. CASE ~may
  <2>1. UNCHANGED lobbyVars
    BY <1>3, <1>4, <1>9 DEF lobbyVars
  <2> QED BY <1>5, <1>6, <2>1, RoomsSame
<1> QED BY <1>8, <1>9

LEMMA StartStep ==
    ASSUME LobbyInv, HandleStart
    PROVE  LobbyInv'
<1> DEFINE l == Head(events).lobby
           may == phase[l] = "waiting" /\ MayCommand(l, Head(events).pid) /\ Size(l) > 0
<1>1. l \in Lobbies /\ Take("start")
  BY TakeGood DEF HandleStart, LobbyInv
<1>2. UNCHANGED <<nextId, kind, host, seat, ready, banned, pending, used, open, mine, acks, joins>>
  BY DEF HandleStart, connVars
<1>3. IF may
      THEN /\ phase' = [phase EXCEPT ![l] = "counting"]
           /\ timer' = [timer EXCEPT ![l] = ForceTicks]
      ELSE UNCHANGED <<phase, timer>>
  BY DEF HandleStart
<1>4. Queued'
  BY <1>1, <1>2, TakeQueued DEF LobbyInv
<1>5. Tasks'
  BY <1>2 DEF LobbyInv, Tasks
<1>6. CASE may
  <2>1. phase[l] = "waiting"
    BY <1>6
  <2>2. ForceTicks \in Times /\ ForceTicks >= 1
    BY LobbyConstants DEF Times
  <2> HIDE DEF l, may
  <2> QED BY <1>1, <1>2, <1>3, <1>4, <1>5, <1>6, <2>1, <2>2, PhaseStep, PhaseAside DEF LobbyInv
<1>7. CASE ~may
  <2>1. UNCHANGED lobbyVars
    BY <1>2, <1>3, <1>7 DEF lobbyVars
  <2> QED BY <1>4, <1>5, <2>1, RoomsSame
<1> QED BY <1>6, <1>7

LEMMA HandoffStep ==
    ASSUME LobbyInv, NEW l \in Lobbies, HandoffFails(l)
    PROVE  LobbyInv'
<1>1. /\ phase[l] = "handed" /\ phase' = [phase EXCEPT ![l] = "gone"] /\ used' = used - 1
      /\ UNCHANGED <<nextId, kind, host, timer, seat, ready, banned, pending, events, open, mine,
                     acks, joins>>
  BY DEF HandoffFails, connVars
<1>2. timer' = [timer EXCEPT ![l] = timer[l]] /\ timer[l] \in Times
  BY <1>1 DEF LobbyInv, RoomTypes
<1>3. RoomTypes' /\ EachRoom'
  BY <1>1, <1>2, PhaseStep
<1>4. Numbered'
  BY <1>1 DEF LobbyInv, RoomTypes, Numbered
<1>5. PortsLeft'
  <2>1. l \in Handoffs /\ Handoffs' = Handoffs \ {l}
    BY <1>1 DEF Handoffs, LobbyInv, RoomTypes
  <2>2. IsFiniteSet(Handoffs)
    BY LobbyConstants, FS_Subset DEF Handoffs
  <2>3. Cardinality(Handoffs') = Cardinality(Handoffs) - 1 /\ Cardinality(Handoffs) \in Nat
        /\ Cardinality(Handoffs') \in Nat
    BY <2>1, <2>2, FS_RemoveElement, FS_CardinalityType
  <2> QED BY <1>1, <2>3, LobbyConstants DEF LobbyInv, PortsLeft
<1>6. Queued' /\ Tasks'
  BY <1>1, QueuedSame DEF LobbyInv, Tasks
<1> QED BY <1>3, <1>4, <1>5, <1>6 DEF LobbyInv

--------------------------------------------------------------------------------
(* A tick, seen from one lobby.                                                 *)

\* Its loading ends: those who are not ready lose their seats.
Ends(l) ==
    /\ phase[l] = "loading" /\ phase'[l] \in {"ready", "handed", "gone"}
    /\ seat'[l] = OnlyReady(l) /\ timer'[l] = 0
    /\ phase'[l] # "gone" => Externals(OnlyReady(l)) # {}

Loads(l) ==
    /\ phase[l] = "loading" /\ phase'[l] = "loading"
    /\ seat'[l] = seat[l] /\ timer'[l] \in Times /\ timer'[l] >= 1

Goes(l) ==
    /\ phase[l] = "ready" /\ phase'[l] \in {"ready", "handed"}
    /\ seat'[l] = seat[l] /\ timer'[l] = timer[l]

Counts(l) ==
    /\ phase[l] \in {"none", "waiting", "counting"} /\ phase'[l] \in {"counting", "loading"}
    /\ timer'[l] \in Times /\ timer'[l] >= 1
    /\ \/ phase[l] = "counting" /\ seat'[l] = seat[l]
       \/ /\ kind[l] = "queue"
          /\ \E k \in 0..BotFill :
                /\ k <= Wanted(l) /\ NewBots(l, k) \subseteq Pids
                /\ seat'[l] = [p \in Pids |-> IF p \in NewBots(l, k) THEN Bot ELSE seat[l][p]]

Reopens(l) ==
    /\ phase[l] = "none" /\ phase'[l] = "waiting"
    /\ seat'[l] = seat[l] /\ timer'[l] = timer[l]

Rests(l) ==
    /\ phase'[l] = phase[l] /\ phase[l] \in {"none", "waiting", "handed", "gone"}
    /\ seat'[l] = seat[l] /\ timer'[l] = timer[l]

TickOf(due) ==
    /\ UNCHANGED <<kind, host, banned, events, connVars>>
    /\ due \in [Filling -> 0..BotFill]
    /\ \A l \in Filling : due[l] <= Wanted(l) /\ NewBots(l, due[l]) \subseteq Pids
    /\ Tick(due)

LEMMA FillingShape ==
    ASSUME LobbyInv, NEW l \in Filling
    PROVE  /\ l \in Lobbies /\ kind[l] = "queue"
           /\ phase[l] \in {"waiting", "counting"} \/ (l \in Opening /\ phase[l] = "none")
<1>1. \A m \in Opening : m = nextId /\ nextId <= MaxLobbies
  BY DEF Opening
<1>2. nextId <= MaxLobbies => nextId \in Lobbies /\ phase[nextId] = "none" /\ kind[nextId] = "queue"
  <2>1. nextId <= MaxLobbies => nextId \in Lobbies /\ phase[nextId] = "none"
    BY LobbyConstants DEF LobbyInv, Numbered, Lobbies
  <2> QED BY <2>1 DEF LobbyInv, EachRoom, Room
<1>3. CASE l \in QueueIn({"counting"})
  BY <1>3 DEF QueueIn
<1>4. CASE l \in Promoted
  <2> DEFINE waiting == QueueIn({"waiting"}) \cup Opening
             peopled == {m \in waiting : Size(m) > 0}
             beacon  == \E m \in QueueIn({"counting"}) : Size(m) = 0
  <2>1. l \in peopled \cup (IF beacon \/ waiting = peopled THEN {} ELSE {Lowest(waiting \ peopled)})
    BY <1>4 DEF Promoted
  <2>2. waiting \subseteq Nat
    BY <1>1, <1>2, LobbyConstants DEF QueueIn
  <2>3. l \in waiting
    <3>1. CASE l \in peopled
      BY <3>1
    <3>2. CASE waiting # peopled /\ l = Lowest(waiting \ peopled)
      <4>1. waiting \ peopled # {} /\ waiting \ peopled \subseteq Nat
        BY <2>2, <3>2
      <4>2. Lowest(waiting \ peopled) \in waiting \ peopled
        <5> DEFINE S == waiting \ peopled
        <5>1. S # {} /\ S \subseteq Nat
          BY <4>1
        <5> HIDE DEF S
        <5>2. Lowest(S) \in S
          BY <5>1, LowestIn
        <5> QED BY <5>2 DEF S
      <4> QED BY <3>2, <4>2
    <3> QED BY <2>1, <3>1, <3>2
  <2> QED BY <1>1, <1>2, <2>3 DEF QueueIn
<1> QED BY <1>3, <1>4 DEF Filling

LEMMA WantedRange ==
    ASSUME LobbyInv, NEW l \in Lobbies
    PROVE  /\ Wanted(l) \in 0..BotFill
           /\ \A k \in Nat : k <= Wanted(l) => k = 0 \/ Count(seat[l]) + k <= BotFill
<1>1. Size(l) \in Nat /\ Size(l) = Count(seat[l])
  BY CountNat DEF Size, Count
<1>2. pending[l] \in 0..BotFill
  BY DEF LobbyInv, RoomTypes
<1> QED BY <1>1, <1>2, LobbyConstants DEF Wanted

LEMMA OpeningIs ==
    ASSUME LobbyInv
    PROVE  /\ Opening = {} \/ (Opening = {nextId} /\ nextId <= MaxLobbies)
           /\ Cardinality(Opening) = IF Opening = {} THEN 0 ELSE 1
BY FS_EmptySet, FS_Singleton DEF Opening

LEMMA TickShape ==
    ASSUME LobbyInv, NEW due, TickOf(due)
    PROVE  /\ \A l \in Lobbies : Ends(l) \/ Loads(l) \/ Goes(l) \/ Counts(l) \/ Reopens(l) \/ Rests(l)
           /\ \A l \in Lobbies : phase'[l] = "handed" => phase[l] = "handed" \/ l \in Handed
           /\ \A l \in 1..MaxLobbies : l >= nextId' => phase'[l] = "none"
           /\ nextId' \in Nat /\ nextId <= nextId'
           /\ nextId' <= nextId \/ nextId' <= MaxLobbies + 1
           /\ RoomTypes' /\ used' = used + Cardinality(Handed)
           /\ \A l \in Lobbies : ready[l] \subseteq ready'[l]
<1> DEFINE filling  == DOMAIN due
           counting == filling \cup {l \in Lobbies : phase[l] = "counting"}
           left(l)  == IF phase[l] = "counting" THEN timer[l] ELSE CountTicks
           come(l)  == IF l \in filling THEN NewBots(l, due[l]) ELSE {}
           starting == {l \in counting : left(l) = 1 \/ Size(l) + Cardinality(come(l)) >= Cap}
           id       == nextId + Cardinality(Opening)
           asks     == \E r \in Dropped :
                          \A l \in QueueIn({"waiting"}) \cup filling : l \in starting /\ l < r
           reopened == IF asks /\ id <= MaxLobbies THEN {id} ELSE {}
<1>1. /\ nextId' = id + Cardinality(reopened)
      /\ phase' = [l \in Lobbies |->
             IF l \in Handed THEN "handed"
             ELSE IF l \in Ending THEN (IF l \in Dropped THEN "gone" ELSE "ready")
             ELSE IF l \in counting THEN (IF l \in starting THEN "loading" ELSE "counting")
             ELSE IF l \in reopened THEN "waiting"
             ELSE phase[l]]
      /\ timer' = [l \in Lobbies |->
             IF phase[l] = "loading" THEN Loaded(l)
             ELSE IF l \in starting THEN LoadTicks
             ELSE IF l \in counting THEN left(l) - 1
             ELSE timer[l]]
      /\ seat' = [l \in Lobbies |->
             IF l \in Ending THEN OnlyReady(l)
             ELSE IF come(l) = {} THEN seat[l]
             ELSE [p \in Pids |-> IF p \in come(l) THEN Bot ELSE seat[l][p]]]
      /\ ready'   = [l \in Lobbies |-> ready[l] \cup come(l)]
      /\ pending' = [l \in Lobbies |->
             IF l \in filling THEN Wanted(l) - due[l] ELSE pending[l]]
      /\ used' = used + Cardinality(Handed)
  BY DEF TickOf, Tick
<1>2. filling = Filling /\ due \in [Filling -> 0..BotFill]
      /\ \A l \in Filling : due[l] <= Wanted(l) /\ NewBots(l, due[l]) \subseteq Pids
  BY DEF TickOf
<1>3. /\ id \in Nat /\ nextId \in Nat /\ nextId <= id /\ id <= nextId + 1
      /\ id # nextId => nextId <= MaxLobbies
      /\ \A l \in Opening : l = nextId /\ l < id
  <2>1. nextId \in Nat
    BY DEF LobbyInv, Numbered
  <2> QED BY <2>1, OpeningIs
<1>4. /\ reopened = {} \/ (reopened = {id} /\ id <= MaxLobbies)
      /\ nextId' = IF reopened = {} THEN id ELSE id + 1
  <2>1. reopened = {} \/ (reopened = {id} /\ id <= MaxLobbies)
    OBVIOUS
  <2>2. Cardinality({}) = 0 /\ Cardinality({id}) = 1
    BY FS_EmptySet, FS_Singleton
  <2>3. nextId' = id + Cardinality(reopened)
    BY <1>1
  <2> HIDE DEF reopened, id
  <2> QED BY <1>3, <2>1, <2>2, <2>3
<1>5. \A l \in counting : /\ l \in Lobbies
                          /\ phase[l] \in {"waiting", "counting"} \/ (l \in Opening /\ phase[l] = "none")
                          /\ l \in filling => kind[l] = "queue"
                          /\ l \notin filling => phase[l] = "counting"
  BY <1>2, FillingShape
<1>6. \A l \in Handed : phase[l] = "ready" \/ (l \in Ending /\ l \notin Dropped)
  BY DEF Handed, Available
<1>7. \A l \in Ending : phase[l] = "loading" /\ Loaded(l) = 0
  BY DEF Ending
<1>8. \A l \in Dropped : l \in Ending
  BY DEF Dropped
<1>9. \A l \in reopened : phase[l] = "none" /\ l \notin counting
  <2>1. \A l \in reopened : l = id /\ l \in 1..MaxLobbies /\ l >= nextId
    <3>1. nextId > 0
      BY DEF LobbyInv, Numbered
    <3> HIDE DEF reopened, id
    <3> QED BY <1>3, <1>4, <3>1, LobbyConstants
  <2>2. \A l \in reopened : phase[l] = "none" /\ l \notin Opening
    <3> HIDE DEF reopened, id
    <3> QED BY <1>3, <2>1 DEF LobbyInv, Numbered
  <2> HIDE DEF reopened, counting, filling
  <2> QED BY <1>5, <2>2
<1>10. ASSUME NEW l \in Lobbies
       PROVE  /\ phase[l] \in Phases /\ timer[l] \in Times
              /\ phase[l] \in {"counting", "loading"} => timer[l] >= 1
              /\ seat[l] \in Rosters /\ pending[l] \in 0..BotFill /\ ready[l] \in SUBSET Pids
  BY DEF LobbyInv, RoomTypes, EachRoom, Room
<1>11. ASSUME NEW l \in Lobbies, l \in counting
       PROVE  /\ left(l) \in Times /\ left(l) >= 1
              /\ l \notin starting => left(l) - 1 \in Times /\ left(l) - 1 >= 1
              /\ LoadTicks \in Times /\ LoadTicks >= 1
  <2>1. left(l) \in Times /\ left(l) >= 1
    BY <1>10, LobbyConstants DEF Times
  <2>2. l \notin starting => left(l) # 1
    BY <1>11
  <2> HIDE DEF left, starting
  <2> QED BY <2>1, <2>2, LobbyConstants DEF Times
<1>12. ASSUME NEW l \in Lobbies, phase[l] = "loading"
       PROVE  Loaded(l) \in Times /\ (Loaded(l) # 0 => Loaded(l) >= 1)
  BY <1>10, <1>12, LobbyConstants DEF Loaded, Times
<1>13. ASSUME NEW l \in Lobbies
       PROVE  phase'[l] = IF l \in Handed THEN "handed"
                          ELSE IF l \in Ending THEN (IF l \in Dropped THEN "gone" ELSE "ready")
                          ELSE IF l \in counting
                               THEN (IF l \in starting THEN "loading" ELSE "counting")
                          ELSE IF l \in reopened THEN "waiting"
                          ELSE phase[l]
  <2> HIDE DEF filling, counting, left, come, starting, id, asks, reopened
  <2> QED BY <1>1
<1>14. ASSUME NEW l \in Lobbies
       PROVE  timer'[l] = IF phase[l] = "loading" THEN Loaded(l)
                          ELSE IF l \in starting THEN LoadTicks
                          ELSE IF l \in counting THEN left(l) - 1
                          ELSE timer[l]
  <2> HIDE DEF filling, counting, left, come, starting, id, asks, reopened
  <2> QED BY <1>1
<1>15. ASSUME NEW l \in Lobbies
       PROVE  /\ seat'[l] = (IF l \in Ending THEN OnlyReady(l)
                   ELSE IF come(l) = {} THEN seat[l]
                   ELSE [p \in Pids |-> IF p \in come(l) THEN Bot ELSE seat[l][p]])
              /\ ready'[l] = ready[l] \cup come(l)
              /\ pending'[l] = (IF l \in filling THEN Wanted(l) - due[l] ELSE pending[l])
  <2> HIDE DEF filling, counting, left, come, starting, id, asks, reopened
  <2> QED BY <1>1
<1>16. /\ \A l \in starting : l \in counting
       /\ \A l \in filling : l \in counting
       /\ \A l \in Lobbies : phase[l] = "counting" => l \in counting
       /\ \A l \in Lobbies : l \notin filling => come(l) = {}
       /\ \A l \in filling : come(l) = NewBots(l, due[l]) /\ due[l] \in 0..BotFill
                             /\ due[l] <= Wanted(l) /\ NewBots(l, due[l]) \subseteq Pids
  BY <1>2
<1>17. ASSUME NEW l \in Lobbies
       PROVE  Ends(l) \/ Loads(l) \/ Goes(l) \/ Counts(l) \/ Reopens(l) \/ Rests(l)
  <2> HIDE DEF filling, counting, left, come, starting, id, asks, reopened
  <2>1. CASE l \in Ending
    <3>1. phase[l] = "loading" /\ Loaded(l) = 0 /\ seat'[l] = OnlyReady(l) /\ timer'[l] = 0
      BY <1>7, <1>13, <1>14, <1>15, <2>1
    <3>2. \/ phase'[l] = "handed" /\ l \notin Dropped
          \/ phase'[l] = "gone"
          \/ phase'[l] = "ready" /\ l \notin Dropped
      BY <1>6, <1>13, <1>14, <1>15, <2>1, <3>1
    <3>3. l \notin Dropped => Externals(OnlyReady(l)) # {}
      BY <2>1 DEF Dropped
    <3> QED BY <3>1, <3>2, <3>3 DEF Ends
  <2>2. CASE phase[l] = "loading" /\ l \notin Ending
    <3>1. Loaded(l) # 0 /\ Loaded(l) \in Times /\ Loaded(l) >= 1
      BY <1>12, <2>2 DEF Ending
    <3>2. l \notin Handed /\ l \notin counting /\ l \notin reopened
      BY <1>5, <1>6, <1>9, <2>2
    <3>3. phase'[l] = "loading" /\ timer'[l] = Loaded(l) /\ seat'[l] = seat[l]
      BY <1>13, <1>14, <1>15, <1>16, <2>2, <3>2
    <3> QED BY <2>2, <3>1, <3>3 DEF Loads
  <2>3. CASE phase[l] = "ready"
    <3>1. l \notin Ending /\ l \notin counting /\ l \notin reopened
      BY <1>5, <1>7, <1>9, <2>3
    <3>2. phase'[l] \in {"ready", "handed"} /\ timer'[l] = timer[l] /\ seat'[l] = seat[l]
      BY <1>13, <1>14, <1>15, <1>16, <2>3, <3>1
    <3> QED BY <2>3, <3>2 DEF Goes
  <2>4. CASE l \in counting
    <3>1. phase[l] \in {"none", "waiting", "counting"} /\ l \notin Ending /\ l \notin Handed
      BY <1>5, <1>6, <1>7, <2>4
    <3>2. /\ phase'[l] = (IF l \in starting THEN "loading" ELSE "counting")
          /\ timer'[l] = (IF l \in starting THEN LoadTicks ELSE left(l) - 1)
          /\ seat'[l] = (IF come(l) = {} THEN seat[l]
                         ELSE [p \in Pids |-> IF p \in come(l) THEN Bot ELSE seat[l][p]])
      BY <1>13, <1>14, <1>15, <2>4, <3>1
    <3>3. timer'[l] \in Times /\ timer'[l] >= 1
      BY <1>11, <2>4, <3>2
    <3>4. CASE l \in filling
      <4>1. PICK k \in 0..BotFill : /\ k <= Wanted(l) /\ NewBots(l, k) \subseteq Pids
                                    /\ come(l) = NewBots(l, k)
        BY <1>16, <3>4
      <4>2. seat'[l] = [p \in Pids |-> IF p \in NewBots(l, k) THEN Bot ELSE seat[l][p]]
        <5>1. CASE come(l) = {}
          <6>1. seat[l] = [p \in Pids |-> seat[l][p]]
            BY <1>10 DEF Rosters
          <6> QED BY <3>2, <4>1, <5>1, <6>1
        <5>2. CASE come(l) # {}
          BY <3>2, <4>1, <5>2
        <5> QED BY <5>1, <5>2
      <4>3. kind[l] = "queue"
        BY <1>5, <2>4, <3>4
      <4> QED BY <3>1, <3>2, <3>3, <4>1, <4>2, <4>3 DEF Counts
    <3>5. CASE l \notin filling
      <4>1. phase[l] = "counting" /\ seat'[l] = seat[l]
        BY <1>5, <1>16, <2>4, <3>2, <3>5
      <4> QED BY <3>1, <3>2, <3>3, <4>1 DEF Counts
    <3> QED BY <3>4, <3>5
  <2>5. CASE l \in reopened
    <3>1. phase[l] = "none" /\ l \notin counting /\ l \notin Ending /\ l \notin Handed
      BY <1>6, <1>7, <1>9, <2>5
    <3>2. phase'[l] = "waiting" /\ seat'[l] = seat[l] /\ timer'[l] = timer[l]
      BY <1>13, <1>14, <1>15, <1>16, <2>5, <3>1
    <3> QED BY <3>1, <3>2 DEF Reopens
  <2>6. CASE phase[l] \notin {"loading", "ready"} /\ l \notin counting /\ l \notin reopened
    <3>1. l \notin Ending /\ l \notin Handed /\ l \notin starting /\ phase[l] # "counting"
      BY <1>6, <1>7, <1>16, <2>6
    <3>2. phase'[l] = phase[l] /\ seat'[l] = seat[l] /\ timer'[l] = timer[l]
      BY <1>13, <1>14, <1>15, <1>16, <2>6, <3>1
    <3> QED BY <1>10, <2>6, <3>1, <3>2 DEF Rests, Phases
  <2> QED BY <2>1, <2>2, <2>3, <2>4, <2>5, <2>6
<1>18. \A l \in Lobbies : phase'[l] = "handed" => phase[l] = "handed" \/ l \in Handed
  <2> HIDE DEF filling, counting, left, come, starting, id, asks, reopened
  <2> QED BY <1>13, <1>14, <1>15
<1>19. \A l \in 1..MaxLobbies : l >= nextId' => phase'[l] = "none"
  <2>1. ASSUME NEW l \in 1..MaxLobbies, l >= nextId' PROVE phase'[l] = "none"
    <3> HIDE DEF filling, counting, left, come, starting, id, asks, reopened
    <3>1. l \in Lobbies /\ l >= nextId /\ l \notin Opening /\ l \notin reopened
      BY <1>3, <1>4, <2>1, LobbyConstants DEF Lobbies
    <3>2. phase[l] = "none"
      BY <3>1 DEF LobbyInv, Numbered
    <3>3. l \notin counting /\ l \notin Ending /\ l \notin Handed
      BY <1>5, <1>6, <1>7, <3>1, <3>2
    <3> QED BY <1>13, <1>14, <1>15, <3>1, <3>2, <3>3
  <2> QED BY <2>1
<1>20. /\ nextId' \in Nat /\ nextId <= nextId'
       /\ nextId' <= nextId \/ nextId' <= MaxLobbies + 1
  <2> HIDE DEF id, reopened
  <2> QED BY <1>3, <1>4, LobbyConstants
<1>21. RoomTypes'
  <2>1. ASSUME NEW l \in Lobbies
        PROVE  /\ phase'[l] \in Phases /\ timer'[l] \in Times /\ seat'[l] \in Rosters
               /\ ready'[l] \in SUBSET Pids /\ pending'[l] \in 0..BotFill
    <3>1. phase'[l] \in Phases /\ timer'[l] \in Times
      BY <1>10, <1>17, LobbyConstants
         DEF Ends, Loads, Goes, Counts, Reopens, Rests, Phases, Times
    <3>2. seat'[l] \in Rosters
      <4>1. OnlyReady(l) \in Rosters
        BY <1>10 DEF OnlyReady, Rosters
      <4>2. \A N : [p \in Pids |-> IF p \in N THEN Bot ELSE seat[l][p]] \in Rosters
        BY <1>10 DEF Rosters
      <4> QED BY ZenonT(60), <1>10, <1>17, <4>1, <4>2 DEF Ends, Loads, Goes, Counts, Reopens, Rests
    <3> HIDE DEF filling, counting, left, come, starting, id, asks, reopened
    <3>3. ready'[l] \in SUBSET Pids
      <4>1. come(l) \subseteq Pids
        <5>1. CASE l \in filling
          <6>1. come(l) = NewBots(l, due[l]) /\ NewBots(l, due[l]) \subseteq Pids
            BY <1>16, <5>1
          <6> QED BY <6>1
        <5>2. CASE l \notin filling
          BY <1>16, <5>2
        <5> QED BY <5>1, <5>2
      <4>2. ready'[l] = ready[l] \cup come(l)
        BY <1>15
      <4> QED BY <1>10, <4>1, <4>2
    <3>4. pending'[l] \in 0..BotFill
      <4>1. CASE l \in filling
        <5>1. PICK k \in 0..BotFill : k = due[l] /\ k <= Wanted(l)
          BY <1>16, <4>1
        <5>2. Wanted(l) \in 0..BotFill /\ pending'[l] = Wanted(l) - k
          BY <1>13, <1>14, <1>15, <4>1, <5>1, WantedRange
        <5> QED BY <5>1, <5>2, LobbyConstants
      <4>2. CASE l \notin filling
        BY <1>10, <1>13, <1>14, <1>15, <4>2
      <4> QED BY <4>1, <4>2
    <3> QED BY <3>1, <3>2, <3>3, <3>4
  <2>2. UNCHANGED <<kind, host, banned>>
    BY DEF TickOf
  <2>3. /\ phase' = [l \in Lobbies |-> phase'[l]] /\ timer' = [l \in Lobbies |-> timer'[l]]
        /\ seat' = [l \in Lobbies |-> seat'[l]] /\ ready' = [l \in Lobbies |-> ready'[l]]
        /\ pending' = [l \in Lobbies |-> pending'[l]]
    <3> HIDE DEF filling, counting, left, come, starting, id, asks, reopened
    <3> QED BY <1>1
  <2> QED BY <2>1, <2>2, <2>3 DEF LobbyInv, RoomTypes
<1>22. \A l \in Lobbies : ready[l] \subseteq ready'[l]
  <2> HIDE DEF filling, counting, left, come, starting, id, asks, reopened
  <2> QED BY <1>15
<1>23. used' = used + Cardinality(Handed)
  BY <1>1
<1> QED BY <1>17, <1>18, <1>19, <1>20, <1>21, <1>22, <1>23

\* At most as many lobbies are handed over as ports are free.
LEMMA HandedFew ==
    ASSUME LobbyInv
    PROVE  /\ Handed \in SUBSET Lobbies /\ IsFiniteSet(Handed)
           /\ Cardinality(Handed) \in Nat /\ Cardinality(Handed) <= Ports - used
<1>1. used \in Nat /\ Ports \in Nat /\ Ports - used \in Nat
  BY LobbyConstants DEF LobbyInv, PortsLeft
<1>2. Available \in SUBSET Lobbies
  BY DEF Available, Ending
<1>3. Handed \in SUBSET Lobbies /\ Handed \subseteq Available
  BY <1>2 DEF Handed
<1>4. IsFiniteSet(Handed) /\ Cardinality(Handed) \in Nat /\ IsFiniteSet(Available)
  BY <1>2, <1>3, LobbyConstants, FS_Subset, FS_CardinalityType
<1>5. CASE Handed = {}
  BY <1>1, <1>3, <1>4, <1>5, FS_EmptySet
<1>6. CASE Handed # {}
  <2>1. PICK m \in Handed : \A k \in Handed : k <= m
    <3> DEFINE N == MaxLobbies + Rematches
               D == {N - k : k \in Handed}
    <3>1. N \in Nat /\ \A k \in Handed : k \in 1..N /\ N - k \in Nat
      BY <1>3, LobbyConstants DEF Lobbies
    <3>2. D \subseteq Nat /\ D # {}
      BY <3>1, <1>6
    <3>3. PICK d \in D : \A e \in D : d <= e
      <4> HIDE DEF D
      <4> QED BY <3>2, LowestIn
    <3>4. PICK m \in Handed : d = N - m
      OBVIOUS
    <3>5. ASSUME NEW k \in Handed PROVE k <= m
      <4>1. N - k \in D
        OBVIOUS
      <4>2. d <= N - k
        BY <3>3, <4>1
      <4> HIDE DEF N
      <4> QED BY <3>1, <3>4, <4>2
    <3> QED BY <3>5
  <2> DEFINE B == {k \in Available : k < m}
  <2>2. m \in Available /\ Cardinality(B) < Ports - used /\ m \in Nat
    BY <2>1, <1>3, LobbyConstants DEF Handed
  <2>3. IsFiniteSet(B) /\ Cardinality(B) \in Nat
    <3>1. B \in SUBSET Available
      OBVIOUS
    <3> HIDE DEF B
    <3> QED BY <1>4, <3>1, FS_Subset, FS_CardinalityType
  <2>4. Handed \subseteq B \cup {m}
    <3>1. \A k \in Handed : k \in Nat
      BY <1>3, LobbyConstants
    <3> QED BY <1>3, <2>1, <2>2, <3>1
  <2> HIDE DEF B
  <2>5. IsFiniteSet(B \cup {m}) /\ Cardinality(B \cup {m}) <= Cardinality(B) + 1
        /\ Cardinality(B \cup {m}) \in Nat
    <3>1. IsFiniteSet(B \cup {m})
          /\ Cardinality(B \cup {m}) = IF m \in B THEN Cardinality(B) ELSE Cardinality(B) + 1
      BY <2>3, FS_AddElement
    <3> QED BY <2>3, <3>1
  <2>6. Cardinality(Handed) <= Cardinality(B \cup {m})
    BY <2>4, <2>5, FS_Subset
  <2> QED BY <1>1, <1>3, <1>4, <2>2, <2>3, <2>5, <2>6
<1> QED BY <1>5, <1>6

\* What a tick makes of one lobby.
LEMMA TickRoom ==
    ASSUME LobbyInv, NEW l \in Lobbies,
           Ends(l) \/ Loads(l) \/ Goes(l) \/ Counts(l) \/ Reopens(l) \/ Rests(l)
    PROVE  Room(phase'[l], kind[l], host[l], timer'[l], seat'[l], banned[l])
<1> DEFINE s == seat[l]
<1>1. Room(phase[l], kind[l], host[l], timer[l], s, banned[l])
  BY DEF LobbyInv, EachRoom
<1>2. s \in Rosters /\ banned[l] \in SUBSET (Conns \cup Accounts) /\ 0 \in Times
  BY <1>1, LobbyConstants DEF Room, Times
<1>3. CASE Ends(l)
  <2> DEFINE r == OnlyReady(l)
  <2>1. r \in Rosters /\ \A p \in Pids : r[p] \in {s[p], Empty}
    BY <1>2 DEF OnlyReady, Rosters
  <2>2. NoBanned(r, banned[l])
    BY <1>1, <2>1 DEF Room, NoBanned, Externals
  <2>3. /\ phase[l] = "loading" /\ phase'[l] \in {"ready", "handed", "gone"}
        /\ seat'[l] = r /\ timer'[l] = 0
    BY <1>3 DEF Ends
  <2>4. phase'[l] \in Phases
    BY <2>3 DEF Phases
  <2> HIDE DEF r, s
  <2>5. Room(phase'[l], kind[l], host[l], 0, r, banned[l])
    BY <1>1, <1>2, <2>1, <2>2, <2>3, <2>4, RoomShrink
  <2> QED BY <2>3, <2>5
<1>4. CASE Loads(l)
  <2> HIDE DEF s
  <2>1. phase[l] = "loading" /\ phase'[l] = "loading" /\ seat'[l] = s /\ timer'[l] \in Times /\ timer'[l] >= 1
    BY <1>4 DEF Loads, s
  <2> QED BY <1>1, <2>1 DEF Room
<1>5. CASE Goes(l)
  <2> HIDE DEF s
  <2>1. /\ phase[l] = "ready" /\ phase'[l] \in {"ready", "handed"}
        /\ seat'[l] = s /\ timer'[l] = timer[l]
    BY <1>5 DEF Goes, s
  <2> QED BY <1>1, <2>1 DEF Room, Phases
<1>6. CASE Counts(l)
  <2>1. /\ phase[l] \in {"none", "waiting", "counting"} /\ phase'[l] \in {"counting", "loading"}
        /\ timer'[l] \in Times /\ timer'[l] >= 1
    BY <1>6 DEF Counts
  <2>2. CASE phase[l] = "counting" /\ seat'[l] = s
    <3> HIDE DEF s
    <3> QED BY <1>1, <2>1, <2>2 DEF Room, Phases
  <2>3. CASE kind[l] = "queue" /\ \E k \in 0..BotFill :
                /\ k <= Wanted(l) /\ NewBots(l, k) \subseteq Pids
                /\ seat'[l] = [p \in Pids |-> IF p \in NewBots(l, k) THEN Bot ELSE s[p]]
    <3>1. PICK k \in 0..BotFill :
                /\ k <= Wanted(l) /\ NewBots(l, k) \subseteq Pids
                /\ seat'[l] = [p \in Pids |-> IF p \in NewBots(l, k) THEN Bot ELSE s[p]]
      BY <2>3
    <3> DEFINE r == [p \in Pids |-> IF p \in NewBots(l, k) THEN Bot ELSE s[p]]
    <3>2. k \in Nat /\ seat[l] = s /\ seat'[l] = r
      BY <3>1
    <3>3. /\ r \in Rosters /\ Count(r) <= Count(s) + k
          /\ Externals(r) = Externals(s) /\ \A p \in Externals(s) : r[p] = s[p]
          /\ Cardinality(NewBots(l, k)) = k
      <4> HIDE DEF s
      <4> QED BY <1>2, <3>1, <3>2, CountBots
    <3>4. k = 0 \/ Count(s) + k <= BotFill
      BY <3>1, <3>2, WantedRange
    <3>5. Count(r) \in Nat /\ Count(s) \in Nat /\ Count(s) <= Cap
      <4>1. Count(s) <= Cap
        <5> HIDE DEF s
        <5>1. phase[l] = "none" => Count(s) = 0
          BY <1>1, CountNoOne DEF Room
        <5> QED BY <1>1, <2>1, <5>1, LobbyConstants DEF Room
      <4> QED BY <4>1, CountNat
    <3> HIDE DEF r, s
    <3>6. Count(r) <= Cap
      BY <3>2, <3>3, <3>4, <3>5, LobbyConstants
    <3>7. Room(phase'[l], "queue", host[l], timer'[l], r, banned[l])
      BY <1>1, <2>1, <2>3, <3>3, <3>6, RoomFill
    <3> QED BY <2>3, <3>2, <3>7
  <2> QED BY <1>6, <2>1, <2>2, <2>3 DEF Counts
<1>7. CASE Reopens(l)
  <2> HIDE DEF s
  <2>1. phase[l] = "none" /\ phase'[l] = "waiting" /\ seat'[l] = s /\ timer'[l] = timer[l]
    BY <1>7 DEF Reopens, s
  <2>2. Count(s) = 0
    BY <1>1, <2>1, CountNoOne DEF Room
  <2>3. kind[l] = "queue" /\ host[l] = 0
    BY <1>1, <2>1 DEF Room
  <2> QED BY <1>1, <2>1, <2>2, <2>3, LobbyConstants DEF Room, Phases
<1>8. CASE Rests(l)
  <2> HIDE DEF s
  <2>1. phase'[l] = phase[l] /\ seat'[l] = s /\ timer'[l] = timer[l]
    BY <1>8 DEF Rests, s
  <2> QED BY <1>1, <2>1
<1> QED BY <1>3, <1>4, <1>5, <1>6, <1>7, <1>8

LEMMA TickStep ==
    ASSUME LobbyInv, MasterTick
    PROVE  LobbyInv'
<1>1. PICK due : TickOf(due)
  BY DEF MasterTick, TickOf
<1>2. UNCHANGED <<kind, host, banned, events, connVars>>
  BY <1>1 DEF TickOf
<1>3. /\ \A l \in Lobbies : Ends(l) \/ Loads(l) \/ Goes(l) \/ Counts(l) \/ Reopens(l) \/ Rests(l)
      /\ \A l \in Lobbies : phase'[l] = "handed" => phase[l] = "handed" \/ l \in Handed
      /\ \A l \in 1..MaxLobbies : l >= nextId' => phase'[l] = "none"
      /\ nextId' \in Nat /\ nextId <= nextId'
      /\ nextId' <= nextId \/ nextId' <= MaxLobbies + 1
      /\ RoomTypes' /\ used' = used + Cardinality(Handed)
  BY <1>1, TickShape
<1>4. EachRoom'
  <2>1. ASSUME NEW l \in Lobbies
        PROVE  Room(phase'[l], kind'[l], host'[l], timer'[l], seat'[l], banned'[l])
    BY <1>2, <1>3, TickRoom
  <2> QED BY <2>1 DEF EachRoom, Room
<1>5. Numbered'
  BY <1>3 DEF LobbyInv, Numbered
<1>6. PortsLeft'
  <2>1. Handoffs \in SUBSET Lobbies /\ Handoffs' \in SUBSET Lobbies
    BY DEF Handoffs
  <2>2. Handoffs' \subseteq Handoffs \cup Handed
    BY <1>3 DEF Handoffs
  <2> DEFINE A == Handoffs
             B == Handed
             C == Handoffs'
  <2>3. IsFiniteSet(A) /\ Cardinality(A) \in Nat /\ IsFiniteSet(C) /\ Cardinality(C) \in Nat
    <3> HIDE DEF A, C
    <3>1. A \in SUBSET Lobbies /\ C \in SUBSET Lobbies
      BY <2>1 DEF A, C
    <3> QED BY <3>1, LobbyConstants, FS_Subset, FS_CardinalityType
  <2>4. IsFiniteSet(B) /\ Cardinality(B) \in Nat /\ Cardinality(B) <= Ports - used
    BY HandedFew
  <2>5. used \in 0..Ports /\ Cardinality(A) <= used
    BY DEF LobbyInv, PortsLeft
  <2>6. C \subseteq A \cup B
    BY <2>2
  <2> HIDE DEF A, B, C
  <2>7. /\ IsFiniteSet(A \cup B)
        /\ Cardinality(A \cup B) = Cardinality(A) + Cardinality(B) - Cardinality(A \cap B)
    BY <2>3, <2>4, FS_Union
  <2>8. Cardinality(A \cap B) \in Nat
    <3>1. IsFiniteSet(A \cap B)
      BY <2>3, FS_Intersection
    <3> QED BY <3>1, FS_CardinalityType
  <2>9. Cardinality(C) <= Cardinality(A \cup B)
    BY <2>6, <2>7, FS_Subset
  <2>10. used' = used + Cardinality(B)
    BY <1>3 DEF B
  <2>11. used' \in 0..Ports /\ Cardinality(C) <= used'
    <3>1. PICK a, b, c, i : a = Cardinality(A) /\ b = Cardinality(B) /\ c = Cardinality(C) /\ i = Cardinality(A \cap B)
      OBVIOUS
    <3>2. a \in Nat /\ b \in Nat /\ c \in Nat /\ i \in Nat /\ c <= a + b - i /\ a <= used /\ b <= Ports - used
      BY <2>3, <2>4, <2>5, <2>7, <2>8, <2>9, <3>1
    <3> QED BY <2>5, <2>10, <3>1, <3>2, LobbyConstants
  <2> QED BY <2>11 DEF PortsLeft, C
<1>7. Queued'
  <2>1. PICK j : j = JoinsLeft
    OBVIOUS
  <2>2. JoinsLeft' = j /\ events' = events /\ joins' = joins
    BY <1>2, <2>1 DEF JoinsLeft, JoinsAt, connVars
  <2>3. /\ events \in Seq(GoodEvent) /\ Len(events) <= EventCap
        /\ joins \in 0..MaxJoins /\ j <= joins /\ nextId + j <= MaxLobbies + 1 + joins
        /\ nextId \in Nat
    BY <2>1 DEF LobbyInv, Queued
  <2>4. j \in Nat
    BY <2>1, <2>3, JoinsNat DEF JoinsLeft
  <2>5. nextId' + j <= MaxLobbies + 1 + joins
    <3>1. joins \in Nat /\ MaxLobbies \in Nat
      BY <2>3, LobbyConstants
    <3>2. PICK n \in Nat : n = nextId' /\ (n <= nextId \/ n <= MaxLobbies + 1)
      BY <1>3
    <3>3. PICK m \in Nat, q \in Nat, i \in Nat, k \in Nat :
             m = MaxLobbies /\ q = joins /\ i = nextId /\ k = j
      BY <2>3, <2>4, <3>1
    <3>4. k <= q /\ i + k <= m + 1 + q /\ (n <= i \/ n <= m + 1)
      BY <2>3, <3>2, <3>3
    <3>5. n + k <= m + 1 + q
      BY <3>4
    <3> QED BY <3>2, <3>3, <3>5
  <2> QED BY <1>3, <2>2, <2>3, <2>5 DEF Queued
<1>8. Tasks'
  BY <1>2 DEF LobbyInv, Tasks, connVars
<1> QED BY <1>3, <1>4, <1>5, <1>6, <1>7, <1>8 DEF LobbyInv

LEMMA LobbyInvStep ==
    ASSUME LobbyInv, [Next]_vars
    PROVE  LobbyInv'
<1>1. ASSUME NEW c \in Conns, ConnTask(c) PROVE LobbyInv'
  BY <1>1, ConnStep, RoomsSame DEF LobbyInv
<1>2. CASE HandleEvent
  BY <1>2, JoinStep, LeaveStep, ReadyStep, KickStep, StartStep DEF HandleEvent
<1>3. CASE MasterTick
  BY <1>3, TickStep
<1>4. ASSUME NEW l \in Lobbies, HandoffFails(l) PROVE LobbyInv'
  BY <1>4, HandoffStep
<1>5. CASE UNCHANGED vars
  <2>1. UNCHANGED lobbyVars /\ Queued' /\ Tasks'
    BY <1>5 DEF vars, lobbyVars, connVars, LobbyInv, Queued, Tasks, JoinsLeft, JoinsAt
  <2> QED BY <2>1, RoomsSame
<1> QED BY <1>1, <1>2, <1>3, <1>4, <1>5 DEF Next

LEMMA LobbyInvariant == Spec => []LobbyInv
BY LobbyInit, LobbyInvStep, PTL DEF Spec

--------------------------------------------------------------------------------
(* What follows at once.                                                        *)

\* Every variable keeps its type, ids and countdowns keep their bounds, and joins,
\* rejoins and bots never seat more players than a lobby holds; no more relay ports
\* are taken than there are (resolve_join_target, inject_internal_bots).
THEOREM LobbyTypes == Spec => []TypeOK
<1>1. LobbyInv => TypeOK
  <2> SUFFICES ASSUME LobbyInv PROVE TypeOK
    OBVIOUS
  <2>1. \A l \in Lobbies : InGames(l) => Size(l) <= Cap
    BY DEF LobbyInv, EachRoom, Room, InGames, Size, Count
  <2>2. nextId \in 1..(MaxLobbies + MaxJoins + 1)
    <3>1. PICK j : j = JoinsLeft
      OBVIOUS
    <3>2. j \in Nat
      BY <3>1, JoinsNat DEF LobbyInv, Queued, JoinsLeft
    <3>3. /\ nextId \in Nat \ {0} /\ joins \in 0..MaxJoins
          /\ nextId + j <= MaxLobbies + 1 + joins
      BY <3>1 DEF LobbyInv, Queued, Numbered
    <3> QED BY <3>2, <3>3, LobbyConstants
  <2>3. events \in Seq(Event) /\ Len(events) <= EventCap /\ joins \in 0..MaxJoins
    <3>1. events \in Seq(GoodEvent) /\ GoodEvent \subseteq Event
      BY DEF LobbyInv, Queued, GoodEvent
    <3>2. events \in Seq(Event)
      BY <3>1
    <3> QED BY <3>2 DEF LobbyInv, Queued
  <2>4. /\ phase \in [Lobbies -> Phases]
        /\ kind \in [Lobbies -> {"queue", "custom"}]
        /\ host \in [Lobbies -> {0, 1}]
        /\ timer \in [Lobbies -> 0..(CountTicks + ForceTicks + LoadTicks)]
        /\ seat \in [Lobbies -> [Pids -> Conns \cup {Bot, Empty}]]
        /\ ready \in [Lobbies -> SUBSET Pids]
        /\ banned \in [Lobbies -> SUBSET (Conns \cup {Account[c] : c \in Conns})]
        /\ pending \in [Lobbies -> 0..BotFill]
    BY DEF LobbyInv, RoomTypes, Times, Rosters, Accounts
  <2>5. used \in 0..Ports
    BY DEF LobbyInv, PortsLeft
  <2>6. /\ open \subseteq Conns /\ mine \in [Conns -> Place \cup {Nobody}]
        /\ acks \in [Conns -> Seq(Place)]
    BY DEF LobbyInv, Tasks
  <2> QED BY <2>1, <2>2, <2>3, <2>4, <2>5, <2>6 DEF TypeOK
<1> QED BY <1>1, LobbyInvariant, PTL

\* A Custom lobby that still takes players has its host in it, no account holds two
\* seats of a lobby, and none that the host banned holds any, in whatever order joins,
\* rejoins, leaves, kicks and bans are handled (kick_player, is_host_teardown,
\* join_player).
THEOREM LobbySeating == Spec => []SeatingRules
<1>1. LobbyInv => SeatingRules
  <2> SUFFICES ASSUME LobbyInv PROVE SeatingRules
    OBVIOUS
  <2>1. \A l \in Lobbies : Room(phase[l], kind[l], host[l], timer[l], seat[l], banned[l])
    BY DEF LobbyInv, EachRoom
  <2>2. HostSeated
    BY <2>1 DEF Room, HostSeated, Joinable
  <2>3. OneSeatPerAccount
    BY <2>1 DEF Room, NoRepeat, OneSeatPerAccount
  <2>4. BannedStayOut
    BY <2>1 DEF Room, NoBanned, BannedStayOut
  <2> QED BY <2>2, <2>3, <2>4 DEF SeatingRules
<1> QED BY <1>1, LobbyInvariant, PTL

--------------------------------------------------------------------------------
(* What a step may do to a seat.                                                *)

\* A seat keeps who sits on it, is vacated, or goes to a connection: one that found
\* it empty, or one of the same proven account.
Passes(l, p) ==
    \/ seat'[l][p] \in {seat[l][p], Empty}
    \/ /\ seat'[l][p] \in Conns
       /\ \/ seat[l][p] = Empty
          \/ Account[seat[l][p]] = Account[seat'[l][p]] /\ Account[seat[l][p]] # Guest

\* What any step but a tick does.
Aside == \A l \in Lobbies : /\ phase'[l] \in {phase[l], "waiting", "counting", "gone"}
                            /\ \A p \in Pids : Passes(l, p)

LEMMA SameAside ==
    ASSUME UNCHANGED seat,
           \A l \in Lobbies : phase'[l] \in {phase[l], "waiting", "counting", "gone"}
    PROVE  Aside
BY DEF Aside, Passes

LEMMA VacateAside ==
    ASSUME LobbyInv, NEW l \in Lobbies, NEW p \in Pids, Vacate(l, p), UNCHANGED phase
    PROVE  Aside
<1>1. seat \in [Lobbies -> Rosters]
  BY DEF LobbyInv, RoomTypes
<1>2. \A m \in Lobbies, q \in Pids : seat'[m][q] \in {seat[m][q], Empty}
  BY <1>1 DEF Vacate, Rosters
<1> QED BY <1>2 DEF Aside, Passes

LEMMA JoinAside ==
    ASSUME LobbyInv, HandleJoin
    PROVE  Aside
<1>1. /\ seat \in [Lobbies -> Rosters] /\ phase \in [Lobbies -> Phases]
      /\ \A l \in Lobbies : phase[l] = "none" => seat[l] = NoOne
  BY DEF LobbyInv, RoomTypes, EachRoom, Room
<1>2. PICK c \in Conns : \/ Idle
                         \/ \E l \in Lobbies : Over(c, l) \/ Added(c, l) \/ Spawned(c, l)
  BY JoinShape DEF LobbyInv
<1>3. CASE Idle
  BY <1>3, SameAside DEF Idle
<1>4. ASSUME NEW l \in Lobbies, Over(c, l) \/ Added(c, l) \/ Spawned(c, l)
      PROVE  Aside
  <2>1. \A m \in Lobbies : phase'[m] \in {phase[m], "waiting"}
    BY <1>1, <1>4 DEF Over, Added, Spawned
  <2>2. PICK p \in Pids : /\ seat' = [seat EXCEPT ![l] = [seat[l] EXCEPT ![p] = c]]
                          /\ \/ seat[l][p] = Empty
                             \/ Account[seat[l][p]] = Account[c] /\ Account[c] # Guest
    <3>1. CASE Over(c, l)
      BY <3>1 DEF Over, SameAccount
    <3>2. CASE Added(c, l)
      BY <3>2 DEF Added, Seated
    <3>3. CASE Spawned(c, l)
      BY ZenonT(60), <1>1, <3>3, LobbyConstants DEF Spawned, NoOne
    <3> QED BY <1>4, <3>1, <3>2, <3>3
  <2>3. \A m \in Lobbies, q \in Pids :
           seat'[m][q] = IF m = l /\ q = p THEN c ELSE seat[m][q]
    BY <1>1, <2>2 DEF Rosters
  <2> QED BY <2>1, <2>2, <2>3 DEF Aside, Passes
<1> QED BY <1>2, <1>3, <1>4

LEMMA StepAside ==
    ASSUME LobbyInv, [Next]_vars, ~MasterTick
    PROVE  Aside
<1>1. /\ phase \in [Lobbies -> Phases]
      /\ events # <<>> => Head(events) \in GoodEvent
  BY HeadTailProperties DEF LobbyInv, RoomTypes, Queued
<1>2. ASSUME NEW c \in Conns, ConnTask(c) PROVE Aside
  <2>1. UNCHANGED lobbyVars
    BY <1>2, ConnStep DEF LobbyInv
  <2> QED BY <2>1, SameAside DEF lobbyVars
<1>3. CASE HandleJoin
  BY <1>3, JoinAside
<1>4. CASE HandleLeave
  <2> DEFINE l == Head(events).lobby
             p == Head(events).pid
  <2>1. l \in Lobbies /\ p \in Pids
    BY <1>4, TakeGood DEF HandleLeave, LobbyInv
  <2>2. \/ phase' = [phase EXCEPT ![l] = "gone"] /\ UNCHANGED seat
        \/ UNCHANGED phase /\ (Vacate(l, p) \/ UNCHANGED seat)
    BY <1>4 DEF HandleLeave
  <2> HIDE DEF l, p
  <2> QED BY <1>1, <2>1, <2>2, SameAside, VacateAside
<1>5. CASE HandleReady
  BY <1>5, SameAside DEF HandleReady
<1>6. CASE HandleKick
  <2> DEFINE e == Head(events)
  <2>1. e.lobby \in Lobbies /\ e.arg \in Pids
    BY <1>6, TakeGood DEF HandleKick, LobbyInv
  <2>2. UNCHANGED phase /\ (Vacate(e.lobby, e.arg) \/ UNCHANGED seat)
    BY <1>6 DEF HandleKick
  <2> HIDE DEF e
  <2> QED BY <2>1, <2>2, SameAside, VacateAside
<1>7. CASE HandleStart
  <2>1. Head(events).lobby \in Lobbies
    BY <1>7, TakeGood DEF HandleStart, LobbyInv
  <2>2. UNCHANGED seat /\ (UNCHANGED phase \/ phase' = [phase EXCEPT ![Head(events).lobby] = "counting"])
    BY <1>7 DEF HandleStart
  <2> QED BY <1>1, <2>1, <2>2, SameAside
<1>8. ASSUME NEW l \in Lobbies, HandoffFails(l) PROVE Aside
  BY <1>1, <1>8, SameAside DEF HandoffFails
<1>9. CASE UNCHANGED vars
  BY <1>9, SameAside DEF vars, lobbyVars
<1> QED BY <1>2, <1>3, <1>4, <1>5, <1>6, <1>7, <1>8, <1>9 DEF Next, HandleEvent

LEMMA TickOne ==
    ASSUME LobbyInv, MasterTick, NEW l \in Lobbies
    PROVE  /\ Ends(l) \/ Loads(l) \/ Goes(l) \/ Counts(l) \/ Reopens(l) \/ Rests(l)
           /\ ready[l] \subseteq ready'[l] /\ seat[l] \in Rosters
<1>1. PICK due : TickOf(due)
  BY DEF MasterTick, TickOf
<1> QED BY <1>1, TickShape DEF LobbyInv, RoomTypes

\* Bots that come in a tick fit the fill target.
LEMMA CountsFit ==
    ASSUME LobbyInv, NEW l \in Lobbies, Counts(l)
    PROVE  /\ seat'[l] = seat[l] \/ Count(seat'[l]) <= BotFill
           /\ \A p \in Pids : seat'[l][p] \in {seat[l][p], Bot}
<1>1. CASE seat'[l] = seat[l]
  BY <1>1
<1>2. CASE seat'[l] # seat[l]
  <2>1. PICK k \in 0..BotFill :
                /\ k <= Wanted(l) /\ NewBots(l, k) \subseteq Pids
                /\ seat'[l] = [p \in Pids |-> IF p \in NewBots(l, k) THEN Bot ELSE seat[l][p]]
    BY <1>2 DEF Counts
  <2>2. k \in Nat /\ seat[l] \in Rosters
    BY <2>1, LobbyConstants DEF LobbyInv, RoomTypes
  <2> DEFINE s == seat[l]
             r == seat'[l]
  <2>3. Count(r) <= Count(s) + k /\ Cardinality(NewBots(l, k)) = k
    BY <2>1, <2>2, CountBots
  <2>4. k # 0
    <3>1. ASSUME k = 0 PROVE FALSE
      <4>1. NewBots(l, k) = {}
        <5>1. Highest(Seated(s)) \in Nat
          BY HighestIn, CountNat
        <5> QED BY <3>1, <5>1 DEF NewBots
      <4>2. s = [p \in Pids |-> s[p]]
        BY <2>2 DEF Rosters
      <4> QED BY <1>2, <2>1, <4>1, <4>2
    <3> QED BY <3>1
  <2>5. Count(s) + k <= BotFill
    BY <2>1, <2>2, <2>4, WantedRange
  <2>6. Count(r) \in Nat /\ Count(s) \in Nat
    BY CountNat
  <2>7. \A p \in Pids : r[p] \in {s[p], Bot}
    BY <2>1
  <2> HIDE DEF r, s
  <2>8. Count(r) <= BotFill
    BY <2>2, <2>3, <2>5, <2>6, LobbyConstants
  <2> QED BY <2>7, <2>8 DEF r, s
<1> QED BY <1>1, <1>2

\* A lobby goes to a relay only with people in it and with every seat ready, in
\* whatever order readies and leaves come while it loads (master_tick).
THEOREM LobbyStarts == Spec => StartsWithReady
<1>1. ASSUME LobbyInv, [Next]_vars, NEW l \in Lobbies,
             phase[l] = "loading", phase'[l] \in {"ready", "handed"}
      PROVE  Externals(seat'[l]) # {} /\ Seated(seat'[l]) \subseteq ready'[l]
  <2>1. MasterTick
    BY <1>1, StepAside DEF Aside
  <2>2. Ends(l) /\ ready[l] \subseteq ready'[l]
    BY <1>1, <2>1, TickOne DEF Loads, Goes, Counts, Reopens, Rests
  <2>3. Seated(OnlyReady(l)) \subseteq ready[l]
    BY DEF OnlyReady, Seated
  <2> QED BY <1>1, <2>2, <2>3 DEF Ends
<1>2. LobbyInv /\ [Next]_vars => [\A l \in Lobbies :
         phase[l] = "loading" /\ phase'[l] \in {"ready", "handed"} =>
             /\ Externals(seat'[l]) # {}
             /\ Seated(seat'[l]) \subseteq ready'[l]]_vars
  BY <1>1
<1> QED BY <1>2, LobbyInvariant, PTL DEF Spec, StartsWithReady

\* A bot sits down only while players and bots together stay within the fill target,
\* however many people came since it was announced (inject_internal_bots).
THEOREM LobbyBots == Spec => BotsGiveWay
<1>1. ASSUME LobbyInv, [Next]_vars, NEW l \in Lobbies, Bots(seat'[l]) \ Bots(seat[l]) # {}
      PROVE  Cardinality(Seated(seat'[l])) <= BotFill
  <2>1. PICK p \in Pids : seat'[l][p] = Bot /\ seat[l][p] # Bot
    BY <1>1 DEF Bots
  <2>2. MasterTick
    BY <1>1, <2>1, StepAside, LobbyConstants DEF Aside, Passes
  <2>3. Counts(l)
    <3>1. ~Ends(l)
      BY <2>1, LobbyConstants DEF Ends, OnlyReady
    <3>2. seat'[l] # seat[l]
      BY <2>1
    <3> QED BY <1>1, <2>2, <3>1, <3>2, TickOne DEF Loads, Goes, Reopens, Rests
  <2> QED BY <1>1, <2>1, <2>3, CountsFit DEF Count
<1>2. LobbyInv /\ [Next]_vars => [\A l \in Lobbies :
         Bots(seat'[l]) \ Bots(seat[l]) # {} =>
             Cardinality(Seated(seat'[l])) <= BotFill]_vars
  BY <1>1
<1> QED BY <1>2, LobbyInvariant, PTL DEF Spec, BotsGiveWay

\* A seat passes from one connection to another only within a proven account
\* (main.rs, legacy Join; join_player).
THEOREM LobbyTakeover == Spec => TakeoverByOwner
<1>1. ASSUME LobbyInv, [Next]_vars, NEW l \in Lobbies, NEW p \in Pids,
             seat[l][p] \in Conns, seat'[l][p] \in Conns \ {seat[l][p]}
      PROVE  Account[seat[l][p]] = Account[seat'[l][p]] /\ Account[seat[l][p]] # Guest
  <2>1. ~MasterTick
    <3>1. ASSUME MasterTick PROVE FALSE
      <4>1. ~Ends(l)
        BY <1>1, LobbyConstants DEF Ends, OnlyReady
      <4>2. seat'[l] # seat[l]
        BY <1>1
      <4>3. Counts(l)
        BY <1>1, <3>1, <4>1, <4>2, TickOne DEF Loads, Goes, Reopens, Rests
      <4> QED BY <1>1, <4>3, CountsFit, LobbyConstants
    <3> QED BY <3>1
  <2> QED BY <1>1, <2>1, StepAside, LobbyConstants DEF Aside, Passes
<1>2. LobbyInv /\ [Next]_vars => [\A l \in Lobbies, p \in Pids :
         /\ seat[l][p] \in Conns
         /\ seat'[l][p] \in Conns \ {seat[l][p]}
         => /\ Account[seat[l][p]] = Account[seat'[l][p]]
            /\ Account[seat[l][p]] # Guest]_vars
  BY <1>1
<1> QED BY <1>2, LobbyInvariant, PTL DEF Spec, TakeoverByOwner
================================================================================
