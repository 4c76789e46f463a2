---------------------------- MODULE DiplomacyProofs ----------------------------
(* Theorems about Diplomacy, for any players and any durations. *)
EXTENDS Diplomacy, TLAPS

\* The types, by the variables an action changes together.
PactType ==
    /\ alliances \in [Players -> SUBSET Players]
    /\ timers \in [Players -> [Players -> 0..DurationTicks]]
AskType ==
    /\ requests \in [Players -> [Players -> 0..RequestTicks + 1]]
    /\ cooldown \in [Players -> [Players -> 0..CooldownTicks]]
BladeType ==
    /\ betrayed \in [Bots -> 0..BetrayalTicks]
    /\ blade \in [Players -> 0..Larger(BotBlade, HumanBlade)]
    /\ pinned \in [Players -> BOOLEAN]
WarType ==
    /\ fate \in [Players -> {"alive", "resigned", "eliminated"}]
    /\ wars \subseteq Players \X Players
    /\ ashore \subseteq wars
StageType ==
    /\ stage \in {"intents", "tick"}
    /\ decisions \subseteq Decisions

LEMMA TypeParts == TypeOK <=> PactType /\ AskType /\ BladeType /\ WarType /\ StageType
BY DEF TypeOK, PactType, AskType, BladeType, WarType, StageType

\* Nobody is an ally of himself, so that Ally and Part concern two players.
NotOneself == \A p \in Players : p \notin alliances[p]

\* What an intent preserves.
Inv ==
    /\ PactType /\ AskType /\ BladeType /\ WarType
    /\ AlliesAgree /\ NotOneself
    /\ OneDirection /\ RequestsRenew /\ AlliesAtPeace

IInv == Inv /\ StageType

LEMMA Ticks ==
    /\ RequestTicks \in Nat
    /\ CooldownTicks \in Nat /\ CooldownTicks > 0
    /\ BetrayalTicks \in Nat /\ BetrayalTicks > 0
    /\ DurationTicks \in Nat /\ DurationTicks > 0
    /\ RenewalTicks \in 0..DurationTicks
    /\ BotBlade \in Nat /\ HumanBlade \in Nat
    /\ BotBlade > 0 /\ HumanBlade > 0
BY DiplomacyAssumption

\* A counter that runs down stays in its range.
LEMMA LeftRange ==
    ASSUME NEW m \in Nat, NEW n \in 0..m
    PROVE  Left(n) \in 0..m /\ (Left(n) > 0 => n > 0)
BY DEF Left

--------------------------------------------------------------------------------
(* Making and ending an alliance. *)

\* Ally changes the entries of its pair, and no other.
LEMMA AllyPoints ==
    ASSUME PactType, NEW p \in Players, NEW q \in Players, p # q, Ally(p, q)
    PROVE  /\ PactType'
           /\ \A a, b \in Players :
                 /\ timers'[a][b] = IF <<a, b>> \in Between(p, q)
                                    THEN DurationTicks ELSE timers[a][b]
                 /\ b \in alliances'[a]
                       <=> b \in alliances[a] \/ <<a, b>> \in Between(p, q)
<1>1. DurationTicks \in 0..DurationTicks
  BY Ticks
<1>2. PactType'
  BY <1>1 DEF PactType, Ally
<1>3. ASSUME NEW a \in Players, NEW b \in Players
      PROVE  timers'[a][b] = IF <<a, b>> \in Between(p, q)
                             THEN DurationTicks ELSE timers[a][b]
  BY <1>3 DEF PactType, Ally, Between
<1>4. ASSUME NEW a \in Players, NEW b \in Players
      PROVE  b \in alliances'[a] <=> b \in alliances[a] \/ <<a, b>> \in Between(p, q)
  BY <1>4 DEF PactType, Ally, Between
<1> QED BY <1>2, <1>3, <1>4

\* Part changes the entries of its pair, and no other.
LEMMA PartPoints ==
    ASSUME PactType, NEW p \in Players, NEW q \in Players, Part(p, q)
    PROVE  /\ PactType'
           /\ \A a, b \in Players :
                 /\ timers'[a][b] = IF <<a, b>> \in Between(p, q)
                                    THEN 0 ELSE timers[a][b]
                 /\ b \in alliances'[a]
                       <=> b \in alliances[a] /\ <<a, b>> \notin Between(p, q)
<1>1. 0 \in 0..DurationTicks
  BY Ticks
<1>2. PactType'
  BY <1>1 DEF PactType, Part
<1>3. ASSUME NEW a \in Players, NEW b \in Players
      PROVE  timers'[a][b] = IF <<a, b>> \in Between(p, q) THEN 0 ELSE timers[a][b]
  BY <1>3 DEF PactType, Part, Between
<1>4. ASSUME NEW a \in Players, NEW b \in Players
      PROVE  b \in alliances'[a] <=> b \in alliances[a] /\ <<a, b>> \notin Between(p, q)
  BY <1>4 DEF PactType, Part, Between
<1> QED BY <1>2, <1>3, <1>4

\* An alliance made by an answer, which leaves no request of the pair.
LEMMA AllyKeeps ==
    ASSUME Inv, NEW p \in Players, NEW q \in Players, p # q, Ally(p, q),
           AskType', OneDirection',
           \A a, b \in Players : requests'[a][b] > 0 => requests[a][b] > 0,
           requests'[p][q] = 0, requests'[q][p] = 0,
           UNCHANGED <<betrayed, blade, pinned, fate>>
    PROVE  Inv'
<1>1. /\ PactType'
      /\ \A a, b \in Players :
            /\ timers'[a][b] = IF <<a, b>> \in Between(p, q)
                               THEN DurationTicks ELSE timers[a][b]
            /\ b \in alliances'[a]
                  <=> b \in alliances[a] \/ <<a, b>> \in Between(p, q)
  BY AllyPoints DEF Inv
<1>2. BladeType'
  BY DEF Inv, BladeType
<1>3. WarType'
  BY DEF Inv, WarType, Ally, Withdrawn
<1>4. \A a, b \in Players : <<a, b>> \in Between(p, q) <=> <<b, a>> \in Between(p, q)
  BY DEF Between
<1>5. AlliesAgree'
  <2> SUFFICES ASSUME NEW a \in Players, NEW b \in Players
               PROVE  /\ b \in alliances'[a] <=> timers'[a][b] > 0
                      /\ timers'[a][b] = timers'[b][a]
    BY DEF AlliesAgree
  <2>1. /\ b \in alliances[a] <=> timers[a][b] > 0
        /\ timers[a][b] = timers[b][a]
    BY DEF Inv, AlliesAgree
  <2>2. CASE <<a, b>> \in Between(p, q)
    <3>1. <<b, a>> \in Between(p, q)
      BY <1>4, <2>2
    <3> QED BY <1>1, <2>2, <3>1, Ticks
  <2>3. CASE <<a, b>> \notin Between(p, q)
    <3>1. <<b, a>> \notin Between(p, q)
      BY <1>4, <2>3
    <3> QED BY <1>1, <2>1, <2>3, <3>1
  <2> QED BY <2>2, <2>3
<1>6. NotOneself'
  BY <1>1 DEF Inv, NotOneself, Between
<1>7. RequestsRenew'
  <2> SUFFICES ASSUME NEW a \in Players, NEW b \in Players,
                      requests'[a][b] > 0, b \in alliances'[a]
               PROVE  timers'[a][b] <= RenewalTicks
    BY DEF RequestsRenew
  <2>1. <<a, b>> \notin Between(p, q)
    BY DEF Between
  <2> QED BY <1>1, <2>1 DEF Inv, RequestsRenew
<1>8. AlliesAtPeace'
  <2> SUFFICES ASSUME NEW a \in Players, NEW b \in Players,
                      <<a, b>> \in wars', b \in alliances'[a]
               PROVE  <<a, b>> \in ashore'
    BY DEF AlliesAtPeace
  <2>1. <<a, b>> \in wars /\ <<a, b>> \notin Between(p, q)
    BY DEF Ally, Withdrawn
  <2>2. <<a, b>> \in ashore
    BY <1>1, <2>1 DEF Inv, AlliesAtPeace
  <2> QED BY <2>1, <2>2 DEF Ally, Withdrawn
<1> QED BY <1>1, <1>2, <1>3, <1>5, <1>6, <1>7, <1>8 DEF Inv

\* The end of an alliance is seen alike by both.
LEMMA PartAgree ==
    ASSUME PactType, AlliesAgree, NotOneself,
           NEW p \in Players, NEW q \in Players, Part(p, q)
    PROVE  AlliesAgree' /\ NotOneself'
<1>1. /\ PactType'
      /\ \A a, b \in Players :
            /\ timers'[a][b] = IF <<a, b>> \in Between(p, q) THEN 0 ELSE timers[a][b]
            /\ b \in alliances'[a]
                  <=> b \in alliances[a] /\ <<a, b>> \notin Between(p, q)
  BY PartPoints
<1>2. \A a, b \in Players : <<a, b>> \in Between(p, q) <=> <<b, a>> \in Between(p, q)
  BY DEF Between
<1>3. AlliesAgree'
  <2> SUFFICES ASSUME NEW a \in Players, NEW b \in Players
               PROVE  /\ b \in alliances'[a] <=> timers'[a][b] > 0
                      /\ timers'[a][b] = timers'[b][a]
    BY DEF AlliesAgree
  <2>1. /\ b \in alliances[a] <=> timers[a][b] > 0
        /\ timers[a][b] = timers[b][a]
    BY DEF AlliesAgree
  <2>2. CASE <<a, b>> \in Between(p, q)
    <3>1. <<b, a>> \in Between(p, q)
      BY <1>2, <2>2
    <3> QED BY <1>1, <2>2, <3>1
  <2>3. CASE <<a, b>> \notin Between(p, q)
    <3>1. <<b, a>> \notin Between(p, q)
      BY <1>2, <2>3
    <3> QED BY <1>1, <2>1, <2>3, <3>1
  <2> QED BY <2>2, <2>3
<1>4. NotOneself'
  BY <1>1 DEF NotOneself
<1> QED BY <1>3, <1>4

\* An alliance ended, with no new war.
LEMMA PartKeeps ==
    ASSUME PactType, AlliesAgree, NotOneself, RequestsRenew, AlliesAtPeace,
           NEW p \in Players, NEW q \in Players,
           Part(p, q), UNCHANGED <<requests, warVars>>
    PROVE  /\ PactType' /\ AlliesAgree' /\ NotOneself'
           /\ RequestsRenew' /\ AlliesAtPeace'
<1>1. /\ PactType'
      /\ \A a, b \in Players :
            /\ timers'[a][b] = IF <<a, b>> \in Between(p, q) THEN 0 ELSE timers[a][b]
            /\ b \in alliances'[a]
                  <=> b \in alliances[a] /\ <<a, b>> \notin Between(p, q)
  BY PartPoints
<1>2. AlliesAgree' /\ NotOneself'
  BY PartAgree
<1>3. RequestsRenew'
  BY <1>1 DEF RequestsRenew
<1>4. AlliesAtPeace'
  BY <1>1 DEF AlliesAtPeace, warVars
<1> QED BY <1>1, <1>2, <1>3, <1>4

--------------------------------------------------------------------------------
(* The intents preserve Inv. *)

LEMMA ProposeKeeps ==
    ASSUME Inv, NEW p \in Players, NEW q \in Players, Propose(p, q)
    PROVE  Inv'
<1>1. UNCHANGED <<betrayed, blade, pinned, fate>>
  BY DEF Propose, bladeVars
<1>2. CASE UNCHANGED <<pactVars, askVars, warVars>>
  BY <1>1, <1>2 DEF Inv, pactVars, askVars, warVars, PactType, AskType, BladeType,
     WarType, AlliesAgree, NotOneself, OneDirection, RequestsRenew, AlliesAtPeace
<1>3. CASE p # q /\ Answered(p, q)
  <2>1. /\ Ally(p, q)
        /\ requests[q][p] > 0
        /\ requests' = [requests EXCEPT ![q][p] = 0]
        /\ cooldown' = cooldown
    BY <1>3 DEF Answered
  <2>2. requests \in [Players -> [Players -> 0..RequestTicks + 1]]
    BY DEF Inv, AskType
  <2>3. AskType'
    BY <2>1, <2>2, Ticks DEF Inv, AskType
  <2>4. \A a, b \in Players : requests'[a][b] = IF a = q /\ b = p
                                               THEN 0 ELSE requests[a][b]
    BY <2>1, <2>2
  <2>5. requests[p][q] = 0
    BY <2>1, <2>2, Ticks DEF Inv, OneDirection
  <2>6. OneDirection'
    BY <2>4 DEF Inv, OneDirection
  <2>7. requests'[p][q] = 0 /\ requests'[q][p] = 0
    BY <1>3, <2>4, <2>5
  <2>8. \A a, b \in Players : requests'[a][b] > 0 => requests[a][b] > 0
    BY <2>4
  <2> QED BY <1>1, <1>3, <2>1, <2>3, <2>6, <2>7, <2>8, AllyKeeps
<1>4. CASE p # q /\ (q \notin alliances[p] \/ Renewable(p, q)) /\ Asked(p, q)
  <2>1. /\ requests[q][p] = 0
        /\ UNCHANGED <<alliances, timers, wars, ashore, cooldown>>
    BY <1>4 DEF Asked, pactVars, warVars
  <2>2. requests \in [Players -> [Players -> 0..RequestTicks + 1]]
    BY DEF Inv, AskType
  <2>3. CASE requests' = requests
    BY <1>1, <2>1, <2>3 DEF Inv, PactType, AskType, BladeType, WarType, AlliesAgree,
       NotOneself, OneDirection, RequestsRenew, AlliesAtPeace
  <2>4. CASE requests' = [requests EXCEPT ![p][q] = RequestTicks + 1]
    <3>1. \A a, b \in Players : requests'[a][b] = IF a = p /\ b = q
                                THEN RequestTicks + 1 ELSE requests[a][b]
      BY <2>2, <2>4
    <3>2. AskType'
      BY <2>1, <2>2, <2>4, Ticks DEF Inv, AskType
    <3>3. OneDirection'
      BY <1>4, <2>1, <3>1 DEF Inv, OneDirection
    <3>4. RequestsRenew'
      BY <1>4, <2>1, <3>1 DEF Inv, RequestsRenew, Renewable
    <3>5. PactType' /\ BladeType' /\ WarType' /\ AlliesAgree' /\ NotOneself' /\ AlliesAtPeace'
      BY <1>1, <2>1 DEF Inv, PactType, BladeType, WarType, AlliesAgree, NotOneself,
         AlliesAtPeace
    <3> QED BY <3>2, <3>3, <3>4, <3>5 DEF Inv
  <2> QED BY <1>4, <2>3, <2>4 DEF Asked
<1> QED BY <1>2, <1>3, <1>4 DEF Propose

LEMMA AcceptKeeps ==
    ASSUME Inv, NEW p \in Players, NEW q \in Players, Accept(p, q)
    PROVE  Inv'
<1>1. UNCHANGED <<betrayed, blade, pinned, fate, cooldown>>
  BY DEF Accept, bladeVars
<1>2. CASE ~(requests[q][p] > 0)
  BY <1>1, <1>2 DEF Accept, Inv, pactVars, warVars, PactType, AskType, BladeType,
     WarType, AlliesAgree, NotOneself, OneDirection, RequestsRenew, AlliesAtPeace
<1>3. CASE requests[q][p] > 0
  <2>1. /\ Ally(p, q)
        /\ requests' = [requests EXCEPT ![q][p] = 0, ![p][q] = 0]
    BY <1>3 DEF Accept
  <2>2. requests \in [Players -> [Players -> 0..RequestTicks + 1]]
    BY DEF Inv, AskType
  <2>3. p # q
    BY <1>3 DEF Inv, OneDirection
  <2>4. \A a, b \in Players : \/ requests'[a][b] = requests[a][b]
                             \/ requests'[a][b] = 0
    BY <2>1, <2>2, <2>3
  <2>5. AskType'
    <3>1. 0 \in 0..RequestTicks + 1
      BY Ticks
    <3>2. requests' \in [Players -> [Players -> 0..RequestTicks + 1]]
      BY <2>1, <2>2, <3>1
    <3> QED BY <1>1, <3>2 DEF Inv, AskType
  <2>8. \A a, b \in Players : requests'[a][b] > 0 => requests[a][b] > 0
    BY <2>4
  <2>6. OneDirection'
    BY <2>8 DEF Inv, OneDirection
  <2>7. requests'[p][q] = 0 /\ requests'[q][p] = 0
    BY <2>1, <2>2, <2>3
  <2> QED BY <1>1, <2>1, <2>3, <2>5, <2>6, <2>7, <2>8, AllyKeeps
<1> QED BY <1>2, <1>3

LEMMA RejectKeeps ==
    ASSUME Inv, NEW p \in Players, NEW q \in Players, Reject(p, q)
    PROVE  Inv'
<1>1. UNCHANGED <<alliances, timers, betrayed, blade, pinned, fate, wars, ashore>>
  BY DEF Reject, pactVars, bladeVars, warVars
<1>2. PactType' /\ BladeType' /\ WarType' /\ AlliesAgree' /\ NotOneself' /\ AlliesAtPeace'
  BY <1>1 DEF Inv, PactType, BladeType, WarType, AlliesAgree, NotOneself, AlliesAtPeace
<1>3. requests \in [Players -> [Players -> 0..RequestTicks + 1]]
  BY DEF Inv, AskType
<1>4. /\ AskType'
      /\ \A a, b \in Players : requests'[a][b] > 0 => requests[a][b] > 0
  <2>1. CASE UNCHANGED askVars
    BY <2>1 DEF Inv, AskType, askVars
  <2>2. CASE /\ requests' = [requests EXCEPT ![q][p] = 0]
             /\ cooldown' = [cooldown EXCEPT ![q][p] = CooldownTicks]
    <3>1. 0 \in 0..RequestTicks + 1 /\ CooldownTicks \in 0..CooldownTicks
      BY Ticks
    <3>2. AskType'
      BY <2>2, <3>1 DEF Inv, AskType
    <3>3. \A a, b \in Players : \/ requests'[a][b] = requests[a][b]
                               \/ requests'[a][b] = 0
      BY <1>3, <2>2
    <3> QED BY <3>2, <3>3
  <2> QED BY <2>1, <2>2 DEF Reject
<1>5. OneDirection'
  BY <1>4 DEF Inv, OneDirection
<1>6. RequestsRenew'
  BY <1>1, <1>4 DEF Inv, RequestsRenew
<1> QED BY <1>2, <1>4, <1>5, <1>6 DEF Inv

LEMMA BreakKeeps ==
    ASSUME Inv, NEW p \in Players, NEW q \in Players, Break(p, q)
    PROVE  Inv'
<1>1. Part(p, q) /\ UNCHANGED <<requests, cooldown, pinned, fate, warVars>>
  BY DEF Break, askVars
<1>2. PactType' /\ AlliesAgree' /\ NotOneself' /\ RequestsRenew' /\ AlliesAtPeace'
  BY <1>1, PartKeeps DEF Inv
<1>3. BladeType'
  <2>1. betrayed' \in [Bots -> 0..BetrayalTicks]
    BY Ticks DEF Break, Inv, BladeType
  <2>2. /\ BotBlade \in 0..Larger(BotBlade, HumanBlade)
        /\ HumanBlade \in 0..Larger(BotBlade, HumanBlade)
    BY Ticks DEF Larger
  <2>3. blade' \in [Players -> 0..Larger(BotBlade, HumanBlade)]
    BY <2>2 DEF Break, Inv, BladeType
  <2> QED BY <1>1, <2>1, <2>3 DEF Inv, BladeType
<1>4. AskType' /\ WarType' /\ OneDirection'
  BY <1>1 DEF Inv, AskType, WarType, OneDirection, warVars
<1> QED BY <1>2, <1>3, <1>4 DEF Inv

\* The silent end of an alliance with one who shows the dagger.
LEMMA SeveredKeeps ==
    ASSUME Inv, NEW p \in Players, NEW q \in Players, Severed(p, q),
           UNCHANGED <<requests, warVars>>
    PROVE  /\ PactType' /\ AlliesAgree' /\ NotOneself'
           /\ RequestsRenew' /\ AlliesAtPeace'
<1>1. CASE Part(p, q)
  BY <1>1, PartKeeps DEF Inv
<1>2. CASE UNCHANGED pactVars
  BY <1>2 DEF Inv, PactType, AlliesAgree, NotOneself, RequestsRenew, AlliesAtPeace,
     pactVars, warVars
<1> QED BY <1>1, <1>2 DEF Severed

\* After an attack order the two are no allies, or nothing has changed: the
\* one war it can open is not among allies.
LEMMA AttackKeeps ==
    ASSUME Inv, NEW p \in Players, NEW q \in Players, Attack(p, q)
    PROVE  Inv'
<1>1. UNCHANGED <<requests, cooldown, betrayed, blade, pinned, fate>>
  BY DEF Attack, askVars, bladeVars
<1>2. AskType' /\ BladeType' /\ OneDirection'
  BY <1>1 DEF Inv, AskType, BladeType, OneDirection
<1>3. CASE UNCHANGED warVars
  <2>1. WarType'
    BY <1>1, <1>3 DEF Inv, WarType, warVars
  <2> QED BY <1>1, <1>2, <1>3, <2>1, SeveredKeeps DEF Attack, Inv
<1>4. CASE ~Refrains(p, q) /\ Charged(p, q) /\ ~UNCHANGED warVars
  <2>1. PICK met \in SUBSET ({<<q, p>>} \intersect wars),
             opened \in {{}, {<<p, q>>}} :
             /\ wars' = (wars \ met) \union opened
             /\ ashore' = ashore \ met
    BY <1>4 DEF Charged
  <2>2. WarType'
    BY <1>1, <2>1 DEF Inv, WarType
  <2>3. q \notin alliances'[p]
    <3>1. CASE q \in alliances[p]
      <4>1. blade[q] # 0
        BY <1>4, <3>1 DEF Refrains
      <4>2. blade[q] > 0
        BY <4>1, Ticks DEF Inv, BladeType, Larger
      <4>3. Part(p, q)
        BY <3>1, <4>2 DEF Attack, Severed
      <4> QED BY <4>3, PartPoints DEF Inv, Between
    <3>2. CASE q \notin alliances[p]
      BY <3>2 DEF Attack, Severed, pactVars
    <3> QED BY <3>1, <3>2
  <2>4. /\ PactType' /\ AlliesAgree' /\ NotOneself' /\ RequestsRenew'
        /\ \A a, b \in Players : b \in alliances'[a] => b \in alliances[a]
    <3>1. CASE Part(p, q)
      <4>1. /\ PactType'
            /\ \A a, b \in Players :
                  /\ timers'[a][b] = IF <<a, b>> \in Between(p, q)
                                     THEN 0 ELSE timers[a][b]
                  /\ b \in alliances'[a]
                        <=> b \in alliances[a] /\ <<a, b>> \notin Between(p, q)
        BY <3>1, PartPoints DEF Inv
      <4>2. AlliesAgree' /\ NotOneself'
        BY <3>1, PartAgree DEF Inv
      <4>3. RequestsRenew'
        BY <1>1, <4>1 DEF Inv, RequestsRenew
      <4> QED BY <4>1, <4>2, <4>3
    <3>2. CASE UNCHANGED pactVars
      BY <1>1, <3>2 DEF Inv, PactType, AlliesAgree, NotOneself, RequestsRenew, pactVars
    <3> QED BY <3>1, <3>2 DEF Attack, Severed
  <2>5. AlliesAtPeace'
    <3> SUFFICES ASSUME NEW a \in Players, NEW b \in Players,
                        <<a, b>> \in wars', b \in alliances'[a]
                 PROVE  <<a, b>> \in ashore'
      BY DEF AlliesAtPeace
    <3>1. <<a, b>> # <<p, q>>
      BY <2>3
    <3>2. <<a, b>> \in wars /\ <<a, b>> \notin met
      BY <2>1, <3>1
    <3>3. <<a, b>> \in ashore
      BY <2>4, <3>2 DEF Inv, AlliesAtPeace
    <3> QED BY <2>1, <3>2, <3>3
  <2> QED BY <1>2, <2>2, <2>4, <2>5 DEF Inv
<1> QED BY <1>3, <1>4 DEF Attack

LEMMA LaunchFleetKeeps ==
    ASSUME Inv, NEW p \in Players, NEW q \in Players, LaunchFleet(p, q)
    PROVE  Inv'
<1>1. UNCHANGED <<requests, cooldown, betrayed, blade, pinned, fate, wars, ashore>>
  BY DEF LaunchFleet, askVars, bladeVars, warVars
<1>2. AskType' /\ BladeType' /\ OneDirection' /\ WarType'
  BY <1>1 DEF Inv, AskType, BladeType, OneDirection, WarType
<1> QED BY <1>1, <1>2, SeveredKeeps DEF LaunchFleet, Inv, warVars

\* Wars that end, and players who leave.
LEMMA WarsEndKeeps ==
    ASSUME Inv, NEW W, wars' = wars \ W, ashore' = ashore \ W,
           UNCHANGED <<pactVars, askVars, bladeVars>>,
           fate' \in [Players -> {"alive", "resigned", "eliminated"}]
    PROVE  Inv'
<1>1. UNCHANGED <<alliances, timers, requests, cooldown, betrayed, blade, pinned>>
  BY DEF pactVars, askVars, bladeVars
<1>2. WarType' /\ AlliesAtPeace'
  BY <1>1 DEF Inv, WarType, AlliesAtPeace
<1> QED BY <1>1, <1>2 DEF Inv, PactType, AskType, BladeType, AlliesAgree, NotOneself,
        OneDirection, RequestsRenew

--------------------------------------------------------------------------------
(* The steps of the turn. *)

LEMMA ThinkKeeps == ASSUME IInv, Think PROVE IInv'
<1>1. UNCHANGED <<alliances, timers, blade, pinned, fate, wars, ashore>>
  BY DEF Think, pactVars, warVars
<1>2. /\ requests \in [Players -> [Players -> 0..RequestTicks + 1]]
      /\ cooldown \in [Players -> [Players -> 0..CooldownTicks]]
      /\ betrayed \in [Bots -> 0..BetrayalTicks]
  BY DEF IInv, Inv, AskType, BladeType
<1>3. \A p, q \in Players : requests'[p][q] = Left(requests[p][q])
  BY DEF Think, Prune
<1>4. AskType'
  <2>1. \A p, q \in Players : Left(requests[p][q]) \in 0..RequestTicks + 1
    BY <1>2, LeftRange, Ticks
  <2>2. \A p, q \in Players : Left(cooldown[p][q]) \in 0..CooldownTicks
    BY <1>2, LeftRange, Ticks
  <2>3. CooldownTicks \in 0..CooldownTicks
    BY Ticks
  <2>4. \A p, q \in Players :
           (IF requests[p][q] = 1 THEN CooldownTicks ELSE Left(cooldown[p][q]))
             \in 0..CooldownTicks
    BY <2>2, <2>3
  <2> QED BY <2>1, <2>4 DEF Think, Prune, AskType
<1>5. BladeType'
  <2>1. \A b \in Bots : Left(betrayed[b]) \in 0..BetrayalTicks
    BY <1>2, LeftRange, Ticks
  <2> QED BY <1>1, <2>1 DEF Think, Prune, IInv, Inv, BladeType
<1>6. \A p, q \in Players : requests'[p][q] > 0 => requests[p][q] > 0
  BY <1>2, <1>3, Ticks DEF Left
<1>7. OneDirection'
  BY <1>6 DEF IInv, Inv, OneDirection
<1>8. RequestsRenew'
  BY <1>1, <1>6 DEF IInv, Inv, RequestsRenew
<1>9. StageType'
  BY DEF Think, Possible, StageType
<1> QED BY <1>1, <1>4, <1>5, <1>7, <1>8, <1>9 DEF IInv, Inv, PactType, WarType,
        AlliesAgree, NotOneself, AlliesAtPeace

LEMMA DecideKeeps == ASSUME IInv, NEW d \in decisions, Decide(d) PROVE IInv'
<1>1. d.bot \in Players /\ d.target \in Players
  BY DiplomacyAssumption DEF IInv, StageType, Decisions
<1>2. Inv'
  BY <1>1, AcceptKeeps, ProposeKeeps, BreakKeeps, AttackKeeps, LaunchFleetKeeps
  DEF Decide, IInv
<1>3. StageType'
  BY DEF Decide, IInv, StageType
<1> QED BY <1>2, <1>3 DEF IInv

\* Timers run down together, and an alliance ends when they reach zero.
LEMMA EndTickKeeps == ASSUME IInv, EndTick PROVE IInv'
<1>1. UNCHANGED <<requests, cooldown, betrayed, pinned, fate, wars, ashore, decisions>>
  BY DEF EndTick, askVars, warVars
<1>2. /\ alliances \in [Players -> SUBSET Players]
      /\ timers \in [Players -> [Players -> 0..DurationTicks]]
      /\ blade \in [Players -> 0..Larger(BotBlade, HumanBlade)]
  BY DEF IInv, Inv, PactType, BladeType
<1>3. \A p, q \in Players :
         /\ timers'[p][q] = IF Over(p, q) THEN 0 ELSE Left(timers[p][q])
         /\ q \in alliances'[p] <=> q \in alliances[p] /\ ~Over(p, q)
  BY <1>2 DEF EndTick
<1>4. \A p, q \in Players :
         /\ timers[p][q] \in 0..DurationTicks
         /\ q \in alliances[p] <=> timers[p][q] > 0
         /\ timers[p][q] = timers[q][p]
  BY <1>2 DEF IInv, Inv, AlliesAgree
<1>5. PactType'
  <2>1. \A p, q \in Players :
           (IF Over(p, q) THEN 0 ELSE Left(timers[p][q])) \in 0..DurationTicks
    BY <1>4, Ticks DEF Left
  <2> QED BY <1>2, <2>1 DEF EndTick, PactType
<1>6. AlliesAgree'
  <2> SUFFICES ASSUME NEW p \in Players, NEW q \in Players
               PROVE  /\ q \in alliances'[p] <=> timers'[p][q] > 0
                      /\ timers'[p][q] = timers'[q][p]
    BY DEF AlliesAgree
  <2>1. Over(p, q) <=> Over(q, p)
    BY DEF Over
  <2>2. CASE Over(p, q)
    BY <1>3, <2>1, <2>2
  <2>3. CASE ~Over(p, q)
    <3>1. timers'[p][q] = Left(timers[p][q]) /\ timers'[q][p] = Left(timers[q][p])
      BY <1>3, <2>1, <2>3
    <3>2. timers[p][q] # 1
      BY <2>3 DEF Over
    <3>3. Left(timers[p][q]) > 0 <=> timers[p][q] > 0
      BY <1>4, <3>2, Ticks DEF Left
    <3> QED BY <1>3, <1>4, <2>3, <3>1, <3>3
  <2> QED BY <2>2, <2>3
<1>7. NotOneself'
  BY <1>3 DEF IInv, Inv, NotOneself
<1>8. BladeType'
  <2>1. Larger(BotBlade, HumanBlade) \in Nat
    BY Ticks DEF Larger
  <2>2. \A p \in Players : Left(blade[p]) \in 0..Larger(BotBlade, HumanBlade)
    BY <1>2, <2>1, LeftRange
  <2> QED BY <1>1, <1>2, <2>2 DEF EndTick, IInv, Inv, BladeType
<1>9. RequestsRenew'
  <2> SUFFICES ASSUME NEW p \in Players, NEW q \in Players,
                      requests'[p][q] > 0, q \in alliances'[p]
               PROVE  timers'[p][q] <= RenewalTicks
    BY DEF RequestsRenew
  <2>1. timers[p][q] <= RenewalTicks /\ timers'[p][q] = Left(timers[p][q])
    BY <1>1, <1>3 DEF IInv, Inv, RequestsRenew
  <2> QED BY <1>4, <2>1, Ticks DEF Left
<1>10. AlliesAtPeace'
  BY <1>1, <1>3 DEF IInv, Inv, AlliesAtPeace
<1>11. StageType'
  BY <1>1 DEF EndTick, IInv, StageType
<1>12. AskType' /\ WarType' /\ OneDirection'
  BY <1>1 DEF IInv, Inv, AskType, WarType, OneDirection
<1> QED BY <1>5, <1>6, <1>7, <1>8, <1>9, <1>10, <1>11, <1>12 DEF IInv, Inv

LEMMA InitInv == Init => IInv
<1> SUFFICES ASSUME Init PROVE IInv
  OBVIOUS
<1>1. \A p, q \in Players : Nothing[p][q] = 0
  BY DEF Nothing
<1>2. PactType /\ AskType
  BY Ticks DEF Init, Nothing, PactType, AskType
<1>3. BladeType
  <2>1. 0 \in 0..Larger(BotBlade, HumanBlade)
    BY Ticks DEF Larger
  <2> QED BY <2>1, Ticks DEF Init, BladeType
<1>4. WarType /\ StageType
  BY DEF Init, WarType, StageType
<1>5. AlliesAgree /\ NotOneself /\ OneDirection /\ RequestsRenew /\ AlliesAtPeace
  BY <1>1 DEF Init, AlliesAgree, NotOneself, OneDirection, RequestsRenew, AlliesAtPeace
<1> QED BY <1>2, <1>3, <1>4, <1>5 DEF IInv, Inv

LEMMA NextInv == IInv /\ [Next]_vars => IInv'
<1> SUFFICES ASSUME IInv, [Next]_vars PROVE IInv'
  OBVIOUS
<1>1. Inv /\ StageType /\ Humans \subseteq Players
  BY DiplomacyAssumption DEF IInv
<1>2. ASSUME NEW p \in Humans, NEW q \in Players, HumanIntent(p, q)
      PROVE  IInv'
  <2>1. p \in Players
    BY <1>1
  <2>2. Inv'
    BY <1>1, <1>2, <2>1, ProposeKeeps, AcceptKeeps, RejectKeeps, BreakKeeps,
       AttackKeeps, LaunchFleetKeeps DEF HumanIntent
  <2> QED BY <1>1, <1>2, <2>2 DEF HumanIntent, IInv, StageType
<1>3. ASSUME NEW p \in Humans, NEW q \in Players, CancelAttack(p, q)
      PROVE  IInv'
  <2>1. Inv'
    BY <1>1, <1>3, WarsEndKeeps DEF CancelAttack, Inv, WarType
  <2> QED BY <1>1, <1>3, <2>1 DEF CancelAttack, IInv, StageType
<1>4. ASSUME NEW p \in Humans, Resign(p)
      PROVE  IInv'
  <2> DEFINE own == {w \in Players \X Players : w[1] = p}
  <2>1. wars' = wars \ own /\ ashore' = ashore \ own
    BY <1>1, <1>4 DEF Resign, Inv, WarType
  <2>2. fate' \in [Players -> {"alive", "resigned", "eliminated"}]
    BY <1>1, <1>4 DEF Resign, Inv, WarType
  <2> HIDE DEF own
  <2>3. Inv'
    BY <1>1, <1>4, <2>1, <2>2, WarsEndKeeps DEF Resign
  <2> QED BY <1>1, <1>4, <2>3 DEF Resign, IInv, StageType
<1>5. ASSUME NEW p \in Humans, ExpressEmoji(p)
      PROVE  IInv'
  <2>1. BladeType'
    <3>1. 0 \in 0..Larger(BotBlade, HumanBlade)
      BY Ticks DEF Larger
    <3>2. blade' \in [Players -> 0..Larger(BotBlade, HumanBlade)]
      BY <1>1, <1>5, <3>1 DEF ExpressEmoji, Inv, BladeType
    <3>3. pinned' \in [Players -> BOOLEAN]
      BY <1>1, <1>5 DEF ExpressEmoji, Inv, BladeType
    <3> QED BY <1>1, <1>5, <3>2, <3>3 DEF ExpressEmoji, Inv, BladeType
  <2> QED BY <1>1, <1>5, <2>1 DEF ExpressEmoji, pactVars, askVars, warVars, IInv, Inv,
          PactType, AskType, WarType, StageType, AlliesAgree, NotOneself, OneDirection,
          RequestsRenew, AlliesAtPeace
<1>6. ASSUME NEW p \in Players, NEW q \in Players, AttackEnds(p, q)
      PROVE  IInv'
  <2>1. Inv'
    BY <1>1, <1>6, WarsEndKeeps DEF AttackEnds, Inv, WarType
  <2> QED BY <1>1, <1>6, <2>1 DEF AttackEnds, IInv, StageType
<1>7. ASSUME NEW p \in Players, Eliminate(p)
      PROVE  IInv'
  <2>1. fate' \in [Players -> {"alive", "resigned", "eliminated"}]
    BY <1>1, <1>7 DEF Eliminate, Inv, WarType
  <2>2. wars' = wars \ {} /\ ashore' = ashore \ {}
    BY <1>7 DEF Eliminate, warVars
  <2>3. Inv'
    BY <1>1, <1>7, <2>1, <2>2, WarsEndKeeps DEF Eliminate
  <2> QED BY <1>1, <1>7, <2>3 DEF Eliminate, IInv, StageType
<1>8. ASSUME NEW p \in Players, NEW q \in Players, Land(p, q)
      PROVE  IInv'
  <2>1. UNCHANGED <<alliances, timers, requests, cooldown, betrayed, blade, pinned,
                    fate, stage, decisions>>
    BY <1>8 DEF Land, pactVars, askVars, bladeVars
  <2>2. WarType' /\ AlliesAtPeace'
    BY <1>1, <1>8, <2>1 DEF Land, Inv, WarType, AlliesAtPeace
  <2> QED BY <1>1, <2>1, <2>2 DEF IInv, Inv, PactType, AskType, BladeType, StageType,
          AlliesAgree, NotOneself, OneDirection, RequestsRenew
<1>9. CASE UNCHANGED vars
  BY <1>1, <1>9 DEF vars, IInv, Inv, PactType, AskType, BladeType, WarType, StageType,
     AlliesAgree, NotOneself, OneDirection, RequestsRenew, AlliesAtPeace
<1> QED BY <1>2, <1>3, <1>4, <1>5, <1>6, <1>7, <1>8, <1>9, ThinkKeeps, DecideKeeps,
        EndTickKeeps DEF Next

LEMMA Invariance == Spec => []IInv
BY InitInv, NextInv, PTL DEF Spec

\* Every variable keeps its type.
THEOREM TypeCorrect == Spec => []TypeOK
<1>1. IInv => TypeOK
  BY TypeParts DEF IInv, Inv
<1> QED BY <1>1, Invariance, PTL

\* Both sides of an alliance always see it alike, timers included.
THEOREM AlliesAgreeCorrect == Spec => []AlliesAgree
<1>1. IInv => AlliesAgree
  BY DEF IInv, Inv
<1> QED BY <1>1, Invariance, PTL

\* No two players ever wait for each other's answer.
THEOREM OneDirectionCorrect == Spec => []OneDirection
<1>1. IInv => OneDirection
  BY DEF IInv, Inv
<1> QED BY <1>1, Invariance, PTL

\* A request between allies is always one for renewal.
THEOREM RequestsRenewCorrect == Spec => []RequestsRenew
<1>1. IInv => RequestsRenew
  BY DEF IInv, Inv
<1> QED BY <1>1, Invariance, PTL

\* Requests fit the alliances and each other.
THEOREM RequestsFitCorrect == Spec => []RequestsFit
<1>1. IInv => RequestsFit
  BY DEF IInv, Inv, RequestsFit
<1> QED BY <1>1, Invariance, PTL

\* Allies never fight but where a fleet has landed.
THEOREM AlliesAtPeaceCorrect == Spec => []AlliesAtPeace
<1>1. IInv => AlliesAtPeace
  BY DEF IInv, Inv
<1> QED BY <1>1, Invariance, PTL

--------------------------------------------------------------------------------
(* Consent: what makes a timer longer. *)

\* The answer to a request, and nothing else, makes the timer of a pair longer.
Consented(a, b) ==
    timers'[a][b] > timers[a][b]
      => \/ requests[a][b] > 0 /\ requests'[a][b] = 0
         \/ requests[b][a] > 0 /\ requests'[b][a] = 0

LEMMA AllyConsented ==
    ASSUME Inv, NEW p \in Players, NEW q \in Players, p # q, Ally(p, q),
           requests[q][p] > 0, requests'[q][p] = 0,
           NEW a \in Players, NEW b \in Players
    PROVE  Consented(a, b)
<1>1. timers'[a][b] = IF <<a, b>> \in Between(p, q) THEN DurationTicks ELSE timers[a][b]
  BY AllyPoints DEF Inv
<1>2. timers[a][b] \in Nat
  BY Ticks DEF Inv, PactType
<1>3. CASE <<a, b>> \in Between(p, q)
  BY <1>3 DEF Between, Consented
<1>4. CASE <<a, b>> \notin Between(p, q)
  BY <1>1, <1>2, <1>4 DEF Consented
<1> QED BY <1>3, <1>4

LEMMA PartConsented ==
    ASSUME Inv, NEW p \in Players, NEW q \in Players,
           Part(p, q) \/ UNCHANGED pactVars,
           NEW a \in Players, NEW b \in Players
    PROVE  Consented(a, b)
<1>1. timers[a][b] \in Nat
  BY Ticks DEF Inv, PactType
<1>2. timers'[a][b] = timers[a][b] \/ timers'[a][b] = 0
  BY PartPoints DEF Inv, pactVars
<1> QED BY <1>1, <1>2 DEF Consented

LEMMA IntentConsented ==
    ASSUME Inv, NEW p \in Players, NEW q \in Players,
           \/ Propose(p, q) \/ Accept(p, q) \/ Reject(p, q)
           \/ Break(p, q) \/ Attack(p, q) \/ LaunchFleet(p, q),
           NEW a \in Players, NEW b \in Players
    PROVE  Consented(a, b)
<1>1. requests \in [Players -> [Players -> 0..RequestTicks + 1]]
  BY DEF Inv, AskType
<1>2. CASE Propose(p, q)
  <2>1. CASE p # q /\ Answered(p, q)
    <3>1. requests[q][p] > 0 /\ requests'[q][p] = 0 /\ Ally(p, q)
      BY <1>1, <2>1 DEF Answered
    <3> QED BY <2>1, <3>1, AllyConsented
  <2>2. CASE UNCHANGED pactVars
    BY <2>2, PartConsented
  <2> QED BY <1>2, <2>1, <2>2 DEF Propose, Asked
<1>3. CASE Accept(p, q)
  <2>1. CASE requests[q][p] > 0
    <3>1. p # q
      BY <2>1 DEF Inv, OneDirection
    <3>2. requests'[q][p] = 0 /\ Ally(p, q)
      BY <1>1, <1>3, <2>1, <3>1 DEF Accept
    <3> QED BY <2>1, <3>1, <3>2, AllyConsented
  <2>2. CASE UNCHANGED pactVars
    BY <2>2, PartConsented
  <2> QED BY <1>3, <2>1, <2>2 DEF Accept
<1>4. CASE Reject(p, q)
  BY <1>4, PartConsented DEF Reject
<1>5. CASE Break(p, q)
  BY <1>5, PartConsented DEF Break
<1>6. CASE Attack(p, q)
  BY <1>6, PartConsented DEF Attack, Severed
<1>7. CASE LaunchFleet(p, q)
  BY <1>7, PartConsented DEF LaunchFleet, Severed
<1> QED BY <1>2, <1>3, <1>4, <1>5, <1>6, <1>7

LEMMA StepConsented ==
    ASSUME IInv, [Next]_vars, NEW a \in Players, NEW b \in Players
    PROVE  Consented(a, b)
<1>1. Inv /\ Humans \subseteq Players
  BY DiplomacyAssumption DEF IInv
<1>2. timers[a][b] \in 0..DurationTicks
  BY <1>1 DEF Inv, PactType
<1>3. ASSUME NEW p \in Humans, NEW q \in Players, HumanIntent(p, q)
      PROVE  Consented(a, b)
  BY <1>1, <1>3, IntentConsented DEF HumanIntent
<1>4. ASSUME NEW d \in decisions, Decide(d)
      PROVE  Consented(a, b)
  <2>1. d.bot \in Players /\ d.target \in Players
    BY DiplomacyAssumption DEF IInv, StageType, Decisions
  <2> QED BY <1>1, <1>4, <2>1, IntentConsented DEF Decide
<1>5. CASE EndTick
  <2>1. timers'[a][b] = IF Over(a, b) THEN 0 ELSE Left(timers[a][b])
    BY <1>5 DEF EndTick
  <2> QED BY <1>2, <2>1, Ticks DEF Left, Consented
<1>6. CASE timers' = timers
  BY <1>2, <1>6, Ticks DEF Consented
<1>7. CASE UNCHANGED vars
  BY <1>6, <1>7 DEF vars
<1>8. \/ \E p \in Humans : Resign(p)
      \/ \E p \in Humans : ExpressEmoji(p)
      \/ \E p \in Humans, q \in Players : CancelAttack(p, q)
      \/ Think
      \/ \E p \in Players : Eliminate(p)
      \/ \E p, q \in Players : AttackEnds(p, q) \/ Land(p, q)
      => timers' = timers
  BY DEF Resign, ExpressEmoji, CancelAttack, Think, Eliminate, AttackEnds, Land, pactVars
<1> QED BY <1>3, <1>4, <1>5, <1>6, <1>7, <1>8 DEF Next

\* Every alliance, and every renewal, uses up a request of one to the other.
THEOREM ConsentCorrect == Spec => Consent
<1>1. IInv /\ [Next]_vars
        => [\A p, q \in Players :
               timers'[p][q] > timers[p][q]
                 => \/ requests[p][q] > 0 /\ requests'[p][q] = 0
                    \/ requests[q][p] > 0 /\ requests'[q][p] = 0]_vars
  BY StepConsented DEF Consented
<1> QED BY <1>1, Invariance, PTL DEF Spec, Consent
================================================================================
