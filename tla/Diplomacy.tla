------------------------------- MODULE Diplomacy -------------------------------
(***************************************************************************)
(* Alliances in the lockstep engine (sow-core): requests, renewals,        *)
(* betrayal, expiry, and the wars they end or forbid.                      *)
(*                                                                         *)
(* A turn first applies the intents people sent, one by one, then ticks    *)
(* the engine: stale requests are pruned, every AI player decides from     *)
(* the same state, the decisions are applied in the order of their bots,   *)
(* combat and fleets are resolved, and the timers run down.                *)
(*                                                                         *)
(* Times are kept as ticks left, never as tick numbers.  Troops, tiles and *)
(* dice decide which of the choices below a bot takes; here it may take    *)
(* any.  The traitor flag only weighs in those choices and is left out, as *)
(* are teams, whose members can neither ask nor attack each other, and     *)
(* the end of the game.                                                    *)
(***************************************************************************)
EXTENDS Naturals

CONSTANTS
    Players,        \* player ids
    Humans,         \* player_type Human
    Bots,           \* players with a brain of their own (ai_tier)
    RequestTicks,   \* ALLIANCE_REQUEST_TTL_TICKS
    CooldownTicks,  \* ALLIANCE_REQUEST_COOLDOWN_TICKS
    RenewalTicks,   \* ALLIANCE_RENEWAL_WINDOW_TICKS
    BetrayalTicks,  \* BETRAYAL_COOLDOWN_TICKS
    BotBlade,       \* BOT_BETRAYAL_EMOJI_TICKS
    HumanBlade,     \* HUMAN_BETRAYAL_EMOJI_TICKS
    GraceTicks,     \* ALLY_GRACE_AFTER_FORM_TICKS
    DurationTicks   \* ALLIANCE_DURATION_TICKS

ASSUME DiplomacyAssumption ==
    /\ Players \subseteq Nat
    /\ Humans \subseteq Players
    /\ Bots \subseteq Players
    /\ RequestTicks \in Nat
    /\ CooldownTicks \in Nat \ {0}
    /\ BetrayalTicks \in Nat \ {0}
    /\ BotBlade \in Nat \ {0}
    /\ HumanBlade \in Nat \ {0}
    /\ DurationTicks \in Nat \ {0}
    /\ RenewalTicks \in 0..DurationTicks
    /\ GraceTicks \in 0..DurationTicks

VARIABLES
    alliances,  \* Player.alliances
    timers,     \* Player.alliance_timers: ticks left, 0 without an entry
    requests,   \* alliances_proposed: ticks left to the request of a pair, 0 without
    cooldown,   \* alliance_request_cooldown_until, of a pair
    betrayed,   \* alliance_betray_cooldown_until, read for bots alone
    blade,      \* ticks left to the dagger a player shows, 0 without
    pinned,     \* Player.emoji_pinned
    fate,       \* alive, resigned (kill_player) or eliminated
    wars,       \* pairs <<p, q>> with an attack of p on q that is not retreating
    ashore,     \* history: the wars begun by a landing
    stage,      \* intents: a turn is applied; tick: engine.tick runs
    decisions   \* the decisions of this tick that are still to be applied

pactVars == <<alliances, timers>>
askVars == <<requests, cooldown>>
bladeVars == <<betrayed, blade, pinned>>
warVars == <<wars, ashore>>
vars == <<alliances, timers, requests, cooldown, betrayed, blade, pinned,
          fate, wars, ashore, stage, decisions>>

Kinds == {"accept", "propose", "break", "attack", "launch"}

\* BotDecisionKind, and the order of the pushes within Build.
Rank == [accept |-> 0, propose |-> 1, break |-> 2, attack |-> 3, launch |-> 3]

Decisions == [bot : Bots, kind : Kinds, target : Players]

Larger(m, n) == IF m < n THEN n ELSE m
Left(n) == IF n = 0 THEN 0 ELSE n - 1
Nothing == [p \in Players |-> [q \in Players |-> 0]]

Init ==
    /\ alliances = [p \in Players |-> {}]
    /\ timers = Nothing
    /\ requests = Nothing
    /\ cooldown = Nothing
    /\ betrayed = [p \in Bots |-> 0]
    /\ blade = [p \in Players |-> 0]
    /\ pinned = [p \in Players |-> FALSE]
    /\ fate = [p \in Players |-> "alive"]
    /\ wars = {}
    /\ ashore = {}
    /\ stage = "intents"
    /\ decisions = {}

Alive(p) == fate[p] = "alive"
Between(p, q) == {<<p, q>>, <<q, p>>}

\* Mutant: a renewal may be asked for at any time.
RenewableAlways(p, q) == q \in alliances[p]

\* An alliance that may be prolonged: its last ticks, as p counts them.
Renewable(p, q) == q \in alliances[p] /\ timers[p][q] <= RenewalTicks

\* alliance_is_young
Young(p, q) == timers[p][q] > DurationTicks - GraceTicks

\* can_send_alliance_request
MayAsk(p, q) == requests[p][q] = 0 /\ cooldown[p][q] = 0

--------------------------------------------------------------------------------
(* What the intents do, whoever sends them. *)

\* Mutant: only the attack of the one who answers turns back.
WithdrawnAlone(p, q) ==
    /\ wars' = wars \ {<<p, q>>}
    /\ ashore' = ashore \ {<<p, q>>}

\* retreat_mutual_aggression: the attacks between the two turn back.
Withdrawn(p, q) ==
    /\ wars' = wars \ Between(p, q)
    /\ ashore' = ashore \ Between(p, q)

\* Both are allies for the full duration, and at peace.
Ally(p, q) ==
    /\ alliances' = [alliances EXCEPT ![p] = @ \union {q}, ![q] = @ \union {p}]
    /\ timers' = [timers EXCEPT ![p][q] = DurationTicks, ![q][p] = DurationTicks]
    /\ Withdrawn(p, q)

\* Mutant: the one who is left keeps the alliance.
PartAlone(p, q) ==
    /\ alliances' = [alliances EXCEPT ![p] = @ \ {q}]
    /\ timers' = [timers EXCEPT ![p][q] = 0]

\* Neither is an ally of the other any more.
Part(p, q) ==
    /\ alliances' = [alliances EXCEPT ![p] = @ \ {q}, ![q] = @ \ {p}]
    /\ timers' = [timers EXCEPT ![p][q] = 0, ![q][p] = 0]

\* A request to one who has asked already is an answer.
Answered(p, q) ==
    /\ requests[q][p] > 0
    /\ requests' = [requests EXCEPT ![q][p] = 0]
    /\ Ally(p, q)
    /\ UNCHANGED cooldown

\* Mutant: a request that lives a tick longer.
AskedLonger(p, q) ==
    /\ requests[q][p] = 0
    /\ requests' = IF MayAsk(p, q)
                   THEN [requests EXCEPT ![p][q] = RequestTicks + 2]
                   ELSE requests
    /\ UNCHANGED <<pactVars, warVars, cooldown>>

Asked(p, q) ==
    /\ requests[q][p] = 0
    /\ requests' = IF MayAsk(p, q)
                   THEN [requests EXCEPT ![p][q] = RequestTicks + 1]
                   ELSE requests
    /\ UNCHANGED <<pactVars, warVars, cooldown>>

\* Mutant: a request that crosses another is not taken for an answer.
ProposeBlindly(p, q) ==
    /\ UNCHANGED <<pactVars, bladeVars, cooldown, fate, warVars>>
    /\ IF p # q /\ Alive(p) /\ Alive(q) /\ MayAsk(p, q)
       THEN requests' = [requests EXCEPT ![p][q] = RequestTicks + 1]
       ELSE UNCHANGED requests

Propose(p, q) ==
    /\ UNCHANGED <<bladeVars, fate>>
    /\ IF /\ p # q
          /\ Alive(p) /\ Alive(q)
          /\ q \notin alliances[p] \/ Renewable(p, q)
       THEN Answered(p, q) \/ Asked(p, q)
       ELSE UNCHANGED <<pactVars, askVars, warVars>>

\* Mutant: an answer to a request that no longer stands.
AcceptAnyway(p, q) ==
    /\ UNCHANGED <<bladeVars, cooldown, fate>>
    /\ requests' = [requests EXCEPT ![q][p] = 0, ![p][q] = 0]
    /\ IF p # q THEN Ally(p, q) ELSE UNCHANGED <<pactVars, warVars>>

Accept(p, q) ==
    /\ UNCHANGED <<bladeVars, cooldown, fate>>
    /\ IF requests[q][p] > 0
       THEN /\ requests' = [requests EXCEPT ![q][p] = 0, ![p][q] = 0]
            /\ Ally(p, q)
       ELSE UNCHANGED <<pactVars, requests, warVars>>

Reject(p, q) ==
    /\ UNCHANGED <<pactVars, bladeVars, fate, warVars>>
    /\ IF requests[q][p] > 0
       THEN /\ requests' = [requests EXCEPT ![q][p] = 0]
            /\ cooldown' = [cooldown EXCEPT ![q][p] = CooldownTicks]
       ELSE UNCHANGED askVars

\* Breaking shows the dagger, whether or not there was an alliance to break.
Break(p, q) ==
    /\ Part(p, q)
    /\ betrayed' = [b \in Bots |-> IF b = p THEN BetrayalTicks ELSE betrayed[b]]
    /\ blade' = [blade EXCEPT ![p] = IF p \in Humans THEN HumanBlade ELSE BotBlade]
    /\ UNCHANGED <<askVars, pinned, fate, warVars>>

\* An attack on an ally who shows the dagger ends the alliance by itself; on
\* another ally it does nothing.
Refrains(p, q) == q \in alliances[p] /\ blade[q] = 0
Severed(p, q) ==
    IF q \in alliances[p] /\ blade[q] > 0 THEN Part(p, q) ELSE UNCHANGED pactVars

\* apply_attack_intent: the troops first meet those coming the other way,
\* then whatever is left opens the war, if there is a border.
Charged(p, q) ==
    \/ UNCHANGED warVars
    \/ /\ Alive(p)
       /\ \E met \in SUBSET ({<<q, p>>} \intersect wars),
             opened \in IF Alive(q) THEN {{}, {<<p, q>>}} ELSE {{}} :
             /\ wars' = (wars \ met) \union opened
             /\ ashore' = ashore \ met

Attack(p, q) ==
    /\ UNCHANGED <<askVars, bladeVars, fate>>
    /\ Severed(p, q)
    /\ IF Refrains(p, q) THEN UNCHANGED warVars ELSE Charged(p, q)

\* A fleet has no effect on players before it lands.
LaunchFleet(p, q) ==
    /\ UNCHANGED <<askVars, bladeVars, fate, warVars>>
    /\ Severed(p, q)

--------------------------------------------------------------------------------
(* The intents of people, each of which comes through the relay and may be    *)
(* late: the client that sent it saw an earlier state.                        *)

HumanIntent(p, q) ==
    /\ stage = "intents"
    /\ p # q
    /\ \/ Propose(p, q)
       \/ Accept(p, q)
       \/ Reject(p, q)
       \/ Break(p, q)
       \/ Attack(p, q)
       \/ LaunchFleet(p, q)
    /\ UNCHANGED <<stage, decisions>>

CancelAttack(p, q) ==
    /\ stage = "intents"
    /\ <<p, q>> \in wars
    /\ wars' = wars \ {<<p, q>>}
    /\ ashore' = ashore \ {<<p, q>>}
    /\ UNCHANGED <<pactVars, askVars, bladeVars, fate, stage, decisions>>

\* kill_player: the land and the armies are gone, the diplomacy stays.
Resign(p) ==
    /\ stage = "intents"
    /\ fate' = [fate EXCEPT ![p] = "resigned"]
    /\ wars' = {w \in wars : w[1] # p}
    /\ ashore' = {w \in ashore : w[1] # p}
    /\ UNCHANGED <<pactVars, askVars, bladeVars, stage, decisions>>

\* Any other emoji takes the dagger's place.
ExpressEmoji(p) ==
    /\ stage = "intents"
    /\ blade' = [blade EXCEPT ![p] = 0]
    /\ \E pin \in BOOLEAN : pinned' = [pinned EXCEPT ![p] = pin]
    /\ UNCHANGED <<pactVars, askVars, betrayed, fate, warVars, stage, decisions>>

--------------------------------------------------------------------------------
(* The tick. *)

\* prune_alliance_diplomacy, at the tick that has just begun.
Prune ==
    /\ requests' = [p \in Players |-> [q \in Players |-> Left(requests[p][q])]]
    /\ cooldown' = [p \in Players |-> [q \in Players |->
                      IF requests[p][q] = 1 THEN CooldownTicks
                      ELSE Left(cooldown[p][q])]]
    /\ betrayed' = [b \in Bots |-> Left(betrayed[b])]

\* What a bot may decide, all of it from the state the pruning leaves.
Acceptable(b) == {q \in Players : requests'[q][b] > 0 /\ Alive(q)}
Askable(b) ==
    {q \in Players \ {b} :
        /\ Alive(q)
        /\ q \notin alliances[b] \/ Renewable(b, q)
        /\ requests'[b][q] = 0 /\ cooldown'[b][q] = 0}
Betrayable(b) ==
    {q \in alliances[b] : betrayed'[b] = 0 /\ Alive(q) /\ ~Young(b, q)}

Possible ==
    {d \in Decisions :
        /\ Alive(d.bot)
        /\ \/ d.kind = "accept" /\ d.target \in Acceptable(d.bot)
           \/ d.kind = "propose" /\ d.target \in Askable(d.bot)
           \/ d.kind = "break" /\ d.target \in Betrayable(d.bot)
           \/ d.kind \in {"attack", "launch"} /\ d.target # d.bot /\ Alive(d.target)}

\* Requests are accepted as they come; of the rest there is one of a kind, and
\* only an ally about to be betrayed is a target.
Sensible(plan) ==
    \A d \in plan :
        /\ \A e \in plan :
              d.bot = e.bot /\ d.kind = e.kind /\ d.kind # "accept" => d = e
        /\ d.kind \in {"attack", "launch"} /\ d.target \in alliances[d.bot]
              => [d EXCEPT !.kind = "break"] \in plan

\* execute_ai_think, up to its last loop.
Think ==
    /\ stage = "intents"
    /\ stage' = "tick"
    /\ Prune
    /\ \E plan \in SUBSET Possible : Sensible(plan) /\ decisions' = plan
    /\ UNCHANGED <<pactVars, blade, pinned, fate, warVars>>

\* No other decision comes before d: decisions.sort_by_key.
Foremost(d) ==
    \A e \in decisions :
        \/ d.bot < e.bot
        \/ d.bot = e.bot /\ Rank[d.kind] <= Rank[e.kind]

Decide(d) ==
    /\ stage = "tick"
    /\ Foremost(d)
    /\ decisions' = decisions \ {d}
    /\ \/ d.kind = "accept" /\ Accept(d.bot, d.target)
       \/ d.kind = "propose" /\ Propose(d.bot, d.target)
       \/ d.kind = "break" /\ Break(d.bot, d.target)
       \/ d.kind = "attack" /\ Attack(d.bot, d.target)
       \/ d.kind = "launch" /\ LaunchFleet(d.bot, d.target)
    /\ UNCHANGED stage

Resolving == stage = "tick" /\ decisions = {}

\* An attack is out of troops, or out of tiles to conquer.
AttackEnds(p, q) ==
    /\ Resolving
    /\ <<p, q>> \in wars
    /\ wars' = wars \ {<<p, q>>}
    /\ ashore' = ashore \ {<<p, q>>}
    /\ UNCHANGED <<pactVars, askVars, bladeVars, fate, stage, decisions>>

\* eliminate_player: the attacks and the fleets of the victim go on.
Eliminate(p) ==
    /\ Resolving
    /\ Alive(p)
    /\ fate' = [fate EXCEPT ![p] = "eliminated"]
    /\ UNCHANGED <<pactVars, askVars, bladeVars, warVars, stage, decisions>>

\* A fleet of p lands on a tile of q and attacks from there.  It need not have
\* been sent against q: the tile may have changed hands meanwhile.
Land(p, q) ==
    /\ Resolving
    /\ p # q
    /\ fate[p] # "resigned"
    /\ Alive(q)
    /\ wars' = wars \union {<<p, q>>}
    /\ ashore' = IF <<p, q>> \in wars THEN ashore ELSE ashore \union {<<p, q>>}
    /\ UNCHANGED <<pactVars, askVars, bladeVars, fate, stage, decisions>>

\* Alliances of p and q that run out: one entry at zero ends both.
Over(p, q) == timers[p][q] = 1 \/ timers[q][p] = 1

EndTick ==
    /\ Resolving
    /\ stage' = "intents"
    /\ alliances' = [p \in Players |-> {q \in alliances[p] : ~Over(p, q)}]
    /\ timers' = [p \in Players |-> [q \in Players |->
                    IF Over(p, q) THEN 0 ELSE Left(timers[p][q])]]
    /\ blade' = [p \in Players |-> IF pinned[p] THEN blade[p] ELSE Left(blade[p])]
    /\ UNCHANGED <<askVars, betrayed, pinned, fate, warVars, decisions>>

Next ==
    \/ \E p \in Humans :
          \/ Resign(p)
          \/ ExpressEmoji(p)
          \/ \E q \in Players : HumanIntent(p, q) \/ CancelAttack(p, q)
    \/ Think
    \/ \E d \in decisions : Decide(d)
    \/ \E p \in Players :
          \/ Eliminate(p)
          \/ \E q \in Players : AttackEnds(p, q) \/ Land(p, q)
    \/ EndTick

Spec == Init /\ [][Next]_vars

--------------------------------------------------------------------------------
(* Properties. *)

TypeOK ==
    /\ alliances \in [Players -> SUBSET Players]
    /\ timers \in [Players -> [Players -> 0..DurationTicks]]
    /\ requests \in [Players -> [Players -> 0..RequestTicks + 1]]
    /\ cooldown \in [Players -> [Players -> 0..CooldownTicks]]
    /\ betrayed \in [Bots -> 0..BetrayalTicks]
    /\ blade \in [Players -> 0..Larger(BotBlade, HumanBlade)]
    /\ pinned \in [Players -> BOOLEAN]
    /\ fate \in [Players -> {"alive", "resigned", "eliminated"}]
    /\ wars \subseteq Players \X Players
    /\ ashore \subseteq wars
    /\ stage \in {"intents", "tick"}
    /\ decisions \subseteq Decisions

\* Both sides of an alliance see it alike, with the same time left, whatever
\* mix of answers, renewals, betrayals, silent breaks and expiries made it
\* (apply.rs:291-450, tick.rs:152-186).
AlliesAgree ==
    \A p, q \in Players :
        /\ q \in alliances[p] <=> timers[p][q] > 0
        /\ timers[p][q] = timers[q][p]

\* No two players wait for each other: a request that crosses another is an
\* answer, in people's intents and in a batch of decisions taken from one state
\* (apply.rs:350-380).
OneDirection ==
    \A p, q \in Players : ~(requests[p][q] > 0 /\ requests[q][p] > 0)

\* A request between allies is for the renewal of an alliance that is about to
\* end: no request survives the alliance it asked for and then prolongs it
\* from the start (apply.rs:324-376).
RequestsRenew ==
    \A p, q \in Players :
        requests[p][q] > 0 /\ q \in alliances[p] => timers[p][q] <= RenewalTicks

\* The requests fit the alliances and each other.
RequestsFit == OneDirection /\ RequestsRenew

\* Allies fight each other only where a fleet, sent elsewhere or earlier, has
\* landed: peace ends the attacks, and orders against allies do nothing
\* (apply.rs:18-35, 106-141).
AlliesAtPeace ==
    \A p, q \in Players : <<p, q>> \in wars /\ q \in alliances[p] => <<p, q>> \in ashore

\* An alliance begins or is prolonged only by an answer to a request that was
\* still standing, which the answer uses up (apply.rs:350-411).
Consent ==
    [][\A p, q \in Players :
          timers'[p][q] > timers[p][q]
            => \/ requests[p][q] > 0 /\ requests'[p][q] = 0
               \/ requests[q][p] > 0 /\ requests'[q][p] = 0]_vars

\* No bot betrays an alliance that has just been made or renewed: "Fresh
\* alliances are protected from betrayal" (diplomacy.rs:21).
FreshIsProtected ==
    [][\A d \in decisions \ decisions' :
          d.kind = "break" => ~Young(d.bot, d.target)]_vars

================================================================================
