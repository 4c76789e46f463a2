-------------------------------- MODULE Cities ---------------------------------
(* Land, cities and what the engine derives from them (sow-core).  The map      *)
(* stores an owner per tile; a city is stored apart, with an owner of its own   *)
(* that follows the tile's once per tick.  Four things are derived and kept:    *)
(* the aggregates income is paid from (with a dirty flag), the `cities` counter *)
(* of each player, the sea lanes between ports (with a dirty flag and a         *)
(* calculation spread over several ticks) and `alive`.  A tick takes orders and *)
(* income, lets the AI think, builds, strikes, fights, hands cities over and    *)
(* lands fleets, in this order.                                                 *)
(* Amounts of gold and troops, distances and durations are abstracted: what an  *)
(* order can afford, where a boat gets through and when a timer runs out are    *)
(* choices.  All ports lie on one sea and near enough to be joined.             *)
EXTENDS Integers, FiniteSets, Functions

CONSTANTS
    Owners,        \* the players of the match
    People,        \* the players whose intents clients send
    Nations,       \* the players of type Nation, which the engine thinks for
    Tribes,        \* the players of type Bot: likewise, and they are given cities
    Beyond,        \* the players whose id is greater than the number of players
    Tiles,         \* land tiles on which a city may stand
    Nobody,        \* the owner of neutral land
    MaxCities,     \* bound: cities ever built
    MaxLevel,      \* bound: level of a city
    NeededLand,    \* tiles a tribe needs before it is given a city
    InnerRadius,         \* the tiles in the inner radius of a nuke on a tile
    NoCity, NoCalc

ASSUME CitiesAssumption ==
    /\ People \cup Nations \cup Tribes \subseteq Owners
    /\ (People \cup Nations) \cap Tribes = {} /\ Beyond \subseteq Owners
    /\ IsFiniteSet(Owners) /\ Nobody \notin Owners
    /\ MaxCities \in Nat \ {0} /\ MaxLevel \in Nat \ {0} /\ NeededLand \in Nat \ {0}
    /\ InnerRadius \in [Tiles -> SUBSET Tiles]

CityIds == 1 .. MaxCities

City == [owner : Owners, tile : Tiles, level : 1 .. MaxLevel, active : 0 .. MaxLevel,
         port : BOOLEAN]

(* A calculation of the sea lanes: the ports still to connect, what it found.   *)
Calc == [left : SUBSET CityIds, found : SUBSET SUBSET CityIds]

(* The values that stand for nothing are no city and no calculation.            *)
ASSUME NothingAssumption == NoCity \notin City /\ NoCalc \notin Calc

VARIABLES
    step,       \* the step of the tick
    land,        \* owner of each tile (map.owner_id)
    living,      \* the players that are alive
    city,        \* the cities by id: owner, tile, level, active level, port
    nextId,      \* next_building_id
    counter,     \* Player::cities of the tribes, where alone it is read
    aggs, aggsDirty,     \* building_aggregates: levels paid for, per player
    skipped,     \* history: the cities the last aggregation passed over
    lanes, lanesDirty,   \* published sea lanes, as pairs of city ids
    calc,        \* sea_lane_calc: ports still to connect and lanes found so far
    sailors,     \* the players with a transport fleet at sea
    flight       \* the tiles nukes are flying to

landVars == <<land, living, sailors>>
laneVars == <<lanes, lanesDirty, calc>>
cityVars == <<step, landVars, city, nextId, counter, aggs, skipped, aggsDirty, laneVars, flight>>

--------------------------------------------------------------------------------
Domain(p) == {t \in Tiles : land[t] = p}
Standing == {i \in CityIds : city[i] # NoCity}
Holds(p) == {i \in Standing : city[i].owner = p}

(* under_construction: some level that was paid for is not finished.            *)
Busy(i) == city[i].active < city[i].level

(* aggregate_buildings_per_player: the finished levels of a player's cities.    *)
Active == [i \in Standing |-> city[i].active]
Levels(p) == SumFunctionOnSet(Active, Holds(p))

Ports == {i \in Standing : city[i].port}
Pairs(S) == {{i, j} : i, j \in S} \ {{i} : i \in S}
ReadyPorts == {i \in Ports : ~Busy(i)}

(* One turn of the calculation: connect the next port with those after it, or,  *)
(* when none is left, publish the lanes.                                        *)
Connect(c, published) ==
    IF c.left = {}
    THEN [calc |-> NoCalc, lanes |-> c.found]
    ELSE LET i == CHOOSE i \in c.left : \A j \in c.left : i <= j
         IN  [calc |-> [left |-> c.left \ {i},
                        found |-> c.found \cup {{i, j} : j \in c.left \ {i}}],
              lanes |-> published]

(* update_sea_lanes: restart when dirty, then take one turn.                    *)
UpdateSeaLanes(dirty, c, published) ==
    CASE dirty /\ Cardinality(ReadyPorts) < 2 -> [calc |-> NoCalc, lanes |-> {}]
      [] dirty /\ Cardinality(ReadyPorts) >= 2 ->
            Connect([left |-> ReadyPorts, found |-> {}], published)
      [] ~dirty /\ c # NoCalc -> Connect(c, published)
      [] ~dirty /\ c = NoCalc -> [calc |-> NoCalc, lanes |-> published]

CitiesInit ==
    /\ step = "orders"
    /\ land \in [Tiles -> Owners \cup {Nobody}]
    /\ living = Owners
    /\ city = [i \in CityIds |-> NoCity] /\ nextId = 1
    /\ counter = [p \in Tribes |-> 0]
    /\ aggs = [p \in Owners |-> 0] /\ skipped = {} /\ aggsDirty = TRUE
    /\ lanes = {} /\ lanesDirty = TRUE /\ calc = NoCalc
    /\ sailors = {} /\ flight = {}

--------------------------------------------------------------------------------
(* The intents of clients are applied before the tick, those the engine's AI     *)
(* decides on in its think step.                                               *)
Acts(p) ==
    /\ p \in living
    /\ \/ step = "orders" /\ p \in People
       \/ step = "think" /\ p \in Nations \cup Tribes

(* add_building with the next id.                                               *)
AddCity(p, t, active) ==
    /\ nextId \in CityIds
    /\ nextId' = nextId + 1
    /\ city' = [city EXCEPT ![nextId] =
            [owner |-> p, tile |-> t, level |-> 1, active |-> active, port |-> FALSE]]

(* BuildStructure: stack a level onto the player's own city there (a person even *)
(* onto one that is busy), or found a new one on the player's own land.         *)
Stack(p, i) ==
    /\ Acts(p)
    /\ step = "orders" \/ (i \in Standing /\ ~Busy(i))
    /\ i \in Holds(p) /\ city[i].level < MaxLevel
    /\ city' = [city EXCEPT ![i].level = @ + 1]
    /\ aggsDirty' = TRUE
    /\ UNCHANGED <<step, landVars, counter, aggs, skipped, laneVars, flight, nextId>>

Found(p, t) ==
    /\ Acts(p)
    /\ land[t] = p /\ \A i \in Standing : city[i].tile # t
    /\ AddCity(p, t, 0)
    /\ aggsDirty' = TRUE
    /\ UNCHANGED <<step, landVars, counter, aggs, skipped, laneVars, flight>>

(* UpgradeCityModule for the port, which only clients send: in a city that is   *)
(* not busy.                                                                    *)
AddPort(p, i) ==
    /\ Acts(p) /\ step = "orders"
    /\ i \in Holds(p) /\ ~Busy(i) /\ ~city[i].port
    /\ city' = [city EXCEPT ![i].port = TRUE]
    /\ aggsDirty' = TRUE /\ lanesDirty' = TRUE
    /\ UNCHANGED <<step, landVars, counter, aggs, skipped, lanes, calc, flight, nextId>>

(* LaunchNuke: from a city of the player that is not busy; tribes have none.    *)
LaunchNuke(p, t) ==
    /\ Acts(p) /\ p \notin Tribes
    /\ \E i \in Holds(p) : ~Busy(i)
    /\ flight' = flight \cup {t}
    /\ UNCHANGED <<step, landVars, city, counter, aggs, skipped, aggsDirty, laneVars, nextId>>

(* LaunchFleet.  A nation sends a fleet only when it has a ready port; the fleet *)
(* of a client's intent needs none.                                             *)
Sail(p) ==
    /\ Acts(p) /\ p \notin Tribes
    /\ Domain(p) # {}
    /\ step = "orders" \/ Holds(p) \cap ReadyPorts # {}
    /\ sailors' = sailors \cup {p}
    /\ UNCHANGED <<step, land, living, city, counter, aggs, skipped, aggsDirty,
                   laneVars, flight, nextId>>

(* kill_player: the land becomes neutral, the cities keep their owner.          *)
GiveUp(p) ==
    /\ Acts(p) /\ step = "orders"
    /\ living' = living \ {p}
    /\ land' = [t \in Tiles |-> IF land[t] = p THEN Nobody ELSE land[t]]
    /\ sailors' = sailors \ {p}
    /\ UNCHANGED <<step, city, counter, aggs, skipped, aggsDirty, laneVars, flight, nextId>>

--------------------------------------------------------------------------------
(* The tribes that are due a city: `cities == 0`, land enough and the player's  *)
(* own tick.                                                                    *)
Cityless == {p \in Tribes \cap living : counter[p] = 0 /\ Cardinality(Domain(p)) >= NeededLand}

(* aggregate_buildings_per_player, given a highest id: only the cities of the   *)
(* players in S are looked at.                                                  *)
Aggregate(S) ==
    /\ aggs' = [p \in Owners |-> IF p \in S THEN Levels(p) ELSE 0]
    /\ skipped' = {i \in Standing : city[i].owner \notin S}

(* A tick starts: a running calculation takes a turn, the aggregates and lanes  *)
(* that are dirty are brought up to date, the landless die, and a tribe that is *)
(* due may be given a finished city (where there is room for one).              *)
Income ==
    /\ step = "orders"
    /\ step' = "plan"
    /\ LET running == calc # NoCalc
           first == IF running THEN UpdateSeaLanes(lanesDirty, calc, lanes)
                               ELSE [calc |-> calc, lanes |-> lanes]
           stale == lanesDirty /\ ~running
           second == IF stale THEN UpdateSeaLanes(TRUE, first.calc, first.lanes) ELSE first
       IN  calc' = second.calc /\ lanes' = second.lanes
    /\ IF aggsDirty THEN Aggregate(Owners) ELSE UNCHANGED <<aggs, skipped>>
    /\ living' = {p \in living : Domain(p) # {}}
    /\ \/ UNCHANGED <<city, nextId, counter>> /\ aggsDirty' = FALSE /\ lanesDirty' = FALSE
       \/ \E p \in Cityless, t \in Tiles :
            /\ land[t] = p /\ \A i \in Standing : city[i].tile # t
            /\ AddCity(p, t, 1)
            /\ counter' = [counter EXCEPT ![p] = @ + 1]
            /\ aggsDirty' = TRUE /\ lanesDirty' = TRUE
    /\ UNCHANGED <<land, sailors, flight>>

(* execute_ai_think begins.  If someone may build, the aggregates that are dirty *)
(* are brought up to date for everyone; else a nation that considers a nuke does *)
(* so, with the number of players for the highest id: whoever has a greater one  *)
(* is passed over, and the mark is gone.                                         *)
Plan ==
    /\ step = "plan" /\ step' = "think"
    /\ \/ UNCHANGED <<aggs, skipped, aggsDirty>>
       \/ /\ aggsDirty /\ aggsDirty' = FALSE
          /\ \/ (Nations \cup Tribes) \cap living # {} /\ Aggregate(Owners)
             \/ Nations \cap living # {} /\ Aggregate(Owners \ Beyond)
    /\ UNCHANGED <<landVars, city, counter, laneVars, flight, nextId>>

(* Mutant: a finished city marks nothing.                                       *)
ConstructUnmarked(S) ==
    /\ step = "think" /\ step' = "strike"
    /\ S \subseteq {i \in Standing : Busy(i)}
    /\ city' = [i \in CityIds |-> IF i \in S THEN [city[i] EXCEPT !.active = @ + 1] ELSE city[i]]
    /\ UNCHANGED <<landVars, counter, aggs, skipped, aggsDirty, laneVars, flight, nextId>>

(* execute_construction: the timers of all busy cities run; on a city stacked   *)
(* with several levels they become active one by one, and only the last one     *)
(* marks the aggregates and the lanes.                                          *)
Construct(S) ==
    /\ step = "think" /\ step' = "strike"
    /\ S \subseteq {i \in Standing : Busy(i)}
    /\ city' = [i \in CityIds |-> IF i \in S THEN [city[i] EXCEPT !.active = @ + 1] ELSE city[i]]
    /\ LET done == \E i \in S : city[i].active + 1 = city[i].level
       IN  aggsDirty' = (aggsDirty \/ done) /\ lanesDirty' = (lanesDirty \/ done)
    /\ UNCHANGED <<landVars, counter, aggs, skipped, lanes, calc, flight, nextId>>

(* execute_projectiles and execute_sam: some of the nukes arrive, some are shot *)
(* down.  An inner radius loses its owners and its cities; players left without *)
(* land are eliminated, their attacks and fleets go on.                         *)
Strike(arrived, shot) ==
    /\ step = "strike" /\ step' = "fight"
    /\ arrived \cup shot \subseteq flight /\ arrived \cap shot = {}
    /\ flight' = flight \ (arrived \cup shot)
    /\ LET hit == UNION {InnerRadius[t] : t \in arrived}
           left == [t \in Tiles |-> IF t \in hit THEN Nobody ELSE land[t]]
       IN  /\ land' = left
           /\ city' = [i \in CityIds |-> IF i \in Standing /\ city[i].tile \in hit
                                     THEN NoCity ELSE city[i]]
           /\ living' = IF arrived = {} THEN living
                        ELSE {p \in living : \E t \in Tiles : left[t] = p}
    /\ aggsDirty' = (aggsDirty \/ arrived # {})
    /\ lanesDirty' = (lanesDirty \/ arrived # {})
    /\ UNCHANGED <<counter, aggs, skipped, lanes, calc, sailors, nextId>>

(* execute_combat: an attack takes a tile next to its player's land, whether    *)
(* the player is alive or not; a victim left without land is eliminated.  Any   *)
(* player with land may have an attack under way: a living one by an intent, a  *)
(* dead one by the landing that gave it the land.                               *)
Conquer(p, t) ==
    /\ step = "fight"
    /\ Domain(p) # {} /\ land[t] # p
    /\ land' = [land EXCEPT ![t] = p]
    /\ living' = IF Domain(land[t]) = {t} THEN living \ {land[t]} ELSE living
    /\ UNCHANGED <<step, sailors, city, counter, aggs, skipped, aggsDirty, laneVars,
                   flight, nextId>>

(* The cities on land with another owner change hands, and with them the        *)
(* counters; neither dirty flag is set.                                         *)
Moved(i) == /\ i \in Standing
            /\ land[city[i].tile] \notin {Nobody, city[i].owner}

Taken(p) == {i \in CityIds : Moved(i) /\ land[city[i].tile] = p}
Losing(p) == {i \in Holds(p) : Moved(i)}

(* saturating_sub, then += 1, city by city in the order of their ids.           *)
Counted(p) ==
    LET change[i \in 0 .. MaxCities] ==
            IF i = 0 THEN counter[p]
            ELSE CASE i \in Losing(p) -> IF change[i - 1] = 0 THEN 0 ELSE change[i - 1] - 1
                   [] i \in Taken(p) -> change[i - 1] + 1
                   [] OTHER -> change[i - 1]
    IN  change[MaxCities]

Sync ==
    /\ step = "fight" /\ step' = "sea"
    /\ city' = [i \in CityIds |-> IF Moved(i) THEN [city[i] EXCEPT !.owner = land[city[i].tile]]
                                          ELSE city[i]]
    /\ counter' = [p \in Tribes |-> Counted(p)]
    /\ UNCHANGED <<landVars, aggs, skipped, aggsDirty, laneVars, flight, nextId>>

(* execute_fleets: a landing takes its tile for the fleet's player, whether     *)
(* alive or not, and becomes a ground attack; a fleet called back takes nothing. *)
Disembark(p, t) ==
    /\ step = "sea"
    /\ p \in sailors
    /\ sailors' = sailors \ {p}
    /\ land' \in {land, [land EXCEPT ![t] = p]}
    /\ UNCHANGED <<step, living, city, counter, aggs, skipped, aggsDirty, laneVars, flight, nextId>>

TickEnds ==
    /\ step = "sea" /\ step' = "orders"
    /\ UNCHANGED <<landVars, city, counter, aggs, skipped, aggsDirty, laneVars, flight, nextId>>

CitiesNext ==
    \/ \E p \in Owners, i \in CityIds : Stack(p, i) \/ AddPort(p, i)
    \/ \E p \in Owners, t \in Tiles :
        Found(p, t) \/ LaunchNuke(p, t) \/ Conquer(p, t) \/ Disembark(p, t)
    \/ \E p \in Owners : Sail(p) \/ GiveUp(p)
    \/ Income \/ Plan \/ Sync \/ TickEnds
    \/ \E S \in SUBSET CityIds : Construct(S)
    \/ \E arrived, shot \in SUBSET Tiles : Strike(arrived, shot)

CitiesSpec == CitiesInit /\ [][CitiesNext]_cityVars

--------------------------------------------------------------------------------
(* Every variable has its type, and no city is more active than it is high.     *)
CitiesTypeOK ==
    /\ step \in {"orders", "plan", "think", "strike", "fight", "sea"}
    /\ land \in [Tiles -> Owners \cup {Nobody}]
    /\ living \subseteq Owners
    /\ city \in [CityIds -> City \cup {NoCity}]
    /\ \A i \in Standing : city[i].active <= city[i].level
    /\ nextId \in 1 .. MaxCities + 1
    /\ counter \in [Tribes -> 0 .. MaxCities]
    /\ aggs \in [Owners -> 0 .. MaxCities * MaxLevel]
    /\ skipped \subseteq CityIds
    /\ aggsDirty \in BOOLEAN /\ lanesDirty \in BOOLEAN
    /\ lanes \subseteq SUBSET CityIds
    /\ calc \in Calc \cup {NoCalc}
    /\ sailors \subseteq Owners /\ flight \subseteq Tiles

(* The cities the last aggregation looked at, of those that stand.               *)
Looked == Standing \ skipped

(* Whenever the aggregates are not marked dirty they cover every finished city  *)
(* in full and nothing that does not stand, but for the cities the last         *)
(* aggregation passed over: every path that finishes, raises or destroys a city *)
(* marks them.  Those passed over stay uncounted until something else marks the *)
(* aggregates.  (They are compared in total, as a capture moves levels between  *)
(* players without a mark, and a city stacked with levels has active ones that  *)
(* are only counted once it is finished.)                                       *)
LevelsCounted ==
    ~aggsDirty =>
        LET total == SumFunctionOnSet(aggs, Owners)
        IN  /\ total <= SumFunctionOnSet(Active, Looked)
            /\ total >= SumFunctionOnSet(Active, {i \in Looked : ~Busy(i)})

(* Outside of a calculation and of the dirty state, the published lanes join    *)
(* standing ports only, and every two finished ports are joined: a port that is *)
(* built, upgraded or destroyed while a calculation runs does not leave a lane  *)
(* behind or go without one.                                                    *)
LanesJoinPorts ==
    ~lanesDirty /\ calc = NoCalc => Pairs(ReadyPorts) \subseteq lanes /\ lanes \subseteq Pairs(Ports)

(* Both together: what is derived from the cities is current unless it is       *)
(* marked dirty (execute_income, update_sea_lanes).                             *)
DerivedCurrent == LevelsCounted /\ LanesJoinPorts

================================================================================
