-------------------------------- MODULE MCEngine --------------------------------
(* The engine on small instances, its diplomacy and its cities, and the session  *)
(* of the client that runs it, which share no state.  A behaviour moves one of   *)
(* the three, chosen at the start; the others stay as they are, so that the      *)
(* states are the sum of theirs, not the product.                                *)
EXTENDS Diplomacy, Cities, ClientSession

VARIABLE moving

\* A nuke on a tile reaches that tile only.
Each == [t \in Tiles |-> {t}]

EngineInit ==
    /\ moving \in {"diplomacy", "cities", "session"}
    /\ Init /\ CitiesInit /\ SessionInit
    \* The land to begin with is a choice: only the cities' behaviours make it.
    /\ moving # "cities" => \A t \in Tiles : land[t] = Nobody

EngineNext ==
    /\ UNCHANGED moving
    /\ \/ moving = "diplomacy" /\ Next /\ UNCHANGED <<cityVars, sessionVars>>
       \/ moving = "cities" /\ CitiesNext /\ UNCHANGED <<vars, sessionVars>>
       \/ moving = "session" /\ SessionNext /\ UNCHANGED <<vars, cityVars>>

\* Only the session has something that must happen.
EngineSpec ==
    /\ EngineInit /\ [][EngineNext]_<<moving, vars, cityVars, sessionVars>>
    /\ moving = "session" => Running /\ Reachable

\* Every variable of the three parts has its type.
EngineTypeOK == TypeOK /\ CitiesTypeOK /\ SessionTypeOK

=================================================================================
