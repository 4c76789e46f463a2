------------------------------- MODULE MCServices -------------------------------
(* The services around a match on small instances: the account store, the        *)
(* finalization of matches, the handoff to the relay's registry and the relay's  *)
(* bridge, which share no state.  A behaviour moves one of the four, chosen at   *)
(* the start; the others stay as they are, so that the states are the sum of     *)
(* theirs, not the product.  The account moves in one of four behaviours, by    *)
(* what is asked of it.                                                          *)
EXTENDS AccountStore, MatchFinalize, RelayRegistry, Bridge, TLC

VARIABLE moving

\* One gem for each event's product and for each item.
OneEach  == [e \in Grants \cup Refunds |-> 1]
OnePrice == [i \in Skins \cup Leaders |-> 1]

\* Two matches and two games that two runs of the server number alike.
Again  == [m \in Matches |-> 1]
Reused == [g \in Games |-> 1]

\* Writes of each connection, and units from each peer.
Written == <<2, 0>>
Sent    == <<2, 0>>

\* Requests and handlers are alike.
Alike == Permutations(Requests) \cup Permutations(Handlers)

\* What is asked of the account: to buy, to save a profile besides, to book events
\* and matches, to spend what matches and the tutorial bring.
Requested ==
    [shop    |-> {"unlock", "equip", "grant", "mint", "delete"},
     saving  |-> {"unlock", "grant", "mint", "delete", "save"},
     ledger  |-> {"grant", "revoke", "outcome", "save"},
     rewards |-> {"unlock", "outcome", "tutorial", "mint", "save"}]

ServicesInit ==
    /\ moving \in DOMAIN Requested \cup {"finalize", "registry", "bridge"}
    /\ AccountInit /\ FinalizeInit /\ RegistryInit /\ BridgeInit
    \* The cursor to begin with is a choice: only the registry's behaviours make it.
    /\ moving # "registry" => cursor = 1

ServicesNext ==
    /\ UNCHANGED moving
    /\ \/ /\ moving \in DOMAIN Requested /\ AccountNext
          /\ \A r \in Requests :
                 slot'[r].pc \notin {"idle", "mirror"} => slot'[r].op.kind \in Requested[moving]
          /\ UNCHANGED <<finalizeVars, registryVars, bridgeVars>>
       \/ /\ moving = "finalize" /\ FinalizeNext
          /\ UNCHANGED <<accountVars, registryVars, bridgeVars>>
       \/ /\ moving = "registry" /\ RegistryNext
          /\ UNCHANGED <<accountVars, finalizeVars, bridgeVars>>
       \/ /\ moving = "bridge" /\ BridgeNext
          /\ UNCHANGED <<accountVars, finalizeVars, registryVars>>

ServicesSpec ==
    ServicesInit /\ [][ServicesNext]_<<moving, accountVars, finalizeVars, registryVars, bridgeVars>>

\* Every variable of the four services has its type.
ServicesTypeOK == AccountTypeOK /\ FinalizeTypeOK /\ RegistryTypeOK /\ BridgeTypeOK

=================================================================================
