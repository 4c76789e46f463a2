----------------------------- MODULE ServicesProofs -----------------------------
(* Theorems about the services around a match, for any number of requests, games, *)
(* matches, calls and handlers, any catalogue and any events: RelayRegistry,      *)
(* MatchFinalize and AccountStore, and the four services together.                *)
EXTENDS MCServices, BridgeProofs

---------------------------------------------------------------------------------
(* RelayRegistry: the handoff.                                                    *)

\* A port is in 1..PortCount from the moment it is given.
Given(g) == portOf[g] \in PortRange

Ported ==
    /\ \A g \in Games : handoff[g] \notin {"later", "ready", "closed", "gone"} => Given(g)
    /\ \A c \in Calls : call[c] # "none" \/ hosted[c] # "no" => Given(c[1])

\* The lobby under an id has been hosted.
Listed == \A i \in Numbers : registry[i] # None => hosted[registry[i]] # "no"

RegistryInv == RegistryTypeOK /\ Ported /\ Listed /\ StartedWasHosted

LEMMA CallParts ==
    /\ \A c \in Calls : c[1] \in Games /\ c[2] \in 1..Asks /\ c = <<c[1], c[2]>>
    /\ \A g \in Games, n \in 1..Asks : <<g, n>> \in Calls /\ <<g, n>>[1] = g
    /\ \A g \in Games : Number[g] \in Numbers
    /\ PortCount \in Nat \ {0} /\ Asks \in Nat \ {0} /\ None \notin Calls
BY RegistryAssumption DEF Calls, Numbers

LEMMA CallPair ==
    ASSUME NEW c \in Calls
    PROVE  c[1] \in Games /\ c[2] \in 1..Asks /\ c = <<c[1], c[2]>>
BY CallParts

LEMMA RegistryInvInit == RegistryInit => RegistryInv
BY CallParts DEF RegistryInit, RegistryInv, RegistryTypeOK, Ported, Listed,
                 StartedWasHosted, PortRange

\* What a game's handoff goes on to after an attempt that did not succeed.
LEMMA AskAgainStep ==
    ASSUME RegistryInv, NEW g \in Games, AskAgain(g)
    PROVE  /\ handoff' \in [Games -> {"later", "ready", "recording", "calling", "called",
                                      "started", "closed", "gone"}]
           /\ reserved' \subseteq PortRange
           /\ handoff'[g] \in {"calling", "closed"}
           /\ \A f \in Games \ {g} : handoff'[f] = handoff[f]
BY DEF RegistryInv, RegistryTypeOK, AskAgain, CloseGame

LEMMA RegServer ==
    ASSUME RegistryInv, NEW g \in Games,
           Ready(g) \/ Allocate(g) \/ RecordMatch(g)
    PROVE  RegistryInv'
<1>1. CASE Ready(g)
  <2>1. RegistryTypeOK'
    BY <1>1, CallParts DEF Ready, RegistryInv, RegistryTypeOK, relayVars
  <2>2. Ported' /\ Listed' /\ StartedWasHosted'
    BY <1>1 DEF Ready, RegistryInv, RegistryTypeOK, Ported, Given, Listed, StartedWasHosted,
                relayVars
  <2> QED BY <2>1, <2>2 DEF RegistryInv
<1>2. CASE Allocate(g)
  <2>1. PICK p \in PortRange : /\ portOf' = [portOf EXCEPT ![g] = p]
                               /\ reserved' = reserved \cup {p}
                               /\ cursor' = (p % PortCount) + 1
    BY <1>2 DEF Allocate
  <2>2. (p % PortCount) + 1 \in PortRange
    BY CallParts DEF PortRange
  <2>3. PortRange \subseteq 0..PortCount
    BY CallParts DEF PortRange
  <2>4. RegistryTypeOK'
    BY <1>2, <2>1, <2>2, <2>3 DEF Allocate, RegistryInv, RegistryTypeOK, relayVars
  <2>5. Ported'
    BY <1>2, <2>1, CallParts DEF Allocate, RegistryInv, RegistryTypeOK, Ported, Given, relayVars
  <2>6. Listed' /\ StartedWasHosted'
    BY <1>2 DEF Allocate, RegistryInv, RegistryTypeOK, Listed, StartedWasHosted, relayVars
  <2> QED BY <2>4, <2>5, <2>6 DEF RegistryInv
<1>3. CASE RecordMatch(g)
  BY ZenonT(60), <1>3 DEF RecordMatch, CloseGame, RegistryInv, RegistryTypeOK, Ported, Given, Listed,
                 StartedWasHosted, relayVars
<1> QED BY <1>1, <1>2, <1>3

LEMMA RegAsk ==
    ASSUME RegistryInv, NEW g \in Games, AskRelay(g)
    PROVE  RegistryInv'
<1>1. asked[g] + 1 \in 1..Asks
  BY CallParts DEF AskRelay, RegistryInv, RegistryTypeOK
<1>2. asked' = [asked EXCEPT ![g] = asked[g] + 1] /\ asked'[g] = asked[g] + 1
  BY DEF AskRelay, RegistryInv, RegistryTypeOK
<1>3. /\ <<g, asked[g] + 1>> \in Calls /\ <<g, asked[g] + 1>>[1] = g
      /\ call' = [call EXCEPT ![<<g, asked[g] + 1>>] = "bind"]
  BY <1>1, <1>2, CallParts DEF AskRelay
<1>4. RegistryTypeOK'
  BY <1>1, <1>2, <1>3, CallParts DEF AskRelay, RegistryInv, RegistryTypeOK
<1>5. Ported'
  BY <1>3, CallParts DEF AskRelay, RegistryInv, RegistryTypeOK, Ported, Given
<1>6. Listed' /\ StartedWasHosted'
  BY DEF AskRelay, RegistryInv, RegistryTypeOK, Listed, StartedWasHosted
<1> QED BY <1>4, <1>5, <1>6 DEF RegistryInv

LEMMA RegBreak ==
    ASSUME RegistryInv, NEW g \in Games, BreakCall(g)
    PROVE  RegistryInv'
<1>1. /\ handoff' \in [Games -> {"later", "ready", "recording", "calling", "called",
                                 "started", "closed", "gone"}]
      /\ reserved' \subseteq PortRange
      /\ handoff'[g] \in {"calling", "closed"}
      /\ \A f \in Games \ {g} : handoff'[f] = handoff[f]
  BY AskAgainStep DEF BreakCall
<1>2. /\ call' \in [Calls -> {"none", "bind", "look", "spawn", "over"}]
      /\ \A c \in Calls : call'[c] # "none" => call[c] # "none"
  BY DEF BreakCall, RegistryInv, RegistryTypeOK
<1>3. RegistryTypeOK'
  BY <1>1, <1>2 DEF BreakCall, RegistryInv, RegistryTypeOK
<1>4. Ported'
  BY <1>1, <1>2 DEF BreakCall, RegistryInv, Ported, Given
<1>5. Listed' /\ StartedWasHosted'
  BY <1>1 DEF BreakCall, RegistryInv, RegistryTypeOK, Listed, StartedWasHosted
<1> QED BY <1>3, <1>4, <1>5 DEF RegistryInv

LEMMA RegRestartServer ==
    ASSUME RegistryInv, RestartServer
    PROVE  RegistryInv'
<1>1. 1 \in PortRange
  BY CallParts DEF PortRange
<1>2. RegistryTypeOK'
  BY <1>1 DEF RestartServer, RegistryInv, RegistryTypeOK, relayVars
<1>3. /\ UNCHANGED <<portOf, asked, call, hosted, registry, bound, mistaken>>
      /\ \A g \in Games : \/ handoff'[g] = handoff[g]
                           \/ handoff'[g] = "gone"
  BY DEF RestartServer, relayVars
<1>4. Ported' /\ Listed' /\ StartedWasHosted'
  BY <1>3 DEF RegistryInv, Ported, Given, Listed, StartedWasHosted
<1> QED BY <1>2, <1>4 DEF RegistryInv

\* The answer of a call changes the handoff of its own game only.
LEMMA RespondStep ==
    ASSUME RegistryInv, NEW c \in Calls, NEW ok, Respond(c, ok)
    PROVE  /\ call' \in [Calls -> {"none", "bind", "look", "spawn", "over"}]
           /\ handoff' \in [Games -> {"later", "ready", "recording", "calling", "called",
                                      "started", "closed", "gone"}]
           /\ reserved' \subseteq PortRange
           /\ \A d \in Calls : d # c => call'[d] = call[d]
           /\ \A f \in Games \ {c[1]} : handoff'[f] = handoff[f]
           /\ \/ handoff'[c[1]] = handoff[c[1]]
              \/ /\ handoff[c[1]] = "called"
                 /\ handoff'[c[1]] \in (IF ok THEN {"started"} ELSE {"calling", "closed"})
<1>1. c[1] \in Games
  BY CallPair
<1>2. /\ call' \in [Calls -> {"none", "bind", "look", "spawn", "over"}]
      /\ \A d \in Calls : d # c => call'[d] = call[d]
  BY DEF Respond, RegistryInv, RegistryTypeOK
<1>3. CASE handoff[c[1]] = "called" /\ ok
  BY <1>1, <1>2, <1>3 DEF Respond, RegistryInv, RegistryTypeOK, AskAgain, CloseGame
<1>4. CASE handoff[c[1]] = "called" /\ ~ok
  BY <1>1, <1>2, <1>4, AskAgainStep DEF Respond, RegistryInv, RegistryTypeOK
<1>5. CASE handoff[c[1]] # "called"
  BY <1>2, <1>5 DEF Respond, RegistryInv, RegistryTypeOK
<1> QED BY <1>3, <1>4, <1>5

LEMMA RegBind ==
    ASSUME RegistryInv, NEW c \in Calls, Bind(c)
    PROVE  RegistryInv'
<1>1. c[1] \in Games /\ Given(c[1]) /\ portOf[c[1]] \in PortRange
  BY CallPair DEF Bind, RegistryInv, Ported, Given
<1>2. CASE bound' = bound \cup {portOf[c[1]]} /\ call' = [call EXCEPT ![c] = "look"]
           /\ UNCHANGED <<handoff, reserved>>
  <2>1. RegistryTypeOK'
    BY <1>1, <1>2 DEF Bind, RegistryInv, RegistryTypeOK
  <2>2. Ported' /\ Listed' /\ StartedWasHosted'
    BY <1>1, <1>2 DEF Bind, RegistryInv, RegistryTypeOK, Ported, Given, Listed, StartedWasHosted
  <2> QED BY <2>1, <2>2 DEF RegistryInv
<1>3. CASE Respond(c, FALSE) /\ UNCHANGED bound
  <2>1. /\ call' \in [Calls -> {"none", "bind", "look", "spawn", "over"}]
        /\ handoff' \in [Games -> {"later", "ready", "recording", "calling", "called",
                                   "started", "closed", "gone"}]
        /\ reserved' \subseteq PortRange
        /\ \A d \in Calls : d # c => call'[d] = call[d]
        /\ \A f \in Games \ {c[1]} : handoff'[f] = handoff[f]
        /\ handoff'[c[1]] \in {handoff[c[1]], "calling", "closed"}
    BY <1>3, RespondStep
  <2>2. RegistryTypeOK'
    BY <1>3, <2>1 DEF Bind, RegistryInv, RegistryTypeOK
  <2>3. Ported'
    BY <1>1, <2>1 DEF Bind, RegistryInv, RegistryTypeOK, Ported, Given
  <2>4. Listed' /\ StartedWasHosted'
    BY <2>1 DEF Bind, RegistryInv, Listed, StartedWasHosted
  <2> QED BY <2>2, <2>3, <2>4 DEF RegistryInv
<1> QED BY <1>2, <1>3 DEF Bind

LEMMA RegLook ==
    ASSUME RegistryInv, NEW c \in Calls, Look(c)
    PROVE  RegistryInv'
<1> DEFINE other == registry[Number[c[1]]]
           same  == portOf[other[1]] = portOf[c[1]]
<1>1. c[1] \in Games /\ Given(c[1]) /\ Number[c[1]] \in Numbers
  BY CallPair, CallParts DEF Look, RegistryInv, Ported
<1>2. UNCHANGED <<portOf, cursor, numbered, asked, hosted, registry, bound>>
  BY DEF Look
<1>3. CASE other = None
  <2>1. /\ call' = [call EXCEPT ![c] = "spawn"]
        /\ UNCHANGED <<handoff, reserved, mistaken>>
    BY <1>3 DEF Look
  <2>2. RegistryTypeOK'
    BY <1>2, <2>1 DEF RegistryInv, RegistryTypeOK
  <2>3. Ported' /\ Listed' /\ StartedWasHosted'
    BY <1>1, <1>2, <2>1 DEF RegistryInv, RegistryTypeOK, Ported, Given, Listed, StartedWasHosted
  <2> QED BY <2>2, <2>3 DEF RegistryInv
<1>4. CASE other # None
  <2>1. /\ Respond(c, same)
        /\ mistaken' = IF same /\ other[1] # c[1] THEN mistaken \cup {c[1]} ELSE mistaken
    BY <1>4 DEF Look
  <2>2. other \in Calls /\ hosted[other] # "no"
    BY <1>1, <1>4 DEF RegistryInv, RegistryTypeOK, Listed
  <2>3. other = <<other[1], other[2]>> /\ other[2] \in 1..Asks
    BY <2>2, CallPair
  <2>4. /\ call' \in [Calls -> {"none", "bind", "look", "spawn", "over"}]
        /\ handoff' \in [Games -> {"later", "ready", "recording", "calling", "called",
                                   "started", "closed", "gone"}]
        /\ reserved' \subseteq PortRange
        /\ \A d \in Calls : d # c => call'[d] = call[d]
        /\ \A f \in Games \ {c[1]} : handoff'[f] = handoff[f]
        /\ \/ handoff'[c[1]] = handoff[c[1]]
           \/ /\ handoff[c[1]] = "called"
              /\ handoff'[c[1]] \in (IF same THEN {"started"} ELSE {"calling", "closed"})
    <3> HIDE DEF same
    <3> QED BY <2>1, RespondStep
  <2>5. mistaken \subseteq mistaken' /\ mistaken' \subseteq Games
    BY <1>1, <2>1 DEF RegistryInv, RegistryTypeOK
  <2>6. RegistryTypeOK'
    BY <1>2, <2>4, <2>5 DEF RegistryInv, RegistryTypeOK
  <2>7. Ported' /\ Listed'
    BY <1>1, <1>2, <2>4 DEF Look, RegistryInv, RegistryTypeOK, Ported, Given, Listed
  <2>8. ASSUME handoff'[c[1]] = "started", handoff[c[1]] # "started"
        PROVE  c[1] \in mistaken' \/ \E n \in 1..Asks : hosted[<<c[1], n>>] # "no"
    <3>1. same
      BY <2>4, <2>8
    <3>2. CASE other[1] # c[1]
      <4> HIDE DEF other, same
      <4> QED BY <2>1, <3>1, <3>2
    <3>3. CASE other[1] = c[1]
      <4> HIDE DEF other
      <4> QED BY <2>2, <2>3, <3>3
    <3> QED BY <3>2, <3>3
  <2>9. StartedWasHosted'
    <3> HIDE DEF other, same
    <3> QED BY <1>2, <2>4, <2>5, <2>8 DEF RegistryInv, StartedWasHosted
  <2> QED BY <2>6, <2>7, <2>9 DEF RegistryInv
<1> QED BY <1>3, <1>4

LEMMA RegSpawn ==
    ASSUME RegistryInv, NEW c \in Calls, Spawn(c)
    PROVE  RegistryInv'
<1>1. /\ c[1] \in Games /\ Given(c[1]) /\ Number[c[1]] \in Numbers
      /\ c[2] \in 1..Asks /\ c = <<c[1], c[2]>>
  BY CallPair, CallParts DEF Spawn, RegistryInv, Ported
<1>2. /\ call' \in [Calls -> {"none", "bind", "look", "spawn", "over"}]
      /\ handoff' \in [Games -> {"later", "ready", "recording", "calling", "called",
                                 "started", "closed", "gone"}]
      /\ reserved' \subseteq PortRange
      /\ \A d \in Calls : d # c => call'[d] = call[d]
      /\ \A f \in Games \ {c[1]} : handoff'[f] = handoff[f]
      /\ handoff'[c[1]] \in {handoff[c[1]], "started"}
  BY RespondStep DEF Spawn
<1>3. /\ registry' = [registry EXCEPT ![Number[c[1]]] = c]
      /\ hosted' = [hosted EXCEPT ![c] = "live"]
      /\ UNCHANGED <<portOf, cursor, numbered, asked, bound, mistaken>>
  BY DEF Spawn
<1>4. RegistryTypeOK'
  BY <1>1, <1>2, <1>3 DEF RegistryInv, RegistryTypeOK
<1>5. hosted'[c] = "live" /\ \A d \in Calls : hosted[d] # "no" => hosted'[d] # "no"
  BY <1>3 DEF RegistryInv, RegistryTypeOK
<1>6. Ported'
  BY <1>1, <1>2, <1>3 DEF RegistryInv, RegistryTypeOK, Ported, Given
<1>7. Listed'
  BY <1>1, <1>3, <1>5 DEF RegistryInv, RegistryTypeOK, Listed
<1>8. StartedWasHosted'
  <2>1. \A g \in Games : g # c[1] => handoff'[g] = handoff[g]
    BY <1>2
  <2>2. \A g \in Games, n \in 1..Asks : hosted[<<g, n>>] # "no" => hosted'[<<g, n>>] # "no"
    BY <1>5, CallParts
  <2>3. \E n \in 1..Asks : hosted'[<<c[1], n>>] # "no"
    BY <1>1, <1>5
  <2> QED BY <1>3, <2>1, <2>2, <2>3 DEF RegistryInv, StartedWasHosted
<1> QED BY <1>4, <1>6, <1>7, <1>8 DEF RegistryInv

\* A hosted lobby that ends has still been hosted.
LEMMA RegEnd ==
    ASSUME RegistryInv, NEW c \in Calls, EndLobby(c) \/ ReleasePort(c)
    PROVE  RegistryInv'
<1>1. /\ hosted' \in [Calls -> {"no", "live", "ending", "ended"}]
      /\ \A d \in Calls : hosted'[d] # "no" <=> hosted[d] # "no"
  BY DEF EndLobby, ReleasePort, RegistryInv, RegistryTypeOK
<1>2. /\ registry' \in [Numbers -> Calls \cup {None}]
      /\ \A i \in Numbers : registry'[i] \in {None, registry[i]}
  BY DEF EndLobby, ReleasePort, RegistryInv, RegistryTypeOK
<1>3. bound' \subseteq PortRange /\ UNCHANGED <<serverVars, call, mistaken>>
  BY DEF EndLobby, ReleasePort, RegistryInv, RegistryTypeOK
<1>4. RegistryTypeOK'
  BY <1>1, <1>2, <1>3 DEF RegistryInv, RegistryTypeOK, serverVars
<1>5. Ported'
  BY <1>1, <1>3 DEF RegistryInv, Ported, Given, serverVars
<1>6. Listed'
  BY <1>1, <1>2 DEF RegistryInv, RegistryTypeOK, Listed
<1>7. StartedWasHosted'
  <2>1. \A g \in Games, n \in 1..Asks : hosted[<<g, n>>] # "no" => hosted'[<<g, n>>] # "no"
    BY <1>1, CallParts
  <2> QED BY <1>3, <2>1 DEF RegistryInv, StartedWasHosted, serverVars
<1> QED BY <1>4, <1>5, <1>6, <1>7 DEF RegistryInv

LEMMA RegRestartRelay ==
    ASSUME RegistryInv, RestartRelay
    PROVE  RegistryInv'
<1>1. /\ call' \in [Calls -> {"none", "bind", "look", "spawn", "over"}]
      /\ hosted' \in [Calls -> {"no", "live", "ending", "ended"}]
      /\ \A c \in Calls : call'[c] # "none" <=> call[c] # "none"
      /\ \A c \in Calls : hosted'[c] # "no" <=> hosted[c] # "no"
  BY DEF RestartRelay, RegistryInv, RegistryTypeOK
<1>2. /\ registry' = [i \in Numbers |-> None] /\ bound' = {}
      /\ UNCHANGED <<serverVars, mistaken>>
  BY DEF RestartRelay
<1>3. RegistryTypeOK'
  BY <1>1, <1>2 DEF RegistryInv, RegistryTypeOK, serverVars
<1>4. Ported' /\ Listed'
  BY <1>1, <1>2 DEF RegistryInv, Ported, Given, Listed, serverVars
<1>5. StartedWasHosted'
  <2>1. \A g \in Games, n \in 1..Asks : hosted[<<g, n>>] # "no" => hosted'[<<g, n>>] # "no"
    BY <1>1, CallParts
  <2> QED BY <1>2, <2>1 DEF RegistryInv, StartedWasHosted, serverVars
<1> QED BY <1>3, <1>4, <1>5 DEF RegistryInv

LEMMA RegistryInvStep == RegistryInv /\ [RegistryNext]_registryVars => RegistryInv'
<1> SUFFICES ASSUME RegistryInv, [RegistryNext]_registryVars PROVE RegistryInv'
  OBVIOUS
<1>1. CASE UNCHANGED registryVars
  BY <1>1 DEF registryVars, serverVars, relayVars, RegistryInv, RegistryTypeOK, Ported,
              Given, Listed, StartedWasHosted
<1>2. CASE RegistryNext
  BY <1>2, RegServer, RegAsk, RegBreak, RegBind, RegLook, RegSpawn, RegEnd,
     RegRestartServer, RegRestartRelay DEF RegistryNext
<1> QED BY <1>1, <1>2

\* Every variable of the handoff has its type at all times; the ports given and bound
\* are the worker's own (sow-server/src/main.rs, RelayPortAllocator).
THEOREM RegistryTypes == RegistrySpec => []RegistryTypeOK
<1>1. RegistryInv => RegistryTypeOK
  BY DEF RegistryInv
<1> QED BY <1>1, RegistryInvInit, RegistryInvStep, PTL DEF RegistrySpec

\* Players are sent to a relay only for a lobby it has hosted, whatever calls break and
\* overlap and whichever side restarts, but for a lobby of an earlier server under the
\* same id and port (sow-server/src/main.rs:739, sow-relay/src/main.rs:1650).
THEOREM StartedIsHosted == RegistrySpec => []StartedWasHosted
<1>1. RegistryInv => StartedWasHosted
  BY DEF RegistryInv
<1> QED BY <1>1, RegistryInvInit, RegistryInvStep, PTL DEF RegistrySpec

---------------------------------------------------------------------------------
(* MatchFinalize: the upload of a match.                                          *)

Workers == [at : Awaits, match : Matches \cup {Nil}, left : 0..Entrants,
            late : BOOLEAN, heard : BOOLEAN]

\* The awaits before the last player is counted.
Early == {"replay", "write", "rename", "snapshot", "guard", "players"}

\* A request has a match that was posted, and players left to count until it has
\* counted them.
Posted(w) ==
    w.at # "vacant" => /\ w.match \in Matches
                       /\ posts[w.match] > 0
                       /\ w.at \in Early => w.left > 0

\* A late request is one whose match has a record, and it counts nobody.
LateRecorded(w) ==
    w.at # "vacant" /\ w.late => /\ Id[w.match] \in recorded
                                 /\ w.at \notin {"players", "record"}

\* The journals and files, and which of them were shared.
FilesOK ==
    /\ journal \in [Ids -> Matches \cup {Nil}]
    /\ temp \in [Ids -> Contents] /\ archive \in [Ids -> Contents]
    /\ displaced \subseteq Matches /\ shared \subseteq Ids

WorkInv ==
    /\ FinalizeTypeOK
    /\ \A h \in Handlers : Posted(worker[h]) /\ LateRecorded(worker[h])

LEMMA FinalizeConstants ==
    /\ \A m \in Matches : Id[m] \in Ids
    /\ Nil \notin Matches /\ Torn \notin Matches /\ Nil # Torn
    /\ Entrants \in Nat \ {0} /\ Tries \in Nat \ {0}
BY FinalizeAssumption DEF Ids

LEMMA FilesKeep ==
    ASSUME FinalizeTypeOK
    PROVE  FilesOK /\ (UNCHANGED <<journal, files, past>> => FilesOK')
BY DEF FinalizeTypeOK, FilesOK, files, past

LEMMA WorkerFields ==
    ASSUME WorkInv, NEW h \in Handlers
    PROVE  /\ worker[h] \in Workers /\ worker[h].at \in Awaits
           /\ worker[h].match \in Matches \cup {Nil} /\ worker[h].left \in 0..Entrants
           /\ worker[h].late \in BOOLEAN /\ worker[h].heard \in BOOLEAN
           /\ worker[h].at # "vacant" => /\ worker[h].match \in Matches
                                         /\ Id[worker[h].match] \in Ids
BY FinalizeConstants DEF WorkInv, FinalizeTypeOK, Workers, Posted

LEMMA SpareWorker ==
    /\ Spare \in Workers /\ Spare.at = "vacant" /\ ~Spare.late
    /\ Posted(Spare) /\ LateRecorded(Spare)
    /\ (Posted(Spare) /\ LateRecorded(Spare))'
BY FinalizeConstants DEF Spare, Workers, Awaits, Posted, LateRecorded

LEMMA WorkInvInit == FinalizeInit => WorkInv
BY SpareWorker, FinalizeConstants
   DEF FinalizeInit, WorkInv, FinalizeTypeOK, Workers, Stages, Awaits, Contents

\* What stays true of the requests that a step leaves alone.
LEMMA OthersKeep ==
    ASSUME WorkInv, NEW h \in Handlers,
           \A m \in Matches : posts'[m] >= posts[m], recorded \subseteq recorded',
           worker'[h] = worker[h], posts' \in [Matches -> 0..Tries]
    PROVE  (Posted(worker[h]) /\ LateRecorded(worker[h]))'
BY FinalizeConstants DEF WorkInv, FinalizeTypeOK, Posted, LateRecorded

\* A step that changes one request, and what the relay knows of its match.
LEMMA OneWorker ==
    ASSUME WorkInv, NEW h \in Handlers, NEW w \in Workers,
           worker' = [worker EXCEPT ![h] = w], UNCHANGED posts,
           recorded \subseteq recorded', recorded' \subseteq Ids,
           w.at # "vacant" =>
               /\ w.match = worker[h].match /\ worker[h].at # "vacant"
               /\ w.late = worker[h].late
               /\ w.at \in Early => w.left > 0
               /\ w.at \in {"players", "record"} /\ w.late => FALSE,
           progress' \in [Matches -> Stages], spool' \in [Ids -> Contents],
           FilesOK',
           registered' \subseteq Ids, finalized' \subseteq Ids,
           career' \in [Matches -> [Seat -> Nat]], rated' \in [Matches -> [Seat -> Nat]]
    PROVE  WorkInv'
<1>1. worker' \in [Handlers -> Workers] /\ worker'[h] = w
      /\ \A g \in Handlers \ {h} : worker'[g] = worker[g]
  BY DEF WorkInv, FinalizeTypeOK, Workers
<1>2. FinalizeTypeOK'
  BY <1>1 DEF WorkInv, FinalizeTypeOK, FilesOK, Workers
<1>3. \A g \in Handlers \ {h} : (Posted(worker[g]) /\ LateRecorded(worker[g]))'
  <2>1. posts' \in [Matches -> 0..Tries] /\ \A m \in Matches : posts'[m] >= posts[m]
    BY FinalizeConstants DEF WorkInv, FinalizeTypeOK
  <2> QED BY <1>1, <2>1, OthersKeep
<1>4. (Posted(worker[h]) /\ LateRecorded(worker[h]))'
  BY <1>1 DEF WorkInv, Posted, LateRecorded
<1> QED BY <1>2, <1>3, <1>4 DEF WorkInv

\* The answers of a request.
LEMMA ReplyStep ==
    ASSUME WorkInv, NEW h \in Handlers, worker[h].at # "vacant", NEW ok, Reply(h, ok)
    PROVE  /\ worker' = [worker EXCEPT ![h] = Spare]
           /\ progress' \in [Matches -> Stages]
           /\ spool' \in [Ids -> Contents]
           /\ \A m \in Matches : progress'[m] # progress[m] =>
                  m = worker[h].match /\ progress'[m] \in {"done", "sending", "left"}
           /\ spool' = spool \/ (ok /\ spool' = [spool EXCEPT ![Id[worker[h].match]] = Nil])
<1>1. worker[h].match \in Matches /\ Id[worker[h].match] \in Ids
  BY WorkerFields
<1>2. progress \in [Matches -> Stages] /\ spool \in [Ids -> Contents]
  BY DEF WorkInv, FinalizeTypeOK
<1> QED BY <1>1, <1>2 DEF Reply, AfterFailure, Stages, Contents

LEMMA WorkRelay ==
    ASSUME WorkInv, NEW m \in Matches,
           StartMatch(m) \/ EndMatch(m) \/ Spool(m) \/ PostFails(m)
    PROVE  WorkInv'
<1>1. Id[m] \in Ids
  BY FinalizeConstants
<1>2. UNCHANGED <<finalized, recorded, worker, career, rated>>
  BY DEF StartMatch, EndMatch, Spool, PostFails, keys, tally
<1>3. registered' \subseteq Ids
  BY <1>1 DEF StartMatch, EndMatch, Spool, PostFails, keys, WorkInv, FinalizeTypeOK
<1>4. progress' \in [Matches -> Stages]
  BY DEF StartMatch, EndMatch, Spool, PostFails, WorkInv, FinalizeTypeOK, Stages
<1>5. spool' \in [Ids -> Contents]
  BY <1>1, FinalizeConstants
     DEF StartMatch, EndMatch, Spool, PostFails, WorkInv, FinalizeTypeOK, Contents
<1>9. FilesOK'
  <2>1. FinalizeTypeOK
    BY DEF WorkInv
  <2>2. CASE StartMatch(m)
    BY <1>1, <2>1, <2>2 DEF StartMatch, Displace, files, FinalizeTypeOK, FilesOK
  <2>3. CASE Spool(m)
    BY <1>1, <2>1, <2>3 DEF Spool, Displace, files, FinalizeTypeOK, FilesOK
  <2>4. CASE EndMatch(m) \/ PostFails(m)
    BY <2>1, <2>4, FilesKeep DEF EndMatch, PostFails
  <2> QED BY <2>2, <2>3, <2>4
<1>6. posts' \in [Matches -> 0..Tries] /\ \A n \in Matches : posts'[n] >= posts[n]
  <2>1. posts \in [Matches -> 0..Tries] /\ Tries \in Nat
    BY FinalizeConstants DEF WorkInv, FinalizeTypeOK
  <2>2. CASE PostFails(m)
    BY <2>1, <2>2 DEF PostFails
  <2>3. CASE UNCHANGED posts
    BY <2>1, <2>3
  <2> QED BY <2>2, <2>3 DEF StartMatch, EndMatch, Spool
<1>7. FinalizeTypeOK'
  BY <1>2, <1>3, <1>4, <1>5, <1>6, <1>9 DEF WorkInv, FinalizeTypeOK, FilesOK
<1>8. \A h \in Handlers : (Posted(worker[h]) /\ LateRecorded(worker[h]))'
  BY <1>2, <1>6, OthersKeep
<1> QED BY <1>7, <1>8 DEF WorkInv

LEMMA WorkPost ==
    ASSUME WorkInv, NEW m \in Matches, NEW h \in Handlers, Post(m, h)
    PROVE  WorkInv'
<1> DEFINE tardy == Id[m] \in recorded
<1>1. tardy \in BOOLEAN /\ (tardy <=> Id[m] \in recorded)
  OBVIOUS
<1> DEFINE w == [at |-> "replay", match |-> m, left |-> Entrants, late |-> tardy, heard |-> TRUE]
<1>2. worker' = [worker EXCEPT ![h] = w] /\ worker'[h] = w
      /\ \A g \in Handlers \ {h} : worker'[g] = worker[g]
  BY <1>1 DEF Post, WorkInv, FinalizeTypeOK
<1>3. w \in Workers
  <2> HIDE DEF tardy
  <2> QED BY <1>1, FinalizeConstants DEF Workers, Awaits
<1>4. /\ posts' \in [Matches -> 0..Tries] /\ \A n \in Matches : posts'[n] >= posts[n]
      /\ posts'[m] > 0
  BY FinalizeConstants DEF Post, WorkInv, FinalizeTypeOK
<1>5. FinalizeTypeOK'
  BY <1>2, <1>3, <1>4
     DEF Post, WorkInv, FinalizeTypeOK, Workers, Stages, files, keys, tally, past
<1>6. \A g \in Handlers \ {h} : (Posted(worker[g]) /\ LateRecorded(worker[g]))'
  BY <1>2, <1>4, OthersKeep DEF Post
<1>7. (Posted(worker[h]) /\ LateRecorded(worker[h]))'
  <2>1. /\ worker'[h].at = "replay" /\ worker'[h].match = m /\ worker'[h].left = Entrants
        /\ worker'[h].late = tardy
    <3> HIDE DEF tardy
    <3> QED BY <1>2
  <2>2. worker'[h].late <=> Id[m] \in recorded
    BY <1>1, <2>1
  <2> HIDE DEF tardy
  <2> QED BY <1>4, <2>1, <2>2, FinalizeConstants DEF Posted, LateRecorded, Post, Early
<1> QED BY <1>5, <1>6, <1>7 DEF WorkInv

\* What a step of a handler needs of the state.
LEMMA WorkTypes ==
    ASSUME WorkInv
    PROVE  /\ progress \in [Matches -> Stages] /\ spool \in [Ids -> Contents]
           /\ FilesOK /\ (UNCHANGED <<journal, files, past>> => FilesOK')
           /\ registered \subseteq Ids /\ finalized \subseteq Ids /\ recorded \subseteq Ids
           /\ career \in [Matches -> [Seat -> Nat]] /\ rated \in [Matches -> [Seat -> Nat]]
BY FilesKeep DEF WorkInv, FinalizeTypeOK

\* A handler that answers, whatever it has just written.
LEMMA WorkReply ==
    ASSUME WorkInv, NEW h \in Handlers, worker[h].at # "vacant", NEW ok, Reply(h, ok),
           UNCHANGED posts, recorded \subseteq recorded', recorded' \subseteq Ids,
           FilesOK',
           registered' \subseteq Ids, finalized' \subseteq Ids,
           career' \in [Matches -> [Seat -> Nat]], rated' \in [Matches -> [Seat -> Nat]]
    PROVE  WorkInv'
<1>1. /\ worker' = [worker EXCEPT ![h] = Spare] /\ progress' \in [Matches -> Stages]
      /\ spool' \in [Ids -> Contents]
  BY ReplyStep
<1> QED BY <1>1, SpareWorker, OneWorker

\* A handler that goes on to its next await.
LEMMA WorkOnward ==
    ASSUME WorkInv, NEW h \in Handlers, worker[h].at # "vacant",
           NEW at \in Awaits \ {"vacant"}, Onward(h, at),
           at \in Early =>
               worker[h].at \in Early,
           at \in {"players", "record"} => ~worker[h].late,
           UNCHANGED posts, recorded \subseteq recorded', recorded' \subseteq Ids,
           FilesOK',
           registered' \subseteq Ids, finalized' \subseteq Ids,
           career' \in [Matches -> [Seat -> Nat]], rated' \in [Matches -> [Seat -> Nat]]
    PROVE  WorkInv'
<1> DEFINE w == [worker[h] EXCEPT !.at = at]
<1>1. worker' = [worker EXCEPT ![h] = w] /\ UNCHANGED <<progress, spool>>
  BY DEF Onward
<1>2. w \in Workers
  BY WorkerFields DEF Workers
<1>3. /\ w.at = at /\ w.match = worker[h].match /\ w.late = worker[h].late
      /\ w.left = worker[h].left
  BY WorkerFields DEF Workers
<1>4. at \in Early => worker[h].left > 0
  BY DEF WorkInv, Posted
<1>5. progress' \in [Matches -> Stages] /\ spool' \in [Ids -> Contents]
  BY <1>1, WorkTypes
<1> HIDE DEF w
<1> QED BY <1>1, <1>2, <1>3, <1>4, <1>5, OneWorker

\* What the steps that write the replay do to the files.
LEMMA ReplayFiles ==
    ASSUME WorkInv, NEW h \in Handlers,
           CreateReplay(h) \/ WriteReplay(h) \/ RenameReplay(h) \/ Snapshot(h)
    PROVE  FilesOK'
<1>1. worker[h].match \in Matches /\ Id[worker[h].match] \in Ids
  BY WorkerFields DEF CreateReplay, WriteReplay, RenameReplay, Snapshot
<1>2. FilesOK /\ Torn \in Contents /\ Nil \in Contents /\ worker[h].match \in Contents
  BY <1>1, WorkTypes DEF Contents
<1>3. ASSUME ReplayFails(h) PROVE temp' \in [Ids -> Contents]
  BY <1>1, <1>2, <1>3 DEF ReplayFails, FilesOK
<1>4. CASE CreateReplay(h)
  BY <1>1, <1>2, <1>3, <1>4 DEF CreateReplay, FilesOK
<1>5. CASE WriteReplay(h)
  <2>1. UNCHANGED <<journal, displaced, shared>>
    BY <1>5 DEF WriteReplay, past
  <2>2. \A c \in Contents : Overwritten(c, worker[h].match) \subseteq Contents
    BY <1>2 DEF Overwritten
  <2>3. temp' \in [Ids -> Contents]
    BY <1>1, <1>2, <1>3, <1>5, <2>2 DEF WriteReplay, FilesOK
  <2>4. archive' \in [Ids -> Contents]
    BY <1>1, <1>2, <1>5, <2>2 DEF WriteReplay, FilesOK
  <2> QED BY <1>2, <2>1, <2>3, <2>4 DEF FilesOK
<1>6. CASE RenameReplay(h)
  <2>1. UNCHANGED <<journal, shared>>
    BY <1>6 DEF RenameReplay
  <2>2. temp' \in [Ids -> Contents] /\ archive' \in [Ids -> Contents]
    BY <1>1, <1>2, <1>3, <1>6 DEF RenameReplay, FilesOK, files
  <2>3. displaced' \subseteq Matches
    BY <1>2, <1>6 DEF RenameReplay, Displace, FilesOK
  <2> QED BY <1>2, <2>1, <2>2, <2>3 DEF FilesOK
<1>7. CASE Snapshot(h)
  BY <1>7, WorkTypes DEF Snapshot
<1> QED BY <1>4, <1>5, <1>6, <1>7

LEMMA WorkReplay ==
    ASSUME WorkInv, NEW h \in Handlers,
           CreateReplay(h) \/ WriteReplay(h) \/ RenameReplay(h) \/ Snapshot(h)
    PROVE  WorkInv'
<1>1. /\ worker[h].at \in {"replay", "write", "rename", "snapshot"}
      /\ UNCHANGED <<posts, registered, finalized, recorded, career, rated>>
  BY DEF CreateReplay, WriteReplay, RenameReplay, Snapshot, keys, tally
<1>2. FilesOK'
  BY ReplayFiles
<1>3. (\E at \in {"write", "rename", "snapshot", "guard"} : Onward(h, at)) \/ Reply(h, FALSE)
  BY DEF CreateReplay, WriteReplay, RenameReplay, Snapshot, ReplayFails
<1>4. CASE Reply(h, FALSE)
  BY <1>1, <1>2, <1>4, WorkTypes, WorkReply
<1>5. ASSUME NEW at \in {"write", "rename", "snapshot", "guard"}, Onward(h, at)
      PROVE  WorkInv'
  <2>1. at \in Awaits \ {"vacant"} /\ at \notin {"players", "record"}
    BY DEF Awaits
  <2>2. worker[h].at # "vacant" /\ worker[h].at \in Early
    BY <1>1 DEF Early
  <2> QED BY <1>1, <1>2, <1>5, <2>1, <2>2, WorkTypes, WorkOnward
<1> QED BY <1>3, <1>4, <1>5

LEMMA WorkGuard ==
    ASSUME WorkInv, NEW h \in Handlers, Guard(h)
    PROVE  WorkInv'
<1>1. /\ worker[h].at = "guard"
      /\ UNCHANGED <<posts, journal, files, past, registered, recorded, career, rated>>
  BY DEF Guard, tally
<1>2. finalized' \subseteq Ids
  BY WorkTypes DEF Guard, Settle
<1>3. CASE \E ok : Reply(h, ok)
  BY <1>1, <1>2, <1>3, WorkTypes, WorkReply
<1>4. CASE Onward(h, "players") /\ Id[worker[h].match] \notin recorded
  <2>1. ~worker[h].late
    BY <1>1, <1>4 DEF WorkInv, LateRecorded
  <2>2. "players" \in Awaits \ {"vacant"} /\ worker[h].at \in Early
    BY <1>1 DEF Awaits, Early
  <2> QED BY <1>1, <1>2, <1>4, <2>1, <2>2, WorkTypes, WorkOnward
<1> QED BY <1>3, <1>4 DEF Guard, Settle

LEMMA WorkCount ==
    ASSUME WorkInv, NEW h \in Handlers, CountPlayer(h)
    PROVE  WorkInv'
<1>1. /\ worker[h].at = "players"
      /\ UNCHANGED <<posts, journal, files, past, registered, finalized, recorded, rated>>
  BY DEF CountPlayer, keys
<1>2. /\ worker[h].left \in 1..Entrants /\ worker[h].match \in Matches /\ ~worker[h].late
      /\ worker[h].heard \in BOOLEAN /\ Entrants \in Nat
  BY <1>1, WorkerFields, FinalizeConstants DEF WorkInv, Posted, LateRecorded, Early
<1>3. career' \in [Matches -> [Seat -> Nat]]
  <2>1. Entrants + 1 - worker[h].left \in Seat
    BY <1>2 DEF Seat
  <2>2. CASE career' = [career EXCEPT ![worker[h].match][Entrants + 1 - worker[h].left] = @ + 1]
    BY <1>2, <2>1, <2>2, WorkTypes
  <2>3. CASE UNCHANGED career
    BY <2>3, WorkTypes
  <2> QED BY <2>2, <2>3 DEF CountPlayer
<1>4. CASE Reply(h, FALSE)
  BY <1>1, <1>3, <1>4, WorkTypes, WorkReply
<1>5. CASE NextPlayer(h)
  <2>1. PICK at \in {"players", "record"} :
            at = IF worker[h].left = 1 THEN "record" ELSE worker[h].at
    BY <1>1
  <2>2. PICK n \in 0..Entrants : n = worker[h].left - 1
    BY <1>2
  <2> DEFINE w == [worker[h] EXCEPT !.left = n, !.at = at]
  <2>3. worker' = [worker EXCEPT ![h] = w] /\ UNCHANGED <<progress, spool>>
    BY <1>5, <2>1, <2>2 DEF NextPlayer
  <2>4. w \in Workers
    BY WorkerFields DEF Workers, Awaits
  <2>5. w.at = at /\ w.left = n /\ w.match = worker[h].match /\ w.late = worker[h].late
    BY WorkerFields DEF Workers
  <2>6. at \in Early => n > 0
    BY <1>2, <2>1, <2>2 DEF Early
  <2> HIDE DEF w
  <2> QED BY <1>1, <1>2, <1>3, <2>3, <2>4, <2>5, <2>6, WorkTypes, OneWorker
<1> QED BY <1>4, <1>5 DEF CountPlayer

LEMMA RateType ==
    ASSUME WorkInv, NEW m \in Matches, NEW n \in 0..Entrants, Rate(m, n)
    PROVE  rated' \in [Matches -> [Seat -> Nat]]
<1>1. [p \in Seat |-> IF p <= n THEN rated[m][p] + 1 ELSE rated[m][p]] \in [Seat -> Nat]
  BY WorkTypes
<1> QED BY <1>1, WorkTypes DEF Rate

LEMMA WorkRecord ==
    ASSUME WorkInv, NEW h \in Handlers, Record(h)
    PROVE  WorkInv'
<1>1. /\ worker[h].at = "record" /\ worker[h].match \in Matches
      /\ Id[worker[h].match] \in Ids
      /\ UNCHANGED <<posts, journal, files, past, registered, finalized, career>>
  BY WorkerFields DEF Record, keys
<1>2. CASE Rate(worker[h].match, Entrants) /\ Onward(h, "cleanup")
           /\ recorded' = recorded \cup {Id[worker[h].match]}
  <2>1. "cleanup" \in Awaits \ {"vacant"} /\ "cleanup" \notin Early
    BY DEF Awaits, Early
  <2>2. rated' \in [Matches -> [Seat -> Nat]]
    BY <1>1, <1>2, RateType, FinalizeConstants
  <2> QED BY <1>1, <1>2, <2>1, <2>2, WorkTypes, WorkOnward
<1>3. CASE (\E n \in 0..Entrants : Rate(worker[h].match, n)) /\ Reply(h, FALSE)
           /\ UNCHANGED recorded
  <2>1. rated' \in [Matches -> [Seat -> Nat]]
    BY <1>1, <1>3, RateType
  <2> QED BY <1>1, <1>3, <2>1, WorkTypes, WorkReply
<1> QED BY <1>2, <1>3 DEF Record

LEMMA WorkCleanup ==
    ASSUME WorkInv, NEW h \in Handlers, Cleanup(h)
    PROVE  WorkInv'
<1>1. /\ worker[h].at = "cleanup" /\ Id[worker[h].match] \in Ids
      /\ UNCHANGED <<posts, journal, files, past, recorded, career, rated>>
  BY WorkerFields DEF Cleanup, tally
<1>2. finalized' \subseteq Ids /\ registered' \subseteq Ids
  BY <1>1, WorkTypes DEF Cleanup, keys
<1>3. \E ok : Reply(h, ok)
  BY DEF Cleanup
<1> QED BY <1>1, <1>2, <1>3, WorkTypes, WorkReply

LEMMA WorkCutOff ==
    ASSUME WorkInv, NEW h \in Handlers, CutOff(h) \/ Abandon(h)
    PROVE  WorkInv'
<1>1. /\ worker[h].at # "vacant" /\ worker[h].match \in Matches
      /\ UNCHANGED <<posts, spool, journal, files, past, registered, finalized, recorded,
                      career, rated>>
  BY WorkerFields DEF CutOff, Abandon, Vacant, keys, tally
<1>2. progress' \in [Matches -> Stages]
  BY <1>1, WorkTypes DEF CutOff, Abandon, AfterFailure, Stages
<1>3. CASE worker' = [worker EXCEPT ![h] = Spare]
  BY <1>1, <1>2, <1>3, SpareWorker, WorkTypes, OneWorker
<1>4. CASE worker' = [worker EXCEPT ![h].heard = FALSE]
  <2> DEFINE w == [worker[h] EXCEPT !.heard = FALSE]
  <2>1. worker' = [worker EXCEPT ![h] = w]
    BY <1>4
  <2>2. w \in Workers
    BY WorkerFields DEF Workers
  <2>3. w.at = worker[h].at /\ w.match = worker[h].match /\ w.late = worker[h].late
        /\ w.left = worker[h].left
    BY WorkerFields DEF Workers
  <2>4. /\ w.at \in Early => w.left > 0
        /\ ~(w.at \in {"players", "record"} /\ w.late)
    BY <1>1, <2>3 DEF WorkInv, Posted, LateRecorded
  <2> HIDE DEF w
  <2> QED BY <1>1, <1>2, <2>1, <2>2, <2>3, <2>4, WorkTypes, OneWorker
<1> QED BY <1>3, <1>4 DEF CutOff, Abandon

LEMMA WorkCrash ==
    ASSUME WorkInv, RelayCrash \/ DataCrash \/ LoseKeys
    PROVE  WorkInv'
<1>1. UNCHANGED <<posts, spool, recorded, career, rated>> /\ FilesOK'
  BY WorkTypes DEF RelayCrash, DataCrash, LoseKeys, keys, tally
<1>2. progress' \in [Matches -> Stages]
  BY WorkTypes DEF RelayCrash, DataCrash, LoseKeys, Stages
<1>3. registered' \subseteq Ids /\ finalized' \subseteq Ids
  BY WorkTypes DEF RelayCrash, DataCrash, LoseKeys, keys
<1>4. \A h \in Handlers :
          \/ worker'[h] = Spare
          \/ /\ worker'[h] \in Workers
             /\ worker'[h].at = worker[h].at /\ worker'[h].match = worker[h].match
             /\ worker'[h].late = worker[h].late /\ worker'[h].left = worker[h].left
  <2>1. CASE RelayCrash
    <3>1. \A h \in Handlers : worker'[h] = [worker[h] EXCEPT !.heard = FALSE]
      BY <2>1 DEF RelayCrash
    <3> QED BY <3>1, WorkerFields DEF Workers
  <2>2. CASE DataCrash
    BY <2>2 DEF DataCrash
  <2>3. CASE LoseKeys
    BY <2>3, WorkerFields DEF LoseKeys
  <2> QED BY <2>1, <2>2, <2>3
<1>5. worker' \in [Handlers -> Workers]
  <2>1. worker' = [h \in Handlers |-> worker'[h]]
    BY DEF RelayCrash, DataCrash, LoseKeys, WorkInv, FinalizeTypeOK
  <2> QED BY <1>4, <2>1, SpareWorker
<1>6. FinalizeTypeOK'
  BY <1>1, <1>2, <1>3, <1>5 DEF WorkInv, FinalizeTypeOK, FilesOK, Workers
<1>7. \A h \in Handlers : (Posted(worker[h]) /\ LateRecorded(worker[h]))'
  BY <1>1, <1>4, SpareWorker DEF WorkInv, Posted, LateRecorded
<1> QED BY <1>6, <1>7 DEF WorkInv

LEMMA WorkInvStep == WorkInv /\ [FinalizeNext]_finalizeVars => WorkInv'
<1> SUFFICES ASSUME WorkInv, [FinalizeNext]_finalizeVars PROVE WorkInv'
  OBVIOUS
<1>1. CASE UNCHANGED finalizeVars
  BY <1>1 DEF finalizeVars, WorkInv, FinalizeTypeOK, Posted, LateRecorded
<1>2. CASE FinalizeNext
  BY <1>2, WorkRelay, WorkPost, WorkReplay, WorkGuard, WorkCount, WorkRecord, WorkCleanup,
     WorkCutOff, WorkCrash DEF FinalizeNext
<1> QED BY <1>1, <1>2

LEMMA WorkInvariant == FinalizeSpec => []WorkInv
BY WorkInvInit, WorkInvStep, PTL DEF FinalizeSpec

\* Every variable of the finalization has its type at all times, whatever fails, is
\* repeated or crashes (sow-relay/src/main.rs, trigger_match_finalize;
\* sow-data/src/main.rs, handle_match_finalize).
THEOREM FinalizeTypes == FinalizeSpec => []FinalizeTypeOK
<1>1. WorkInv => FinalizeTypeOK
  BY DEF WorkInv
<1> QED BY <1>1, WorkInvariant, PTL

\* A request that comes after the match's record was saved changes no career and no
\* rating, also for matches that share an id (finalize_match_with_lobby,
\* sow-data/src/db.rs:2404).
THEOREM LateIsIgnored == FinalizeSpec => LateCountsNothing
<1> DEFINE Late == \A h \in Handlers : worker[h].late /\ worker'[h] # worker[h] => UNCHANGED tally
<1>1. ASSUME WorkInv, FinalizeNext PROVE Late
  <2>1. ASSUME NEW h \in Handlers, CountPlayer(h) \/ Record(h) PROVE Late
    <3>1. worker[h].at \in {"players", "record"} /\ ~worker[h].late
      BY <1>1, <2>1 DEF CountPlayer, Record, WorkInv, LateRecorded
    <3>2. \A g \in Handlers \ {h} : worker'[g] = worker[g]
      BY <1>1, <2>1 DEF CountPlayer, Record, NextPlayer, Onward, Reply, WorkInv, FinalizeTypeOK
    <3> QED BY <3>1, <3>2
  <2>2. CASE UNCHANGED tally
    BY <2>2
  <2>3. \/ UNCHANGED tally
        \/ \E h \in Handlers : CountPlayer(h) \/ Record(h)
    BY <1>1 DEF FinalizeNext, StartMatch, EndMatch, Spool, PostFails, Post, CreateReplay,
                WriteReplay, RenameReplay, Snapshot, Guard, Cleanup, CutOff, Abandon,
                RelayCrash, DataCrash, LoseKeys
  <2> QED BY <2>1, <2>2, <2>3
<1>2. ASSUME WorkInv, [FinalizeNext]_finalizeVars PROVE [Late]_finalizeVars
  BY <1>1, <1>2
<1> HIDE DEF Late
<1>3. FinalizeSpec => [][Late]_finalizeVars
  BY <1>2, WorkInvariant, PTL DEF FinalizeSpec
<1> QED BY <1>3 DEF LateCountsNothing, Late

\* What the relay keeps of its uploads: a match's turns are in the journal of its id, then
\* its replay in the spool, where it stays while it is uploaded, one match at a time; only
\* the request it waits for is heard.
Journaled ==
    \A m \in Matches : progress[m] \in {"playing", "over"} =>
        journal[Id[m]] = m \/ m \in displaced

Unposted ==
    \A m \in Matches : progress[m] \in {"planned", "playing", "over"} => posts[m] = 0

OneUpload == \A m, n \in Matches : Uploading(m) /\ Uploading(n) => m = n

Spooled ==
    \A m \in Matches : Uploading(m) =>
        spool[Id[m]] = m \/ (spool[Id[m]] = Torn /\ m \in displaced)

Heard(h) == worker[h].at # "vacant" /\ worker[h].heard

HeardOnce ==
    /\ \A h \in Handlers : Heard(h) => progress[worker[h].match] = "posted"
    /\ \A g, h \in Handlers : Heard(g) /\ Heard(h) => g = h

UploadInv == Journaled /\ Unposted /\ OneUpload /\ Spooled /\ HeardOnce

\* The steps of a handler.
Serving(h) ==
    \/ CreateReplay(h) \/ WriteReplay(h) \/ RenameReplay(h) \/ Snapshot(h)
    \/ Guard(h) \/ CountPlayer(h) \/ Record(h) \/ Cleanup(h)

\* A handler goes on or answers, with a success only from its last awaits.
LEMMA ServingStep ==
    ASSUME WorkInv, NEW h \in Handlers, Serving(h)
    PROVE  /\ worker[h].at # "vacant" /\ UNCHANGED <<posts, journal>>
           /\ displaced \subseteq displaced' /\ shared \subseteq shared'
           /\ \/ Reply(h, FALSE)
              \/ Reply(h, TRUE) /\ worker[h].at \in {"guard", "cleanup"}
              \/ /\ UNCHANGED <<progress, spool>>
                 /\ worker'[h].at # "vacant" /\ worker'[h].match = worker[h].match
                 /\ worker'[h].heard = worker[h].heard
                 /\ \A g \in Handlers \ {h} : worker'[g] = worker[g]
<1>1. worker[h].at # "vacant" /\ UNCHANGED <<posts, journal>>
  BY DEF Serving, CreateReplay, WriteReplay, RenameReplay, Snapshot, Guard, CountPlayer, Record,
         Cleanup
<1>2. displaced \subseteq displaced' /\ shared \subseteq shared'
  BY DEF Serving, CreateReplay, WriteReplay, RenameReplay, Snapshot, Guard, CountPlayer, Record,
         Cleanup, past, Displace
<1>3. \/ Reply(h, FALSE)
      \/ Reply(h, TRUE) /\ worker[h].at \in {"guard", "cleanup"}
      \/ \E at \in Awaits \ {"vacant"} : Onward(h, at)
      \/ NextPlayer(h) /\ worker[h].at = "players"
  BY DEF Serving, CreateReplay, WriteReplay, RenameReplay, ReplayFails, Snapshot, Guard, Settle,
         CountPlayer, Record, Cleanup, Awaits
<1>4. worker \in [Handlers -> Workers]
  BY DEF WorkInv, FinalizeTypeOK, Workers
<1>5. ASSUME NEW at \in Awaits \ {"vacant"}, Onward(h, at)
      PROVE  /\ UNCHANGED <<progress, spool>>
             /\ worker'[h].at # "vacant" /\ worker'[h].match = worker[h].match
             /\ worker'[h].heard = worker[h].heard
             /\ \A g \in Handlers \ {h} : worker'[g] = worker[g]
  BY <1>4, <1>5 DEF Onward, Workers
<1>6. ASSUME NextPlayer(h), worker[h].at = "players"
      PROVE  /\ UNCHANGED <<progress, spool>>
             /\ worker'[h].at # "vacant" /\ worker'[h].match = worker[h].match
             /\ worker'[h].heard = worker[h].heard
             /\ \A g \in Handlers \ {h} : worker'[g] = worker[g]
  BY <1>4, <1>6 DEF NextPlayer, Workers
<1> QED BY <1>1, <1>2, <1>3, <1>5, <1>6

LEMMA UploadReply ==
    ASSUME WorkInv, UploadInv, NEW h \in Handlers, worker[h].at # "vacant", NEW ok, Reply(h, ok),
           UNCHANGED <<posts, journal>>, displaced \subseteq displaced'
    PROVE  UploadInv'
<1>1. worker[h].match \in Matches /\ Id[worker[h].match] \in Ids
  BY WorkerFields
<1>2. progress \in [Matches -> Stages] /\ spool \in [Ids -> Contents]
      /\ worker \in [Handlers -> Workers]
  BY DEF WorkInv, FinalizeTypeOK, Workers
<1>3. worker'[h].at = "vacant" /\ \A g \in Handlers \ {h} : worker'[g] = worker[g]
  BY <1>2 DEF Reply, Spare
<1>4. CASE ~worker[h].heard
  <2>1. UNCHANGED <<progress, spool>>
    BY <1>4 DEF Reply
  <2>2. Journaled' /\ Unposted' /\ OneUpload' /\ Spooled'
    BY <2>1 DEF UploadInv, Journaled, Unposted, OneUpload, Spooled, Uploading
  <2>3. HeardOnce'
    BY <1>3, <2>1 DEF UploadInv, HeardOnce, Heard
  <2> QED BY <2>2, <2>3 DEF UploadInv
<1>5. CASE worker[h].heard
  <2> DEFINE m == worker[h].match
  <2>1. progress[m] = "posted" /\ Uploading(m)
    BY <1>5 DEF UploadInv, HeardOnce, Heard, Uploading
  <2>2. /\ \A n \in Matches \ {m} : progress'[n] = progress[n] /\ ~Uploading(n)
        /\ progress'[m] \in {"done", "sending", "left"}
        /\ progress'[m] = "sending" => UNCHANGED spool
    BY <1>1, <1>2, <1>5, <2>1 DEF Reply, AfterFailure, UploadInv, OneUpload
  <2>3. Journaled' /\ Unposted'
    BY <2>2 DEF UploadInv, Journaled, Unposted
  <2>4. \A n \in Matches : Uploading(n)' => n = m /\ UNCHANGED spool
    BY <2>2 DEF Uploading
  <2>5. OneUpload' /\ Spooled'
    BY <2>1, <2>4 DEF UploadInv, OneUpload, Spooled
  <2>6. \A g \in Handlers : ~Heard(g)'
    BY <1>3, <1>5 DEF UploadInv, HeardOnce, Heard
  <2>7. HeardOnce'
    BY <2>6 DEF HeardOnce
  <2> QED BY <2>3, <2>5, <2>7 DEF UploadInv
<1> QED BY <1>4, <1>5

LEMMA UploadServing ==
    ASSUME WorkInv, UploadInv, NEW h \in Handlers, Serving(h)
    PROVE  UploadInv'
<1>1. /\ worker[h].at # "vacant" /\ UNCHANGED <<posts, journal>>
      /\ displaced \subseteq displaced'
  BY ServingStep
<1>2. CASE Reply(h, FALSE) \/ Reply(h, TRUE)
  BY <1>1, <1>2, UploadReply
<1>3. CASE /\ UNCHANGED <<progress, spool>>
           /\ worker'[h].at # "vacant" /\ worker'[h].match = worker[h].match
           /\ worker'[h].heard = worker[h].heard
           /\ \A g \in Handlers \ {h} : worker'[g] = worker[g]
  <2>1. Journaled' /\ Unposted' /\ OneUpload' /\ Spooled'
    BY <1>1, <1>3 DEF UploadInv, Journaled, Unposted, OneUpload, Spooled, Uploading
  <2>2. \A g \in Handlers : (Heard(g)' <=> Heard(g)) /\ worker'[g].match = worker[g].match
    BY <1>1, <1>3 DEF Heard
  <2>3. HeardOnce'
    BY <1>3, <2>2 DEF UploadInv, HeardOnce
  <2> QED BY <2>1, <2>3 DEF UploadInv
<1> QED BY <1>2, <1>3, ServingStep

LEMMA UploadRelay ==
    ASSUME WorkInv, UploadInv, NEW m \in Matches,
           StartMatch(m) \/ EndMatch(m) \/ Spool(m) \/ PostFails(m)
    PROVE  UploadInv'
<1>1. /\ progress \in [Matches -> Stages] /\ spool \in [Ids -> Contents]
      /\ journal \in [Ids -> Matches \cup {Nil}] /\ posts \in [Matches -> 0..Tries]
  BY DEF WorkInv, FinalizeTypeOK
<1>2. \A n \in Matches : Id[n] \in Ids
  BY FinalizeConstants
<1>3. UNCHANGED worker /\ displaced \subseteq displaced'
  BY DEF StartMatch, EndMatch, Spool, PostFails, Displace, past
<1>4. CASE StartMatch(m)
  <2>1. /\ progress' = [progress EXCEPT ![m] = "playing"] /\ progress[m] = "planned"
        /\ journal' = [journal EXCEPT ![Id[m]] = m] /\ UNCHANGED <<posts, spool>>
        /\ displaced' = displaced \cup (({journal[Id[m]]} \cap Matches) \ {m})
    BY <1>4 DEF StartMatch, Displace
  <2>2. \A n \in Matches : Uploading(n)' <=> Uploading(n)
    BY <1>1, <2>1 DEF Uploading
  <2>3. Journaled'
    BY <1>1, <1>2, <2>1 DEF UploadInv, Journaled
  <2>4. Unposted'
    BY <1>1, <2>1 DEF UploadInv, Unposted
  <2>5. OneUpload' /\ Spooled'
    BY <1>3, <2>1, <2>2 DEF UploadInv, OneUpload, Spooled
  <2>6. HeardOnce'
    BY <1>1, <1>3, <2>1, WorkerFields DEF UploadInv, HeardOnce, Heard
  <2> QED BY <2>3, <2>4, <2>5, <2>6 DEF UploadInv
<1>5. CASE EndMatch(m)
  <2>1. /\ progress' = [progress EXCEPT ![m] = "over"] /\ progress[m] = "playing"
        /\ UNCHANGED <<posts, spool, journal, displaced>>
    BY <1>5 DEF EndMatch, past
  <2>2. \A n \in Matches : Uploading(n)' <=> Uploading(n)
    BY <1>1, <2>1 DEF Uploading
  <2>3. Journaled' /\ Unposted'
    BY <1>1, <2>1 DEF UploadInv, Journaled, Unposted
  <2>5. OneUpload' /\ Spooled'
    BY <1>3, <2>1, <2>2 DEF UploadInv, OneUpload, Spooled
  <2>6. HeardOnce'
    BY <1>1, <1>3, <2>1, WorkerFields DEF UploadInv, HeardOnce, Heard
  <2> QED BY <2>3, <2>5, <2>6 DEF UploadInv
<1>6. CASE Spool(m)
  <2>1. /\ progress[m] = "over" /\ UNCHANGED posts
        /\ \A n \in Matches : ~Uploading(n)
        /\ \/ progress' = [progress EXCEPT ![m] = "sending"]
           \/ progress' = [progress EXCEPT ![m] = "left"]
    BY <1>6 DEF Spool
  <2>2. \A g \in Handlers : ~Heard(g)
    BY <2>1, WorkerFields DEF UploadInv, HeardOnce, Heard, Uploading
  <2>3. HeardOnce'
    BY <1>3, <2>2 DEF HeardOnce, Heard
  <2>4. Unposted'
    BY <1>1, <2>1 DEF UploadInv, Unposted
  <2>5. \A n \in Matches : Uploading(n)' => n = m /\ progress'[m] = "sending"
    BY <1>1, <2>1 DEF Uploading
  <2>6. OneUpload'
    BY <2>5 DEF OneUpload
  <2>7. CASE UNCHANGED <<journal, spool, displaced>> /\ progress' = [progress EXCEPT ![m] = "left"]
    <3>1. Journaled'
      BY <1>1, <2>1, <2>7 DEF UploadInv, Journaled
    <3>2. Spooled'
      BY <1>1, <2>5, <2>7 DEF Spooled
    <3> QED BY <2>3, <2>4, <2>6, <3>1, <3>2 DEF UploadInv
  <2>8. CASE /\ spool' = [spool EXCEPT ![Id[m]] = IF journal[Id[m]] = m THEN m ELSE Torn]
             /\ journal' = [journal EXCEPT ![Id[m]] = Nil]
             /\ Displace({journal[Id[m]], spool[Id[m]]}, m)
    <3>1. Journaled'
      BY <1>1, <1>2, <2>1, <2>8, FinalizeConstants DEF UploadInv, Journaled, Displace
    <3>2. spool'[Id[m]] = m \/ (spool'[Id[m]] = Torn /\ m \in displaced')
      <4>1. journal[Id[m]] = m \/ m \in displaced
        BY <2>1 DEF UploadInv, Journaled
      <4> QED BY <1>1, <1>2, <1>3, <2>8, <4>1
    <3>3. Spooled'
      BY <2>5, <3>2 DEF Spooled
    <3> QED BY <2>3, <2>4, <2>6, <3>1, <3>3 DEF UploadInv
  <2> QED BY <1>6, <2>7, <2>8 DEF Spool
<1>7. CASE PostFails(m)
  <2>1. /\ progress[m] = "sending" /\ UNCHANGED <<journal, spool, displaced>>
        /\ \/ progress' = [progress EXCEPT ![m] = "sending"]
           \/ progress' = [progress EXCEPT ![m] = "left"]
    BY <1>7 DEF PostFails, past
  <2>2. \A n \in Matches : Uploading(n)' => Uploading(n)
    BY <1>1, <2>1 DEF Uploading
  <2>3. Journaled'
    BY <1>1, <2>1 DEF UploadInv, Journaled
  <2>4. Unposted'
    BY <1>1, <1>7, <2>1 DEF UploadInv, Unposted, PostFails
  <2>5. OneUpload' /\ Spooled'
    BY <2>1, <2>2 DEF UploadInv, OneUpload, Spooled
  <2>6. HeardOnce'
    BY <1>1, <1>3, <2>1, WorkerFields DEF UploadInv, HeardOnce, Heard
  <2> QED BY <2>3, <2>4, <2>5, <2>6 DEF UploadInv
<1> QED BY <1>4, <1>5, <1>6, <1>7

LEMMA UploadPost ==
    ASSUME WorkInv, UploadInv, NEW m \in Matches, NEW h \in Handlers, Post(m, h)
    PROVE  UploadInv'
<1>1. /\ progress \in [Matches -> Stages] /\ posts \in [Matches -> 0..Tries]
      /\ worker \in [Handlers -> Workers]
  BY DEF WorkInv, FinalizeTypeOK, Workers
<1>2. /\ progress[m] = "sending" /\ progress' = [progress EXCEPT ![m] = "posted"]
      /\ posts' = [posts EXCEPT ![m] = @ + 1]
      /\ UNCHANGED <<journal, spool, displaced>>
  BY DEF Post, past
<1>3. worker'[h].match = m /\ \A g \in Handlers \ {h} : worker'[g] = worker[g]
  BY <1>1 DEF Post
<1>4. \A n \in Matches : Uploading(n)' <=> Uploading(n)
  BY <1>1, <1>2 DEF Uploading
<1>5. Journaled'
  BY <1>1, <1>2 DEF UploadInv, Journaled
<1>6. Unposted'
  BY <1>1, <1>2 DEF UploadInv, Unposted
<1>7. OneUpload' /\ Spooled'
  BY <1>2, <1>4 DEF UploadInv, OneUpload, Spooled
<1>8. \A g \in Handlers : ~Heard(g)
  BY <1>2, WorkerFields DEF UploadInv, OneUpload, HeardOnce, Heard, Uploading
<1>9. \A g \in Handlers : Heard(g)' => g = h
  BY <1>3, <1>8 DEF Heard
<1>10. progress'[m] = "posted"
  BY <1>1, <1>2
<1>11. HeardOnce'
  BY <1>3, <1>9, <1>10 DEF HeardOnce
<1> QED BY <1>5, <1>6, <1>7, <1>11 DEF UploadInv

LEMMA UploadCutOff ==
    ASSUME WorkInv, UploadInv, NEW h \in Handlers, CutOff(h) \/ Abandon(h)
    PROVE  UploadInv'
<1>1. /\ progress \in [Matches -> Stages] /\ worker \in [Handlers -> Workers]
      /\ worker[h].match \in Matches
  BY WorkerFields DEF WorkInv, FinalizeTypeOK, Workers, CutOff, Abandon, Vacant
<1>2. UNCHANGED <<posts, journal, spool, displaced>>
  BY DEF CutOff, Abandon, past
<1>3. CASE CutOff(h)
  <2> DEFINE m == worker[h].match
  <2>1. Heard(h) /\ progress[m] = "posted"
    BY <1>3 DEF CutOff, Vacant, Heard, UploadInv, HeardOnce
  <2>2. \/ progress' = [progress EXCEPT ![m] = "sending"]
        \/ progress' = [progress EXCEPT ![m] = "left"]
    BY <1>3 DEF CutOff, AfterFailure
  <2>3. \A n \in Matches : Uploading(n)' => Uploading(n)
    BY <1>1, <2>1, <2>2 DEF Uploading
  <2>4. Journaled' /\ Unposted'
    BY <1>1, <1>2, <2>1, <2>2 DEF UploadInv, Journaled, Unposted
  <2>5. OneUpload' /\ Spooled'
    BY <1>2, <2>3 DEF UploadInv, OneUpload, Spooled
  <2>6. \A g \in Handlers : ~Heard(g)'
    <3>1. worker'[h].heard = FALSE /\ \A g \in Handlers \ {h} : worker'[g] = worker[g]
      BY <1>1, <1>3 DEF CutOff, Workers
    <3> QED BY <2>1, <3>1 DEF UploadInv, HeardOnce, Heard
  <2>7. HeardOnce'
    BY <2>6 DEF HeardOnce
  <2> QED BY <2>4, <2>5, <2>7 DEF UploadInv
<1>4. CASE Abandon(h)
  <2>1. UNCHANGED progress
    BY <1>4 DEF Abandon
  <2>2. Journaled' /\ Unposted' /\ OneUpload' /\ Spooled'
    BY <1>2, <2>1 DEF UploadInv, Journaled, Unposted, OneUpload, Spooled, Uploading
  <2>3. \A g \in Handlers : Heard(g)' => Heard(g) /\ worker'[g] = worker[g]
    BY <1>1, <1>4 DEF Abandon, Heard, Spare
  <2>4. HeardOnce'
    BY <2>1, <2>3 DEF UploadInv, HeardOnce
  <2> QED BY <2>2, <2>4 DEF UploadInv
<1> QED BY <1>3, <1>4

LEMMA UploadCrash ==
    ASSUME WorkInv, UploadInv, RelayCrash \/ DataCrash \/ LoseKeys
    PROVE  UploadInv'
<1>1. UNCHANGED <<posts, journal, spool, displaced>>
  BY DEF RelayCrash, DataCrash, LoseKeys, past
<1>2. CASE RelayCrash
  <2>1. \A m \in Matches : progress'[m] \in {"planned", "done", "left"}
                             /\ (progress'[m] = "planned" => progress[m] = "planned")
    BY <1>2 DEF RelayCrash
  <2>2. Journaled' /\ Unposted' /\ OneUpload' /\ Spooled'
    BY <1>1, <2>1 DEF UploadInv, Journaled, Unposted, OneUpload, Spooled, Uploading
  <2>3. \A h \in Handlers : worker'[h].heard = FALSE
    BY <1>2, WorkerFields DEF RelayCrash, Workers
  <2>4. HeardOnce'
    BY <2>3 DEF HeardOnce, Heard
  <2> QED BY <2>2, <2>4 DEF UploadInv
<1>3. CASE DataCrash
  <2>1. \A m \in Matches : progress'[m] = progress[m]
                             \/ (progress[m] = "posted" /\ progress'[m] \in {"sending", "left"})
    BY <1>3, WorkTypes, FinalizeConstants DEF DataCrash, WorkInv, FinalizeTypeOK
  <2>2. \A m \in Matches : Uploading(m)' => Uploading(m)
    BY <2>1 DEF Uploading
  <2>3. Journaled' /\ Unposted'
    BY <1>1, <2>1 DEF UploadInv, Journaled, Unposted
  <2>4. OneUpload' /\ Spooled'
    BY <1>1, <2>2 DEF UploadInv, OneUpload, Spooled
  <2>5. HeardOnce'
    BY <1>3 DEF DataCrash, HeardOnce, Heard, Spare
  <2> QED BY <2>3, <2>4, <2>5 DEF UploadInv
<1>4. CASE LoseKeys
  BY <1>1, <1>4 DEF LoseKeys, UploadInv, Journaled, Unposted, OneUpload, Spooled, HeardOnce,
                    Heard, Uploading
<1> QED BY <1>2, <1>3, <1>4

LEMMA UploadStep ==
    ASSUME WorkInv, UploadInv, FinalizeNext
    PROVE  UploadInv'
<1>1. \/ \E m \in Matches : StartMatch(m) \/ EndMatch(m) \/ Spool(m) \/ PostFails(m)
      \/ \E m \in Matches, h \in Handlers : Post(m, h)
      \/ \E h \in Handlers : Serving(h)
      \/ \E h \in Handlers : CutOff(h) \/ Abandon(h)
      \/ RelayCrash \/ DataCrash \/ LoseKeys
  BY DEF FinalizeNext, Serving
<1> QED BY <1>1, UploadRelay, UploadPost, UploadServing, UploadCutOff, UploadCrash

\* The file of a match is in its place, unless one of the two excepted things happened to
\* it; until it is, the replay is in the spool.  A handler beyond the rename has filed its
\* match.  As long as no temporary file of the id was shared, one handler at a time is
\* between the creation and the rename, and what it renames is its own.
Filed(m) == archive[Id[m]] = m \/ m \in displaced \/ Id[m] \in shared

Kept(m) == spool[Id[m]] = m \/ Filed(m)

PostedKept == \A m \in Matches : posts[m] > 0 => Kept(m)

BeyondFiled ==
    \A h \in Handlers :
        worker[h].at \in {"snapshot", "guard", "players", "record", "cleanup"}
            => Filed(worker[h].match)

OneReplaces ==
    \A g, h \in Handlers :
        /\ Replacing(g) /\ Replacing(h)
        /\ Id[worker[g].match] = Id[worker[h].match] /\ Id[worker[g].match] \notin shared
        => g = h

OwnTemp ==
    \A h \in Handlers :
        worker[h].at = "rename" /\ Id[worker[h].match] \notin shared
            => temp[Id[worker[h].match]] \in {Nil, worker[h].match}

KeptInv == PostedKept /\ BeyondFiled /\ OneReplaces /\ OwnTemp

LEMMA PastGrows ==
    ASSUME FinalizeNext
    PROVE  displaced \subseteq displaced' /\ shared \subseteq shared'
BY DEF FinalizeNext, StartMatch, EndMatch, Spool, PostFails, Post, CreateReplay, WriteReplay,
       RenameReplay, Snapshot, Guard, CountPlayer, Record, Cleanup, CutOff, Abandon, RelayCrash,
       DataCrash, LoseKeys, Displace, past

\* Once filed, always filed.
LEMMA FiledStays ==
    ASSUME WorkInv, KeptInv, FinalizeNext, NEW m \in Matches, Filed(m)
    PROVE  Filed(m)'
<1>1. archive \in [Ids -> Contents] /\ temp \in [Ids -> Contents] /\ Id[m] \in Ids
  BY FinalizeConstants DEF WorkInv, FinalizeTypeOK
<1>2. displaced \subseteq displaced' /\ shared \subseteq shared'
  BY PastGrows
<1>3. CASE m \in displaced \/ Id[m] \in shared
  BY <1>2, <1>3 DEF Filed
<1>4. CASE m \notin displaced /\ Id[m] \notin shared
  <2>1. archive[Id[m]] = m
    BY <1>4 DEF Filed
  <2>2. CASE UNCHANGED archive
    BY <2>1, <2>2 DEF Filed
  <2>3. ASSUME NEW h \in Handlers, WriteReplay(h)
        PROVE  archive'[Id[m]] = m
    <3>1. \/ UNCHANGED archive
          \/ /\ Id[worker[h].match] \in shared
             /\ \E c \in Overwritten(archive[Id[worker[h].match]], worker[h].match) :
                    archive' = [archive EXCEPT ![Id[worker[h].match]] = c]
      BY <2>3 DEF WriteReplay
    <3> QED BY <1>1, <1>4, <2>1, <3>1
  <2>4. ASSUME NEW h \in Handlers, RenameReplay(h)
        PROVE  Filed(m)'
    <3>1. worker[h].at = "rename"
      BY <2>4 DEF RenameReplay
    <3>2. CASE UNCHANGED archive
      BY <2>1, <3>2 DEF Filed
    <3>3. CASE /\ temp[Id[worker[h].match]] # Nil
               /\ archive' = [archive EXCEPT ![Id[worker[h].match]] = temp[Id[worker[h].match]]]
               /\ Displace({archive[Id[worker[h].match]]}, worker[h].match)
      <4>1. CASE Id[worker[h].match] # Id[m]
        BY <1>1, <2>1, <3>3, <4>1 DEF Filed
      <4>2. CASE Id[worker[h].match] = Id[m] /\ worker[h].match # m
        BY <2>1, <3>3, <4>2 DEF Filed, Displace
      <4>3. CASE worker[h].match = m
        <5>1. temp[Id[m]] \in {Nil, m}
          BY <1>4, <3>1, <4>3 DEF KeptInv, OwnTemp
        <5> QED BY <1>1, <3>3, <4>3, <5>1 DEF Filed
      <4> QED BY <4>1, <4>2, <4>3
    <3> QED BY <2>4, <3>2, <3>3 DEF RenameReplay, files
  <2>5. UNCHANGED archive \/ \E h \in Handlers : WriteReplay(h) \/ RenameReplay(h)
    BY DEF FinalizeNext, StartMatch, EndMatch, Spool, PostFails, Post, CreateReplay, Snapshot,
           Guard, CountPlayer, Record, Cleanup, CutOff, Abandon, RelayCrash, DataCrash, LoseKeys,
           files
  <2> QED BY <2>2, <2>3, <2>4, <2>5 DEF Filed
<1> QED BY <1>3, <1>4

\* An answer that removes a match's spooled replay finds it filed, and is of that match.
LEMMA KeptReply ==
    ASSUME WorkInv, UploadInv, KeptInv, FinalizeNext, NEW h \in Handlers,
           worker[h].at # "vacant", NEW m \in Matches, spool[Id[m]] = m,
           Reply(h, FALSE) \/ (Reply(h, TRUE) /\ worker[h].at \in {"guard", "cleanup"})
    PROVE  Kept(m)'
<1> DEFINE k == worker[h].match
<1>1. k \in Matches /\ Id[k] \in Ids /\ Id[m] \in Ids /\ spool \in [Ids -> Contents]
  BY WorkerFields, FinalizeConstants DEF WorkInv, FinalizeTypeOK
<1>2. CASE UNCHANGED spool
  BY <1>2 DEF Kept
<1>3. CASE /\ worker[h].heard /\ worker[h].at \in {"guard", "cleanup"}
           /\ spool' = [spool EXCEPT ![Id[k]] = Nil]
  <2>1. CASE Id[m] # Id[k]
    BY <1>1, <1>3, <2>1 DEF Kept
  <2>2. CASE Id[m] = Id[k]
    <3>1. spool[Id[k]] \in {k, Torn}
      BY <1>1, <1>3 DEF UploadInv, HeardOnce, Heard, Spooled, Uploading
    <3>2. m = k
      BY <2>2, <3>1, FinalizeConstants
    <3>3. Filed(m)
      BY <1>3, <3>2 DEF KeptInv, BeyondFiled
    <3> QED BY <3>3, FiledStays DEF Kept
  <2> QED BY <2>1, <2>2
<1> QED BY <1>2, <1>3 DEF Reply

LEMMA PostedStaysKept ==
    ASSUME WorkInv, UploadInv, KeptInv, FinalizeNext
    PROVE  PostedKept'
<1> SUFFICES ASSUME NEW m \in Matches, posts'[m] > 0
             PROVE  Kept(m)'
  BY DEF PostedKept
<1>1. posts \in [Matches -> 0..Tries] /\ Id[m] \in Ids /\ spool \in [Ids -> Contents]
  BY FinalizeConstants DEF WorkInv, FinalizeTypeOK
<1>2. CASE Filed(m)
  BY <1>2, FiledStays DEF Kept
<1>3. CASE ~Filed(m)
  <2>1. ASSUME NEW n \in Matches,
               PostFails(n) \/ \E h \in Handlers : Post(n, h), posts[m] = 0
        PROVE  UNCHANGED spool /\ spool[Id[m]] = m
    <3>1. progress[n] = "sending" /\ UNCHANGED spool /\ posts' = [posts EXCEPT ![n] = @ + 1]
      BY <2>1 DEF PostFails, Post
    <3>2. m = n
      BY <1>1, <2>1, <3>1
    <3> QED BY <1>3, <3>1, <3>2 DEF UploadInv, Spooled, Uploading, Filed
  <2>2. posts[m] > 0 \/ \E n \in Matches : PostFails(n) \/ \E h \in Handlers : Post(n, h)
    BY <1>1 DEF FinalizeNext, StartMatch, EndMatch, Spool, CreateReplay, WriteReplay,
       RenameReplay, Snapshot, Guard, CountPlayer, Record, Cleanup, CutOff, Abandon, RelayCrash,
       DataCrash, LoseKeys
  <2>3. CASE posts[m] = 0
    BY <2>1, <2>2, <2>3 DEF Kept
  <2>4. CASE posts[m] > 0
    <3>1. spool[Id[m]] = m
      BY <1>3, <2>4 DEF KeptInv, PostedKept, Kept
    <3>2. CASE UNCHANGED spool
      BY <3>1, <3>2 DEF Kept
    <3>3. ASSUME NEW n \in Matches, Spool(n)
          PROVE  Kept(m)'
      <4>1. m # n
        BY <2>4, <3>3 DEF Spool, UploadInv, Unposted
      <4>2. CASE Id[n] = Id[m] /\ ~(UNCHANGED spool)
        BY <3>1, <3>3, <4>1, <4>2 DEF Spool, Displace, Kept, Filed
      <4>3. CASE Id[n] # Id[m] /\ ~(UNCHANGED spool)
        BY <1>1, <3>1, <3>3, <4>3 DEF Spool, Kept
      <4> QED BY <3>2, <4>2, <4>3
    <3>4. ASSUME NEW h \in Handlers, Serving(h)
          PROVE  Kept(m)'
      BY <3>1, <3>2, <3>4, ServingStep, KeptReply
    <3>5. \/ UNCHANGED spool
          \/ \E n \in Matches : Spool(n)
          \/ \E h \in Handlers : Serving(h)
      BY DEF FinalizeNext, Serving, StartMatch, EndMatch, PostFails, Post, CutOff, Abandon,
             RelayCrash, DataCrash, LoseKeys
    <3> QED BY <3>2, <3>3, <3>4, <3>5
  <2> QED BY <1>1, <2>3, <2>4
<1> QED BY <1>2, <1>3

\* Every step but a handler's leaves the handlers where they are, or puts them aside or at
\* their beginning, and the temporary files alone.
LEMMA HandlersRest ==
    ASSUME WorkInv, FinalizeNext, \A h \in Handlers : ~Serving(h)
    PROVE  /\ UNCHANGED <<temp, shared>>
           /\ \A h \in Handlers :
                  \/ worker'[h].at \in {"vacant", "replay"}
                  \/ worker'[h].at = worker[h].at /\ worker'[h].match = worker[h].match
<1>1. worker \in [Handlers -> Workers]
  BY DEF WorkInv, FinalizeTypeOK, Workers
<1>2. \/ \E m \in Matches : StartMatch(m) \/ EndMatch(m) \/ Spool(m) \/ PostFails(m)
      \/ \E m \in Matches, h \in Handlers : Post(m, h)
      \/ \E h \in Handlers : CutOff(h) \/ Abandon(h)
      \/ RelayCrash \/ DataCrash \/ LoseKeys
  BY DEF FinalizeNext, Serving
<1>3. UNCHANGED <<temp, shared>>
  BY <1>2 DEF StartMatch, EndMatch, Spool, PostFails, Post, CutOff, Abandon, RelayCrash, DataCrash,
              LoseKeys, files, past
<1>4. CASE UNCHANGED worker
  BY <1>3, <1>4
<1>5. ASSUME NEW m \in Matches, NEW g \in Handlers, Post(m, g)
      PROVE  worker'[g].at = "replay" /\ \A h \in Handlers \ {g} : worker'[h] = worker[h]
  BY <1>1, <1>5 DEF Post
<1>6. ASSUME NEW g \in Handlers, CutOff(g)
      PROVE  /\ worker'[g].at = worker[g].at /\ worker'[g].match = worker[g].match
             /\ \A h \in Handlers \ {g} : worker'[h] = worker[h]
  BY <1>1, <1>6 DEF CutOff, Workers
<1>7. ASSUME NEW g \in Handlers, Abandon(g)
      PROVE  worker'[g].at = "vacant" /\ \A h \in Handlers \ {g} : worker'[h] = worker[h]
  BY <1>1, <1>7 DEF Abandon, Spare
<1>8. CASE RelayCrash
  <2>1. \A h \in Handlers : worker'[h].at = worker[h].at /\ worker'[h].match = worker[h].match
    BY <1>1, <1>8 DEF RelayCrash, Workers
  <2> QED BY <1>3, <2>1
<1>9. CASE DataCrash
  BY <1>3, <1>9 DEF DataCrash, Spare
<1>10. \/ UNCHANGED worker
       \/ \E m \in Matches, g \in Handlers : Post(m, g)
       \/ \E g \in Handlers : CutOff(g) \/ Abandon(g)
       \/ RelayCrash \/ DataCrash
  BY <1>2 DEF StartMatch, EndMatch, Spool, PostFails, LoseKeys
<1> QED BY <1>3, <1>4, <1>5, <1>6, <1>7, <1>8, <1>9, <1>10

\* What a handler does to itself and to the temporary file of its id.
LEMMA HandlerMoves ==
    ASSUME WorkInv, NEW h \in Handlers, Serving(h)
    PROVE  /\ \A g \in Handlers \ {h} : worker'[g] = worker[g]
           /\ worker'[h].at # "vacant" => worker'[h].match = worker[h].match
           /\ \A i \in Ids \ {Id[worker[h].match]} : temp'[i] = temp[i]
           /\ \/ worker'[h].at = "vacant" /\ temp'[Id[worker[h].match]] \in {temp[Id[worker[h].match]], Nil}
              \/ CreateReplay(h) /\ worker'[h].at = "write"
              \/ WriteReplay(h) /\ worker'[h].at = "rename"
              \/ RenameReplay(h) /\ worker'[h].at = "snapshot"
              \/ /\ worker[h].at \in {"snapshot", "guard", "players", "record"}
                 /\ worker'[h].at \in {"guard", "players", "record", "cleanup"}
                 /\ UNCHANGED temp
<1>1. worker \in [Handlers -> Workers] /\ worker[h].at # "vacant" /\ temp \in [Ids -> Contents]
  BY ServingStep DEF WorkInv, FinalizeTypeOK, Workers
<1>2. Id[worker[h].match] \in Ids
  BY <1>1, WorkerFields
<1>3. ASSUME NEW ok \in BOOLEAN, Reply(h, ok)
      PROVE  worker'[h].at = "vacant" /\ \A g \in Handlers \ {h} : worker'[g] = worker[g]
  BY <1>1, <1>3 DEF Reply, Spare
<1>4. ASSUME NEW at \in Awaits, Onward(h, at)
      PROVE  /\ worker'[h].at = at /\ worker'[h].match = worker[h].match
             /\ \A g \in Handlers \ {h} : worker'[g] = worker[g]
  BY <1>1, <1>4 DEF Onward, Workers
<1>5. ASSUME NextPlayer(h), worker[h].at = "players"
      PROVE  /\ worker'[h].at \in {"players", "record"} /\ worker'[h].match = worker[h].match
             /\ \A g \in Handlers \ {h} : worker'[g] = worker[g]
  BY <1>1, <1>5 DEF NextPlayer, Workers
<1>6. CASE CreateReplay(h)
  <2>1. CASE /\ temp' = [temp EXCEPT ![Id[worker[h].match]] = Torn] /\ Onward(h, "write")
    BY <1>1, <1>2, <1>4, <1>6, <2>1 DEF Awaits
  <2>2. CASE ReplayFails(h)
    BY <1>1, <1>2, <1>3, <2>2 DEF ReplayFails
  <2> QED BY <1>6, <2>1, <2>2 DEF CreateReplay
<1>7. CASE WriteReplay(h)
  <2>1. CASE /\ \E c \in Contents \cup {Nil} : temp' = [temp EXCEPT ![Id[worker[h].match]] = c]
             /\ Onward(h, "rename")
    BY <1>1, <1>2, <1>4, <1>7, <2>1 DEF Awaits
  <2>2. CASE ReplayFails(h)
    BY <1>1, <1>2, <1>3, <2>2 DEF ReplayFails
  <2>3. temp[Id[worker[h].match]] \in Contents /\ worker[h].match \in Contents
    BY <1>1, <1>2, WorkerFields DEF Contents
  <2>4. Overwritten(temp[Id[worker[h].match]], worker[h].match) \subseteq Contents
    BY <2>3 DEF Overwritten, Contents
  <2> QED BY <1>7, <2>1, <2>2, <2>3, <2>4 DEF WriteReplay, Contents
<1>8. CASE RenameReplay(h)
  <2>1. CASE temp' = [temp EXCEPT ![Id[worker[h].match]] = Nil] /\ Onward(h, "snapshot")
    BY <1>1, <1>2, <1>4, <1>8, <2>1 DEF Awaits
  <2>2. CASE ReplayFails(h)
    BY <1>1, <1>2, <1>3, <2>2 DEF ReplayFails
  <2>3. CASE Reply(h, FALSE) /\ UNCHANGED temp
    BY <1>1, <1>2, <1>3, <2>3
  <2> QED BY <1>8, <2>1, <2>2, <2>3 DEF RenameReplay, files
<1>9. CASE Snapshot(h) \/ Guard(h) \/ CountPlayer(h) \/ Record(h) \/ Cleanup(h)
  <2>1. UNCHANGED temp
    BY <1>9 DEF Snapshot, Guard, CountPlayer, Record, Cleanup, files
  <2>2. \/ Reply(h, FALSE) \/ Reply(h, TRUE)
        \/ /\ worker[h].at \in {"snapshot", "guard", "players", "record"}
           /\ \/ \E at \in {"guard", "players", "cleanup"} : Onward(h, at)
              \/ NextPlayer(h) /\ worker[h].at = "players"
    BY <1>9 DEF Snapshot, Guard, Settle, CountPlayer, Record, Cleanup
  <2> QED BY <1>3, <1>4, <1>5, <2>1, <2>2 DEF Awaits
<1> QED BY <1>6, <1>7, <1>8, <1>9 DEF Serving

LEMMA BeyondStaysFiled ==
    ASSUME WorkInv, KeptInv, FinalizeNext
    PROVE  BeyondFiled'
<1> DEFINE Far == {"snapshot", "guard", "players", "record", "cleanup"}
<1> SUFFICES ASSUME NEW g \in Handlers, worker'[g].at \in Far
             PROVE  Filed(worker[g].match)'
  BY DEF BeyondFiled
<1>1. ASSUME NEW m \in Matches, Filed(m)', worker'[g].match = m
      PROVE  Filed(worker[g].match)'
  BY <1>1 DEF Filed
<1>2. ASSUME worker[g].at \in Far, worker'[g].match = worker[g].match
      PROVE  Filed(worker[g].match)'
  <2>1. PICK m \in Matches : m = worker[g].match
    BY <1>2, WorkerFields
  <2>2. Filed(m)
    BY <1>2, <2>1 DEF KeptInv, BeyondFiled
  <2>3. Filed(m)'
    BY <2>2, FiledStays
  <2> QED BY <1>1, <1>2, <2>1, <2>3
<1>3. CASE \A h \in Handlers : ~Serving(h)
  BY <1>2, <1>3, HandlersRest
<1>4. ASSUME NEW h \in Handlers, Serving(h)
      PROVE  Filed(worker[g].match)'
  <2>1. CASE g # h
    BY <1>2, <1>4, <2>1, HandlerMoves
  <2>2. CASE g = h /\ RenameReplay(h) /\ worker'[h].at = "snapshot"
    <3>1. PICK m \in Matches : m = worker[h].match
      BY <1>4, ServingStep, WorkerFields
    <3>2. worker'[h].match = m
      BY <1>4, <2>2, <3>1, HandlerMoves
    <3>3. /\ worker[h].at = "rename" /\ temp[Id[m]] # Nil /\ UNCHANGED shared
          /\ archive' = [archive EXCEPT ![Id[m]] = temp[Id[m]]]
      <4>1. ~Reply(h, FALSE)
        <5>1. SUFFICES ASSUME Reply(h, FALSE) PROVE worker'[h].at = "vacant"
          BY <2>2
        <5> QED BY <5>1 DEF Reply, Spare, WorkInv, FinalizeTypeOK
      <4> QED BY <2>2, <3>1, <4>1 DEF RenameReplay, ReplayFails
    <3>4. archive'[Id[m]] = m \/ Id[m] \in shared
      BY <3>1, <3>3, FinalizeConstants DEF KeptInv, OwnTemp, WorkInv, FinalizeTypeOK
    <3> QED BY <1>1, <2>2, <3>2, <3>3, <3>4 DEF Filed
  <2>3. CASE /\ g = h /\ worker[h].at \in Far /\ worker'[h].match = worker[h].match
    BY <1>2, <2>3
  <2> QED BY <1>4, <2>1, <2>2, <2>3, HandlerMoves
<1> QED BY <1>3, <1>4

LEMMA TempStays ==
    ASSUME WorkInv, KeptInv, FinalizeNext
    PROVE  OneReplaces' /\ OwnTemp'
<1> DEFINE At(h) == worker[h].at
           Of(h) == Id[worker[h].match]
<1>0. \A h \in Handlers : At(h) # "vacant" => worker[h].match \in Matches /\ Of(h) \in Ids
  BY WorkerFields, FinalizeConstants
<1>1. shared \subseteq shared'
  BY PastGrows
<1>2. CASE \A h \in Handlers : ~Serving(h)
  <2>1. /\ UNCHANGED <<temp, shared>>
        /\ \A h \in Handlers : At(h)' \in {"write", "rename"} =>
               At(h)' = At(h) /\ worker'[h].match = worker[h].match
    BY <1>2, HandlersRest
  <2> QED BY <2>1 DEF KeptInv, OneReplaces, OwnTemp, Replacing
<1>3. ASSUME NEW h \in Handlers, Serving(h)
      PROVE  OneReplaces' /\ OwnTemp'
  <2> DEFINE m == worker[h].match
             i == Id[m]
  <2>1. /\ \A g \in Handlers \ {h} : worker'[g] = worker[g]
        /\ At(h)' # "vacant" => worker'[h].match = m
        /\ \A j \in Ids \ {i} : temp'[j] = temp[j]
    BY <1>3, HandlerMoves
  <2>2. m \in Matches /\ i \in Ids /\ temp \in [Ids -> Contents]
    BY <1>0, <1>3, ServingStep DEF WorkInv, FinalizeTypeOK
  <2>3. ASSUME CreateReplay(h), worker'[h].at = "write", NEW g \in Handlers, Replacing(g),
               Of(g) = i
        PROVE  i \in shared'
    <3>1. CASE ReplayFails(h)
      <4>1. worker'[h].at = "vacant"
        BY <3>1 DEF ReplayFails, Reply, Spare, WorkInv, FinalizeTypeOK
      <4> QED BY <2>3, <4>1
    <3>2. CASE ~ReplayFails(h)
      BY <2>3, <3>2 DEF CreateReplay
    <3> QED BY <3>1, <3>2
  <2>4. WriteReplay(h) \/ RenameReplay(h) => Replacing(h)
    BY DEF WriteReplay, RenameReplay, Replacing
  <2>5. OneReplaces'
    <3>1. \A g \in Handlers \ {h} : /\ Replacing(g)' <=> Replacing(g)
                                     /\ Of(g)' = Of(g)
      BY <2>1 DEF Replacing
    <3>2. Replacing(h)' => Of(h)' = i
      BY <2>1 DEF Replacing
    <3>3. CASE Replacing(h)' => Replacing(h)
      BY <1>1, <3>1, <3>2, <3>3 DEF KeptInv, OneReplaces
    <3>4. CASE CreateReplay(h) /\ worker'[h].at = "write"
      <4>1. ASSUME NEW g \in Handlers \ {h}, Replacing(g), Of(g) = i
            PROVE  i \in shared'
        BY <2>3, <3>4, <4>1
      <4> QED BY <1>1, <3>1, <3>2, <4>1 DEF KeptInv, OneReplaces
    <3>5. \/ CreateReplay(h) /\ worker'[h].at = "write"
          \/ Replacing(h)' => Replacing(h)
      BY <1>3, <2>4, HandlerMoves DEF Replacing
    <3> QED BY <3>3, <3>4, <3>5
  <2>6. OwnTemp'
    <3> SUFFICES ASSUME NEW g \in Handlers, At(g)' = "rename", Of(g)' \notin shared'
                 PROVE  temp'[Of(g)'] \in {Nil, worker'[g].match}
      BY DEF OwnTemp
    <3>1. CASE g = h
      <4>1. worker'[h].match = m /\ i \notin shared
        BY <1>1, <2>1, <3>1
      <4>2. WriteReplay(h)
        BY <1>3, <3>1, HandlerMoves
      <4>3. ~ReplayFails(h)
        <5>1. SUFFICES ASSUME ReplayFails(h) PROVE worker'[h].at = "vacant"
          BY <3>1
        <5> QED BY <5>1 DEF ReplayFails, Reply, Spare, WorkInv, FinalizeTypeOK
      <4>4. temp'[i] \in {Nil, m}
        BY <2>2, <4>1, <4>2, <4>3 DEF WriteReplay
      <4> QED BY <3>1, <4>1, <4>4
    <3>2. CASE g # h
      <4>1. /\ worker'[g] = worker[g] /\ At(g) = "rename" /\ Of(g) \notin shared
            /\ Of(g) \in Ids /\ Replacing(g)
        BY <1>0, <1>1, <2>1, <3>2 DEF Replacing
      <4>2. temp[Of(g)] \in {Nil, worker[g].match}
        BY <4>1 DEF KeptInv, OwnTemp
      <4>3. CASE Of(g) # i
        BY <2>1, <4>1, <4>2, <4>3
      <4>4. CASE Of(g) = i
        <5>1. ~Replacing(h)
          BY <3>2, <4>1, <4>4 DEF KeptInv, OneReplaces
        <5>2. ~(CreateReplay(h) /\ worker'[h].at = "write")
          BY <2>3, <4>1, <4>4
        <5>3. temp'[i] \in {temp[i], Nil}
          BY <1>3, <2>4, <5>1, <5>2, HandlerMoves
        <5> QED BY <4>1, <4>2, <4>4, <5>3
      <4> QED BY <4>3, <4>4
    <3> QED BY <3>1, <3>2
  <2> QED BY <2>5, <2>6
<1> QED BY <1>2, <1>3

\* From the first post on, a match's replay is whole in the spool or in the archive, unless
\* a match of the same id took one of its files or two requests of the id wrote the
\* temporary file at once (sow-relay/src/main.rs:1001, sow-data/src/main.rs:2633).
THEOREM ReplayIsKept == FinalizeSpec => []ReplayKept
<1>1. FinalizeInit => WorkInv /\ UploadInv /\ KeptInv
  BY WorkInvInit, FinalizeConstants
     DEF FinalizeInit, UploadInv, Journaled, Unposted, OneUpload, Uploading, Spooled, HeardOnce,
         Heard, Spare, KeptInv, PostedKept, BeyondFiled, OneReplaces, OwnTemp, Replacing
<1>2. ASSUME WorkInv, UploadInv, KeptInv, [FinalizeNext]_finalizeVars
      PROVE  UploadInv' /\ KeptInv'
  <2>1. CASE FinalizeNext
    BY <1>2, <2>1, UploadStep, PostedStaysKept, BeyondStaysFiled, TempStays DEF KeptInv
  <2>2. CASE UNCHANGED finalizeVars
    BY <1>2, <2>2
       DEF finalizeVars, UploadInv, Journaled, Unposted, OneUpload, Uploading, Spooled,
           HeardOnce, Heard, KeptInv, PostedKept, Kept, Filed, BeyondFiled, OneReplaces, OwnTemp,
           Replacing
  <2> QED BY <1>2, <2>1, <2>2
<1>3. KeptInv => ReplayKept
  BY DEF KeptInv, PostedKept, Kept, Filed, ReplayKept
<1> QED BY <1>1, <1>2, <1>3, WorkInvariant, PTL DEF FinalizeSpec

--------------------------------------------------------------------------------
(* AccountStore: the closures.                                                                *)

Priced == Skins \cup Leaders

LEMMA Prices ==
    /\ \A i \in Priced : Price[i] \in Nat
    /\ \A e \in Events : Worth[e] \in Nat
    /\ Gift \in Nat /\ Reward \in Nat /\ Attempts \in Nat \ {0}
    /\ Free \cap Priced = {}
    /\ Absent \notin Accounts
BY AccountAssumption DEF Priced

\* What an operation has, by its kind.
LEMMA Fields ==
    ASSUME NEW o \in Updates
    PROVE  /\ o.kind \in {"unlock", "equip", "grant", "revoke", "mint", "tutorial", "outcome"}
           /\ o.kind = "unlock" =>
                 /\ o.item \in Items
                 /\ o.item \in Skins => o.purse = "gems"
                 /\ o.purse \in {"gems", "laurels"}
           /\ o.kind = "equip" => o.item \in Skins \cup {Bare}
           /\ o.kind = "grant" => o.event \in Grants
           /\ o.kind = "revoke" => o.event \in Refunds
           /\ o.kind = "mint" => o.secret \in Secrets
BY AccountAssumption DEF Updates, Items

LEMMA AccountFields ==
    ASSUME NEW a \in Accounts
    PROVE  /\ a.gems \in Nat /\ a.laurels \in Nat /\ a.matches \in Nat
           /\ a.owned \subseteq Items /\ a.worn \in Skins \cup {Bare}
           /\ a.events \subseteq Events /\ a.secret \in Secrets \cup {NoSecret}
           /\ a.intro \in BOOLEAN
BY DEF Accounts

\* Accounts that differ in what a closure changes.
LEMMA Purchased ==
    ASSUME NEW a \in Accounts, NEW n \in Nat, NEW i \in Items
    PROVE  /\ [a EXCEPT !.gems = n, !.owned = a.owned \cup {i}] \in Accounts
           /\ [a EXCEPT !.laurels = n, !.owned = a.owned \cup {i}] \in Accounts
BY DEF Accounts

LEMMA Credited ==
    ASSUME NEW a \in Accounts, NEW n \in Nat, NEW e \in Events
    PROVE  [a EXCEPT !.events = a.events \cup {e}, !.gems = n] \in Accounts
BY DEF Accounts

LEMMA Rewarded ==
    ASSUME NEW a \in Accounts, NEW n \in Nat, NEW m \in Nat
    PROVE  /\ [a EXCEPT !.intro = TRUE, !.laurels = n] \in Accounts
           /\ [a EXCEPT !.matches = m, !.laurels = n] \in Accounts
BY DEF Accounts

\* What each closure changes, where it changes anything; the result is an account.
LEMMA UnlockEffect ==
    ASSUME NEW o \in Updates, o.kind = "unlock", NEW a \in Accounts, Unlockable(o, a)
    PROVE  /\ Effect(o, a) \in Accounts
           /\ o.item \in Priced
           /\ Effect(o, a).owned = a.owned \cup {o.item}
           /\ Effect(o, a).events = a.events
           /\ Effect(o, a).intro = a.intro /\ Effect(o, a).matches = a.matches
           /\ \/ /\ o.purse = "gems"
                 /\ Effect(o, a).gems = a.gems - Price[o.item]
                 /\ Effect(o, a).laurels = a.laurels
              \/ /\ o.purse = "laurels" /\ o.item \notin Skins
                 /\ Effect(o, a).laurels = a.laurels - Price[o.item]
                 /\ Effect(o, a).gems = a.gems
<1>1. /\ o.item \in Items /\ (o.item \in Skins => o.purse = "gems")
      /\ o.purse \in {"gems", "laurels"}
  BY Fields
<1>2. o.item \in Priced /\ Price[o.item] \in Nat
  BY <1>1, Prices DEF Unlockable, Items, Priced
<1>3. Effect(o, a) = [a EXCEPT ![o.purse] = @ - Price[o.item], !.owned = @ \cup {o.item}]
  BY DEF Effect, Unlock
<1>4. a.gems \in Nat /\ a.laurels \in Nat /\ a[o.purse] >= Price[o.item]
  BY AccountFields DEF Unlockable
<1>7. PICK i \in Items : i = o.item
  BY <1>1
<1>5. CASE o.purse = "gems"
  <2>1. PICK n \in Nat : n = a.gems - Price[o.item]
    BY <1>2, <1>4, <1>5
  <2>2. Effect(o, a) = [a EXCEPT !.gems = n, !.owned = a.owned \cup {i}]
    BY <1>3, <1>5, <1>7, <2>1
  <2>4. [a EXCEPT !.gems = n, !.owned = a.owned \cup {i}] \in Accounts
    BY Purchased
  <2>3. Effect(o, a) \in Accounts
    BY <2>2, <2>4
  <2> QED BY <1>2, <1>5, <1>7, <2>1, <2>2, <2>3 DEF Accounts
<1>6. CASE o.purse = "laurels"
  <2>1. PICK n \in Nat : n = a.laurels - Price[o.item]
    BY <1>2, <1>4, <1>6
  <2>2. Effect(o, a) = [a EXCEPT !.laurels = n, !.owned = a.owned \cup {i}]
    BY <1>3, <1>6, <1>7, <2>1
  <2>4. [a EXCEPT !.laurels = n, !.owned = a.owned \cup {i}] \in Accounts
    BY Purchased
  <2>3. Effect(o, a) \in Accounts
    BY <2>2, <2>4
  <2> QED BY <1>1, <1>2, <1>6, <1>7, <2>1, <2>2, <2>3 DEF Accounts
<1> QED BY <1>1, <1>5, <1>6

LEMMA GrantEffect ==
    ASSUME NEW o \in Updates, o.kind = "grant", NEW a \in Accounts, o.event \notin a.events
    PROVE  /\ Effect(o, a) \in Accounts
           /\ o.event \in Grants
           /\ Effect(o, a).events = a.events \cup {o.event}
           /\ Effect(o, a).gems = a.gems + Worth[o.event]
           /\ Effect(o, a).laurels = a.laurels /\ Effect(o, a).owned = a.owned
           /\ Effect(o, a).intro = a.intro /\ Effect(o, a).matches = a.matches
<1>1. o.event \in Grants /\ o.event \in Events
  BY Fields DEF Events
<1>2. PICK n \in Nat : n = a.gems + Worth[o.event]
  BY <1>1, Prices, AccountFields
<1>6. PICK e \in Events : e = o.event
  BY <1>1
<1>3. Effect(o, a) = [a EXCEPT !.events = a.events \cup {e}, !.gems = n]
  BY <1>2, <1>6 DEF Effect, Grant
<1>4. Effect(o, a) \in Accounts
  <2>1. [a EXCEPT !.events = a.events \cup {e}, !.gems = n] \in Accounts
    BY Credited
  <2> QED BY <1>3, <2>1
<1> QED BY <1>1, <1>2, <1>3, <1>4, <1>6 DEF Accounts

LEMMA RevokeEffect ==
    ASSUME NEW o \in Updates, o.kind = "revoke", NEW a \in Accounts, o.event \notin a.events
    PROVE  /\ Effect(o, a) \in Accounts
           /\ o.event \in Refunds /\ Worth[o.event] \in Nat
           /\ Effect(o, a).events = a.events \cup {o.event}
           /\ Effect(o, a).gems <= a.gems /\ a.gems <= Effect(o, a).gems + Worth[o.event]
           /\ Effect(o, a).laurels = a.laurels /\ Effect(o, a).owned = a.owned
           /\ Effect(o, a).intro = a.intro /\ Effect(o, a).matches = a.matches
<1>1. o.event \in Refunds /\ o.event \in Events /\ Worth[o.event] \in Nat /\ a.gems \in Nat
  BY Fields, Prices, AccountFields DEF Events
<1>2. PICK n \in Nat : n = IF a.gems > Worth[o.event] THEN a.gems - Worth[o.event] ELSE 0
  BY <1>1
<1>6. PICK e \in Events : e = o.event
  BY <1>1
<1>3. Effect(o, a) = [a EXCEPT !.events = a.events \cup {e}, !.gems = n]
  BY <1>2, <1>6 DEF Effect, Revoke
<1>4. Effect(o, a) \in Accounts
  <2>1. [a EXCEPT !.events = a.events \cup {e}, !.gems = n] \in Accounts
    BY Credited
  <2> QED BY <1>3, <2>1
<1>5. n <= a.gems /\ a.gems <= n + Worth[o.event]
  BY <1>1, <1>2
<1> QED BY <1>1, <1>3, <1>4, <1>5, <1>6 DEF Accounts

LEMMA TutorialEffect ==
    ASSUME NEW o \in Updates, o.kind = "tutorial", NEW a \in Accounts, ~a.intro
    PROVE  /\ Effect(o, a) \in Accounts
           /\ Effect(o, a).intro = TRUE /\ Effect(o, a).laurels = a.laurels + Gift
           /\ Effect(o, a).gems = a.gems /\ Effect(o, a).owned = a.owned
           /\ Effect(o, a).events = a.events /\ Effect(o, a).matches = a.matches
<1>1. PICK n \in Nat : n = a.laurels + Gift
  BY Prices, AccountFields
<1>2. Effect(o, a) = [a EXCEPT !.intro = TRUE, !.laurels = n]
  BY <1>1 DEF Effect, Tutorial
<1>3. Effect(o, a) \in Accounts
  BY ZenonT(60), <1>2, Rewarded, Prices
<1> QED BY <1>1, <1>2, <1>3 DEF Accounts

LEMMA OutcomeEffect ==
    ASSUME NEW o \in Updates, o.kind = "outcome", NEW a \in Accounts
    PROVE  /\ Effect(o, a) \in Accounts
           /\ Effect(o, a).matches = a.matches + 1
           /\ Effect(o, a).laurels = a.laurels + Reward
           /\ Effect(o, a).gems = a.gems /\ Effect(o, a).owned = a.owned
           /\ Effect(o, a).events = a.events /\ Effect(o, a).intro = a.intro
<1>1. PICK n \in Nat : n = a.laurels + Reward
  BY Prices, AccountFields
<1>2. PICK m \in Nat : m = a.matches + 1
  BY AccountFields
<1>3. Effect(o, a) = [a EXCEPT !.matches = m, !.laurels = n]
  BY <1>1, <1>2 DEF Effect, Outcome
<1>4. Effect(o, a) \in Accounts
  BY <1>3 DEF Accounts
<1> QED BY <1>1, <1>2, <1>3, <1>4 DEF Accounts

\* The other closures, and those that refuse, leave purses, items and events alone.
Keeps(o, a) ==
    \/ o.kind = "unlock" /\ ~Unlockable(o, a)
    \/ o.kind \in {"equip", "mint"}
    \/ o.kind \in {"grant", "revoke"} /\ o.event \in a.events
    \/ o.kind = "tutorial" /\ a.intro

LEMMA KeptEffect ==
    ASSUME NEW o \in Updates, NEW a \in Accounts, Keeps(o, a)
    PROVE  /\ Effect(o, a) \in Accounts
           /\ Effect(o, a).gems = a.gems /\ Effect(o, a).laurels = a.laurels
           /\ Effect(o, a).owned = a.owned /\ Effect(o, a).events = a.events
           /\ Effect(o, a).intro = a.intro /\ Effect(o, a).matches = a.matches
<1>1. CASE o.kind = "equip"
  <2>1. o.item \in Skins \cup {Bare} /\ (Effect(o, a) = a \/ Effect(o, a) = [a EXCEPT !.worn = o.item])
    BY <1>1, Fields DEF Effect, Equip
  <2> QED BY <2>1 DEF Accounts
<1>2. CASE o.kind = "mint"
  <2>1. o.secret \in Secrets /\ (Effect(o, a) = a \/ Effect(o, a) = [a EXCEPT !.secret = o.secret])
    BY <1>2, Fields DEF Effect, Mint
  <2> QED BY <2>1 DEF Accounts
<1>3. CASE o.kind \notin {"equip", "mint"}
  BY <1>3 DEF Keeps, Effect, Unlock, Grant, Revoke, Tutorial
<1> QED BY <1>1, <1>2, <1>3

\* Every update is one of these.
LEMMA EffectCases ==
    ASSUME NEW o \in Updates, NEW a
    PROVE  \/ Keeps(o, a)
           \/ o.kind = "unlock" /\ Unlockable(o, a)
           \/ o.kind \in {"grant", "revoke"} /\ o.event \notin a.events
           \/ o.kind = "tutorial" /\ ~a.intro
           \/ o.kind = "outcome"
BY Fields DEF Keeps

LEMMA EffectType ==
    ASSUME NEW o \in Updates, NEW a \in Accounts
    PROVE  Effect(o, a) \in Accounts
BY EffectCases, KeptEffect, UnlockEffect, GrantEffect, RevokeEffect, TutorialEffect, OutcomeEffect

\* None of the updates takes back what was gained before.
LEMMA EffectLasts ==
    ASSUME NEW o \in Updates, NEW a \in Accounts
    PROVE  Lasts(a, Effect(o, a))
<1>1. CASE Keeps(o, a)
  BY <1>1, KeptEffect, AccountFields DEF Lasts
<1>2. CASE o.kind = "unlock" /\ Unlockable(o, a)
  BY <1>2, UnlockEffect, AccountFields DEF Lasts
<1>3. CASE o.kind = "grant" /\ o.event \notin a.events
  BY <1>3, GrantEffect, AccountFields DEF Lasts
<1>4. CASE o.kind = "revoke" /\ o.event \notin a.events
  BY <1>4, RevokeEffect, AccountFields DEF Lasts
<1>5. CASE o.kind = "tutorial" /\ ~a.intro
  <2> DEFINE b == Effect(o, a)
  <2>1. b.owned = a.owned /\ b.events = a.events /\ b.matches = a.matches
    BY <1>5, TutorialEffect
  <2>2. a.matches <= a.matches
    BY AccountFields
  <2> HIDE DEF b
  <2>3. Lasts(a, b)
    BY <1>5, <2>1, <2>2 DEF Lasts
  <2> QED BY <2>3 DEF b
<1>6. CASE o.kind = "outcome"
  <2>1. a.matches <= a.matches + 1
    BY AccountFields
  <2> QED BY <1>6, <2>1, OutcomeEffect DEF Lasts
<1> QED BY <1>1, <1>2, <1>3, <1>4, <1>5, <1>6, EffectCases
--------------------------------------------------------------------------------
(* The books.                                                                   *)

\* The items in bought were paid in gems, the other owned items in laurels.
Split(a, bought) ==
    /\ bought \subseteq a.owned
    /\ a.owned \cap Skins \subseteq bought
    /\ a.gems + Cost(bought) <= Valued(a.events \cap Grants)
    /\ Valued(a.events \cap Grants)
         <= a.gems + Cost(bought) + Valued(a.events \cap Refunds)
    /\ a.laurels + Cost(a.owned \ bought)
         = (IF a.intro THEN Gift ELSE 0) + a.matches * Reward

LEMMA BalancedIsSplit ==
    ASSUME NEW a
    PROVE  Balanced(a) <=> \E bought : Split(a, bought)
BY DEF Balanced, Split

\* An account whose books balance and that owns finitely many items, all sold.
Sound(a) ==
    /\ a \in Accounts
    /\ a.owned \subseteq Priced /\ IsFiniteSet(a.owned)
    /\ IsFiniteSet(a.events)
    /\ Balanced(a)

LEMMA NewSound == NewAccount \in Accounts /\ Sound(NewAccount)
<1>1. NewAccount \in Accounts
  BY DEF NewAccount, Accounts
<1>2. /\ NewAccount.owned = {} /\ NewAccount.events = {} /\ NewAccount.gems = 0
      /\ NewAccount.laurels = 0 /\ NewAccount.intro = FALSE /\ NewAccount.matches = 0
  BY DEF NewAccount
<1>3. Cost({}) = 0 /\ Valued({}) = 0
  BY SumEmpty DEF Cost, Valued
<1>4. {} \cap Grants = {} /\ {} \cap Refunds = {} /\ {} \cap Skins = {} /\ {} \ {} = {}
  OBVIOUS
<1>5. 0 * Reward = 0
  BY Prices
<1>6. Split(NewAccount, {})
  BY <1>2, <1>3, <1>4, <1>5 DEF Split
<1> QED BY <1>1, <1>2, <1>6, BalancedIsSplit, FS_EmptySet DEF Sound

\* The sums of a sound account, and what one more item or event adds to them.
LEMMA SumTypes ==
    ASSUME NEW S, IsFiniteSet(S)
    PROVE  /\ S \subseteq Priced => Cost(S) \in Nat
           /\ S \subseteq Events => Valued(S) \in Nat
BY SumNat, Prices DEF Cost, Valued

LEMMA CostMore ==
    ASSUME NEW S, IsFiniteSet(S), S \subseteq Priced, NEW i \in Priced, i \notin S
    PROVE  Cost(S \cup {i}) = Price[i] + Cost(S)
BY SumAdd, Prices DEF Cost

LEMMA ValuedMore ==
    ASSUME NEW S, IsFiniteSet(S), S \subseteq Events, NEW e \in Events, e \notin S
    PROVE  Valued(S \cup {e}) = Worth[e] + Valued(S)
BY SumAdd, Prices DEF Valued

LEMMA SplitSums ==
    ASSUME NEW a, Sound(a), NEW bought, Split(a, bought)
    PROVE  /\ IsFiniteSet(bought) /\ bought \subseteq Priced /\ Cost(bought) \in Nat
           /\ IsFiniteSet(a.owned \ bought) /\ a.owned \ bought \subseteq Priced
           /\ Cost(a.owned \ bought) \in Nat
           /\ IsFiniteSet(a.events \cap Grants) /\ Valued(a.events \cap Grants) \in Nat
           /\ IsFiniteSet(a.events \cap Refunds) /\ Valued(a.events \cap Refunds) \in Nat
           /\ a.gems \in Nat /\ a.laurels \in Nat /\ a.matches \in Nat
<1>1. bought \subseteq a.owned /\ a.owned \subseteq Priced /\ a.events \subseteq Events
  BY AccountFields DEF Sound, Split
<1>2. /\ IsFiniteSet(bought) /\ IsFiniteSet(a.owned \ bought)
      /\ IsFiniteSet(a.events \cap Grants) /\ IsFiniteSet(a.events \cap Refunds)
  BY <1>1, FS_Subset DEF Sound
<1>3. a.gems \in Nat /\ a.laurels \in Nat /\ a.matches \in Nat
  BY AccountFields DEF Sound
<1> QED BY <1>1, <1>2, <1>3, SumTypes

LEMMA SoundUnlock ==
    ASSUME NEW o \in Updates, o.kind = "unlock", NEW a, Sound(a), Unlockable(o, a)
    PROVE  Sound(Effect(o, a))
<1> DEFINE b == Effect(o, a)
           i == o.item
<1>1. a \in Accounts
  BY DEF Sound
<1>2. i \notin a.owned /\ i \in Priced /\ Price[i] \in Nat
  BY <1>1, UnlockEffect, Prices DEF Unlockable
<1>3. /\ b \in Accounts /\ b.owned = a.owned \cup {i} /\ b.events = a.events
      /\ b.intro = a.intro /\ b.matches = a.matches
  BY <1>1, UnlockEffect
<1>4. PICK bought : Split(a, bought)
  BY BalancedIsSplit DEF Sound
<1>5. a.owned \subseteq Priced /\ bought \subseteq a.owned /\ a.owned \cap Skins \subseteq bought
  BY <1>4 DEF Sound, Split
<1>10. /\ Cost(bought) \in Nat /\ Cost(a.owned \ bought) \in Nat
       /\ a.gems \in Nat /\ a.laurels \in Nat
  BY <1>4, SplitSums
<1>6. ASSUME b.gems = a.gems - Price[i], b.laurels = a.laurels
      PROVE  \E more : Split(b, more)
  <2>1. Cost(bought \cup {i}) = Price[i] + Cost(bought)
    BY <1>2, <1>4, <1>5, CostMore, SplitSums
  <2>2. b.owned \ (bought \cup {i}) = a.owned \ bought
    BY <1>2, <1>3, <1>5
  <2>3. b.gems + Cost(bought \cup {i}) = a.gems + Cost(bought)
    BY <1>2, <1>6, <1>10, <2>1
  <2>4. bought \cup {i} \subseteq b.owned /\ b.owned \cap Skins \subseteq bought \cup {i}
    BY <1>3, <1>5
  <2>5. Split(b, bought \cup {i})
    BY <1>3, <1>4, <1>6, <2>2, <2>3, <2>4 DEF Split
  <2> QED BY <2>5
<1>7. ASSUME b.laurels = a.laurels - Price[i], b.gems = a.gems, i \notin Skins
      PROVE  \E more : Split(b, more)
  <2>1. b.owned \ bought = (a.owned \ bought) \cup {i}
    BY <1>2, <1>3, <1>5
  <2>2. Cost(b.owned \ bought) = Price[i] + Cost(a.owned \ bought)
    BY <1>2, <1>4, <1>5, <2>1, CostMore, SplitSums
  <2>3. b.laurels + Cost(b.owned \ bought) = a.laurels + Cost(a.owned \ bought)
    BY <1>2, <1>7, <1>10, <2>2
  <2>4. bought \subseteq b.owned /\ b.owned \cap Skins \subseteq bought
    BY <1>3, <1>5, <1>7
  <2>5. Split(b, bought)
    BY <1>3, <1>4, <1>7, <2>3, <2>4 DEF Split
  <2> QED BY <2>5
<1>8. \E more : Split(b, more)
  BY <1>1, <1>6, <1>7, UnlockEffect
<1>9. IsFiniteSet(b.owned) /\ b.owned \subseteq Priced /\ IsFiniteSet(b.events)
  BY <1>2, <1>3, <1>5, FS_AddElement DEF Sound
<1> QED BY <1>3, <1>8, <1>9, BalancedIsSplit DEF Sound

LEMMA SoundGrant ==
    ASSUME NEW o \in Updates, o.kind = "grant", NEW a, Sound(a), o.event \notin a.events
    PROVE  Sound(Effect(o, a))
<1> DEFINE b == Effect(o, a)
           e == o.event
<1>1. a \in Accounts
  BY DEF Sound
<1>2. /\ b \in Accounts /\ e \in Grants /\ b.events = a.events \cup {e}
      /\ b.gems = a.gems + Worth[e] /\ b.laurels = a.laurels /\ b.owned = a.owned
      /\ b.intro = a.intro /\ b.matches = a.matches
  BY <1>1, GrantEffect
<1>3. e \in Events /\ e \notin Refunds /\ Worth[e] \in Nat
  BY <1>2, AccountAssumption DEF Events
<1>4. PICK bought : Split(a, bought)
  BY BalancedIsSplit DEF Sound
<1>5. /\ b.events \cap Grants = (a.events \cap Grants) \cup {e}
      /\ b.events \cap Refunds = a.events \cap Refunds
  BY <1>2, <1>3
<1>6. a.events \cap Grants \subseteq Events /\ e \notin a.events \cap Grants
  BY DEF Events
<1>7. Valued(b.events \cap Grants) = Worth[e] + Valued(a.events \cap Grants)
  BY <1>3, <1>4, <1>5, <1>6, ValuedMore, SplitSums
<1>8. /\ a.gems + Cost(bought) <= Valued(a.events \cap Grants)
      /\ Valued(a.events \cap Grants)
           <= a.gems + Cost(bought) + Valued(a.events \cap Refunds)
  BY <1>4 DEF Split
<1>9. /\ b.gems + Cost(bought) <= Valued(b.events \cap Grants)
      /\ Valued(b.events \cap Grants)
           <= b.gems + Cost(bought) + Valued(b.events \cap Refunds)
  <2>1. /\ Cost(bought) \in Nat /\ Valued(a.events \cap Grants) \in Nat
        /\ Valued(a.events \cap Refunds) \in Nat /\ a.gems \in Nat
    BY <1>4, SplitSums
  <2> QED BY <1>2, <1>3, <1>5, <1>7, <1>8, <2>1
<1>10. Split(b, bought)
  BY <1>2, <1>4, <1>9 DEF Split
<1>11. IsFiniteSet(b.owned) /\ b.owned \subseteq Priced /\ IsFiniteSet(b.events)
  BY <1>2, FS_AddElement DEF Sound
<1> QED BY <1>2, <1>10, <1>11, BalancedIsSplit DEF Sound

LEMMA SoundRevoke ==
    ASSUME NEW o \in Updates, o.kind = "revoke", NEW a, Sound(a), o.event \notin a.events
    PROVE  Sound(Effect(o, a))
<1> DEFINE b == Effect(o, a)
           e == o.event
<1>1. a \in Accounts
  BY DEF Sound
<1>2. /\ b \in Accounts /\ e \in Refunds /\ b.events = a.events \cup {e} /\ Worth[e] \in Nat
      /\ b.gems <= a.gems /\ a.gems <= b.gems + Worth[e]
      /\ b.laurels = a.laurels /\ b.owned = a.owned
      /\ b.intro = a.intro /\ b.matches = a.matches
  BY <1>1, RevokeEffect
<1>3. e \in Events /\ e \notin Grants /\ b.gems \in Nat
  BY <1>2, AccountAssumption, AccountFields DEF Events
<1>4. PICK bought : Split(a, bought)
  BY BalancedIsSplit DEF Sound
<1>5. /\ b.events \cap Refunds = (a.events \cap Refunds) \cup {e}
      /\ b.events \cap Grants = a.events \cap Grants
  BY <1>2, <1>3
<1>6. a.events \cap Refunds \subseteq Events /\ e \notin a.events \cap Refunds
  BY DEF Events
<1>7. Valued(b.events \cap Refunds) = Worth[e] + Valued(a.events \cap Refunds)
  BY <1>3, <1>4, <1>5, <1>6, ValuedMore, SplitSums
<1>8. /\ a.gems + Cost(bought) <= Valued(a.events \cap Grants)
      /\ Valued(a.events \cap Grants)
           <= a.gems + Cost(bought) + Valued(a.events \cap Refunds)
  BY <1>4 DEF Split
<1>9. /\ b.gems + Cost(bought) <= Valued(b.events \cap Grants)
      /\ Valued(b.events \cap Grants)
           <= b.gems + Cost(bought) + Valued(b.events \cap Refunds)
  <2>1. /\ Cost(bought) \in Nat /\ Valued(a.events \cap Grants) \in Nat
        /\ Valued(a.events \cap Refunds) \in Nat /\ a.gems \in Nat
    BY <1>4, SplitSums
  <2>2. Valued(b.events \cap Grants) = Valued(a.events \cap Grants)
    BY <1>5
  <2>3. Worth[e] \in Nat /\ b.gems \in Nat /\ b.gems <= a.gems /\ a.gems <= b.gems + Worth[e]
    BY <1>2, <1>3
  <2> HIDE DEF b, e
  <2> QED BY <1>7, <1>8, <2>1, <2>2, <2>3
<1>10. Split(b, bought)
  BY <1>2, <1>4, <1>9 DEF Split
<1>11. IsFiniteSet(b.owned) /\ b.owned \subseteq Priced /\ IsFiniteSet(b.events)
  BY <1>2, FS_AddElement DEF Sound
<1> QED BY <1>2, <1>10, <1>11, BalancedIsSplit DEF Sound

\* The two rewards, of the tutorial and of a match, are the laurels of the right side.
LEMMA SoundReward ==
    ASSUME NEW o \in Updates, NEW a, Sound(a),
           (o.kind = "tutorial" /\ ~a.intro) \/ o.kind = "outcome"
    PROVE  Sound(Effect(o, a))
<1> DEFINE b == Effect(o, a)
           earned(c) == (IF c.intro THEN Gift ELSE 0) + c.matches * Reward
<1>1. a \in Accounts
  BY DEF Sound
<1>2. /\ b \in Accounts /\ b.gems = a.gems /\ b.owned = a.owned /\ b.events = a.events
  <2>1. CASE o.kind = "tutorial"
    BY <1>1, <2>1, TutorialEffect
  <2>2. CASE o.kind = "outcome"
    BY <1>1, <2>2, OutcomeEffect
  <2> QED BY <2>1, <2>2
<1>3. PICK bought : Split(a, bought)
  BY BalancedIsSplit DEF Sound
<1>4. a.laurels + Cost(a.owned \ bought) = earned(a)
  BY <1>3 DEF Split
<1>5. /\ a.laurels \in Nat /\ a.matches \in Nat /\ Cost(a.owned \ bought) \in Nat
      /\ Gift \in Nat /\ Reward \in Nat
  BY <1>3, SplitSums, Prices
<1>6. ASSUME o.kind = "tutorial", ~a.intro
      PROVE  b.laurels + Cost(a.owned \ bought) = earned(b)
  <2>1. b.intro = TRUE /\ b.laurels = a.laurels + Gift /\ b.matches = a.matches
    BY <1>1, <1>6, TutorialEffect
  <2>2. a.matches * Reward \in Nat
    BY <1>5
  <2>3. b.laurels + Cost(a.owned \ bought) = Gift + a.matches * Reward
    BY <1>4, <1>5, <1>6, <2>1, <2>2
  <2> QED BY <2>1, <2>3
<1>7. ASSUME o.kind = "outcome"
      PROVE  b.laurels + Cost(a.owned \ bought) = earned(b)
  <2>1. b.matches = a.matches + 1 /\ b.laurels = a.laurels + Reward /\ b.intro = a.intro
    BY <1>1, <1>7, OutcomeEffect
  <2>2. a.matches * Reward \in Nat /\ (a.matches + 1) * Reward = a.matches * Reward + Reward
    BY <1>5
  <2>3. earned(b) = earned(a) + Reward
    BY <1>5, <2>1, <2>2
  <2> QED BY <1>4, <1>5, <2>1, <2>3
<1>8. b.laurels + Cost(a.owned \ bought) = earned(b)
  BY <1>6, <1>7
<1>9. Split(b, bought)
  BY <1>2, <1>3, <1>8 DEF Split
<1> QED BY <1>2, <1>9, BalancedIsSplit DEF Sound

\* No update unbalances the books.
LEMMA EffectSound ==
    ASSUME NEW o \in Updates, NEW a, Sound(a)
    PROVE  Sound(Effect(o, a))
<1>1. a \in Accounts
  BY DEF Sound
<1>2. CASE Keeps(o, a)
  <2> DEFINE b == Effect(o, a)
  <2>1. /\ b \in Accounts /\ b.gems = a.gems /\ b.laurels = a.laurels /\ b.owned = a.owned
        /\ b.events = a.events /\ b.intro = a.intro /\ b.matches = a.matches
    BY <1>1, <1>2, KeptEffect
  <2>2. PICK bought : Split(a, bought)
    BY BalancedIsSplit DEF Sound
  <2>3. Split(b, bought)
    BY <2>1, <2>2 DEF Split
  <2> QED BY <2>1, <2>3, BalancedIsSplit DEF Sound
<1> QED BY <1>2, EffectCases, SoundUnlock, SoundGrant, SoundRevoke, SoundReward

\* The secret is no part of the books.
LEMMA SoundSecret ==
    ASSUME NEW a, Sound(a), NEW secret \in Secrets \cup {NoSecret}
    PROVE  Sound([a EXCEPT !.secret = secret])
<1> DEFINE b == [a EXCEPT !.secret = secret]
<1>1. a \in Accounts
  BY DEF Sound
<1>2. b \in Accounts
  BY <1>1 DEF Accounts
<1>3. /\ b.gems = a.gems /\ b.laurels = a.laurels /\ b.owned = a.owned
      /\ b.events = a.events /\ b.intro = a.intro /\ b.matches = a.matches
  BY <1>1 DEF Accounts
<1>4. PICK bought : Split(a, bought)
  BY BalancedIsSplit DEF Sound
<1> HIDE DEF b
<1>5. Split(b, bought)
  BY <1>3, <1>4 DEF Split
<1>6. Sound(b)
  BY <1>2, <1>3, <1>5, BalancedIsSplit DEF Sound
<1> QED BY <1>6 DEF b

\* What a request may apply: an update, or the save of a profile whose books balance.
Applicable(o) == o \in Updates \/ (o \in Saves /\ Sound(o.profile))

LEMMA AppliedSound ==
    ASSUME NEW o, Applicable(o), NEW a, Sound(a)
    PROVE  Sound(Effect(o, a))
<1>1. CASE o \in Updates
  BY <1>1, EffectSound
<1>2. CASE o \in Saves /\ Sound(o.profile)
  <2>1. Effect(o, a) = [o.profile EXCEPT !.secret = a.secret]
    BY <1>2 DEF Saves, Effect, Save
  <2>2. a.secret \in Secrets \cup {NoSecret}
    BY AccountFields DEF Sound
  <2> QED BY <1>2, <2>1, <2>2, SoundSecret
<1> QED BY <1>1, <1>2 DEF Applicable

LEMMA AppliedLasts ==
    ASSUME NEW o, Applicable(o), o.kind # "save", NEW a \in Accounts
    PROVE  Lasts(a, Effect(o, a))
BY EffectLasts DEF Applicable, Saves
--------------------------------------------------------------------------------
(* The inductive invariant.                                                     *)

Slots == [pc : Pcs, op : Updates \cup Saves \cup {Deletion}, seen : Accounts \cup {Absent},
          refused : BOOLEAN, claimed : BOOLEAN, tries : 0..Attempts - 1]

\* A request that reads or swaps has something to apply, also the one that is held back
\* by its caller; one that swaps or mirrors has an account in hand, and one that mirrors
\* has an account whose books balance.
Good(s) ==
    /\ s \in Slots
    /\ s.pc \in {"held", "read", "swap"} => Applicable(s.op)
    /\ s.pc \in {"swap", "mirror"} => s.seen \in Accounts
    /\ s.pc = "mirror" => Sound(s.seen)

SlotsGood == slot \in [Requests -> Slots] /\ \A r \in Requests : Good(slot[r])

StoreGood  == store = Absent \/ Sound(store)
MirrorGood == mirror = Absent \/ Sound(mirror)

HistoryGood ==
    drawn \subseteq Secrets /\ life \in {"unborn", "alive", "erased"} /\ stale \in BOOLEAN

\* Nothing is there before the account is created.
Unborn ==
    life = "unborn" => /\ store = Absent /\ mirror = Absent
                       /\ \A r \in Requests : slot[r] = Idle

\* Between the two halves of a deletion nothing puts the record back.
Erasing == \A r \in Requests : slot[r].pc = "unmirror" /\ ~stale => store = Absent

AccountInv ==
    /\ SlotsGood /\ StoreGood /\ MirrorGood /\ HistoryGood
    /\ Unborn /\ Erasing /\ ErasedStaysErased

LEMMA AccountInvIsType == AccountInv => AccountTypeOK
BY DEF AccountInv, SlotsGood, StoreGood, MirrorGood, HistoryGood, Sound, Slots, AccountTypeOK

LEMMA AccountInvIsBalanced == AccountInv => BooksBalance
BY DEF AccountInv, StoreGood, MirrorGood, Sound, BooksBalance

LEMMA IdleGood == Good(Idle) /\ Idle.pc = "idle"
<1>1. 0 \in 0..Attempts - 1
  BY Prices
<1> QED BY <1>1 DEF Good, Idle, Slots, Pcs

\* A slot in which a request starts, reads, settles or tries again.
LEMMA StartGood ==
    ASSUME NEW o \in Updates \cup Saves \cup {Deletion}, NEW pc \in {"held", "read", "delete"},
           pc # "delete" => Applicable(o)
    PROVE  Good([Idle EXCEPT !.pc = pc, !.op = o])
<1>1. Idle \in Slots
  BY IdleGood DEF Good
<1>2. [Idle EXCEPT !.pc = pc, !.op = o] \in Slots
  BY <1>1 DEF Slots, Pcs
<1>3. /\ [Idle EXCEPT !.pc = pc, !.op = o].pc = pc
      /\ [Idle EXCEPT !.pc = pc, !.op = o].op = o
  BY <1>1 DEF Slots
<1> QED BY <1>2, <1>3 DEF Good

LEMMA MirrorSlotGood ==
    ASSUME NEW o \in Updates \cup Saves, NEW a, Sound(a)
    PROVE  Good([Idle EXCEPT !.pc = "mirror", !.op = o, !.seen = a])
<1>1. Idle \in Slots /\ a \in Accounts
  BY IdleGood DEF Good, Sound
<1>2. [Idle EXCEPT !.pc = "mirror", !.op = o, !.seen = a] \in Slots
  BY <1>1 DEF Slots, Pcs
<1>3. /\ [Idle EXCEPT !.pc = "mirror", !.op = o, !.seen = a].pc = "mirror"
      /\ [Idle EXCEPT !.pc = "mirror", !.op = o, !.seen = a].op = o
      /\ [Idle EXCEPT !.pc = "mirror", !.op = o, !.seen = a].seen = a
  BY <1>1 DEF Slots
<1> QED BY <1>1, <1>2, <1>3 DEF Good

LEMMA OutcomeIsUpdate == [kind |-> "outcome"] \in Updates
BY DEF Updates

\* A step that changes one slot.
LEMMA OneSlot ==
    ASSUME SlotsGood, NEW r \in Requests, NEW s, Good(s), slot' = [slot EXCEPT ![r] = s]
    PROVE  /\ SlotsGood'
           /\ slot'[r] = s /\ \A q \in Requests \ {r} : slot'[q] = slot[q]
BY DEF SlotsGood, Good

LEMMA AnswerSlot ==
    ASSUME SlotsGood, NEW r \in Requests, Answer(r)
    PROVE  /\ SlotsGood'
           /\ slot'[r] = Idle /\ \A q \in Requests \ {r} : slot'[q] = slot[q]
BY OneSlot, IdleGood DEF Answer

LEMMA GoodSlot ==
    ASSUME AccountInv, NEW r \in Requests
    PROVE  /\ Good(slot[r]) /\ slot[r] \in Slots
           /\ slot[r].pc # "idle" => life # "unborn"
           /\ slot[r].refused \in BOOLEAN /\ slot[r].claimed \in BOOLEAN
           /\ slot[r].tries \in 0..Attempts - 1
           /\ store # Absent => Sound(store) /\ store \in Accounts
BY IdleGood DEF AccountInv, SlotsGood, Good, Unborn, Slots, StoreGood, Sound

--------------------------------------------------------------------------------
(* The steps.                                                                   *)

\* A step of one request that touches nothing but its slot, or also the record that
\* is there.
LEMMA SlotStep ==
    ASSUME AccountInv, NEW r \in Requests, NEW s, Good(s), s.pc # "unmirror",
           slot' = [slot EXCEPT ![r] = s], life # "unborn", drawn' \subseteq Secrets,
           \/ UNCHANGED store
           \/ store # Absent /\ Sound(store'),
           UNCHANGED <<mirror, life, stale>>
    PROVE  AccountInv'
<1>1. /\ SlotsGood' /\ slot'[r] = s
      /\ \A q \in Requests \ {r} : slot'[q] = slot[q]
  BY OneSlot DEF AccountInv
<1>2. StoreGood' /\ MirrorGood' /\ HistoryGood' /\ Unborn'
  BY DEF AccountInv, StoreGood, MirrorGood, HistoryGood, Unborn
<1>3. Erasing'
  BY <1>1 DEF AccountInv, Erasing
<1>4. ErasedStaysErased'
  BY DEF AccountInv, ErasedStaysErased
<1> QED BY <1>1, <1>2, <1>3, <1>4 DEF AccountInv

LEMMA InvCreate ==
    ASSUME AccountInv, NEW r \in Requests, Create(r)
    PROVE  AccountInv'
<1> DEFINE s == [Idle EXCEPT !.pc = "mirror", !.seen = NewAccount,
                             !.op = [kind |-> "outcome"]]
<1>1. Good(s) /\ s.pc = "mirror"
  <2>1. s = [Idle EXCEPT !.pc = "mirror", !.op = [kind |-> "outcome"], !.seen = NewAccount]
    BY DEF Idle
  <2>2. s.pc = "mirror"
    BY DEF Idle
  <2> HIDE DEF s
  <2> QED BY <2>1, <2>2, MirrorSlotGood, OutcomeIsUpdate, NewSound
<1>2. slot' = [slot EXCEPT ![r] = s]
  BY DEF Create
<1> HIDE DEF s
<1>3. /\ SlotsGood' /\ slot'[r] = s
      /\ \A q \in Requests \ {r} : slot'[q] = slot[q]
  BY <1>1, <1>2, OneSlot DEF AccountInv
<1>4. StoreGood'
  BY NewSound DEF Create, StoreGood
<1>5. MirrorGood' /\ HistoryGood'
  BY DEF AccountInv, MirrorGood, HistoryGood, Create
<1>6. Unborn' /\ ErasedStaysErased'
  BY DEF Create, Unborn, ErasedStaysErased
<1>7. Erasing'
  <2>1. \A q \in Requests : slot[q].pc = "idle"
    BY IdleGood DEF AccountInv, Unborn, Create
  <2> QED BY <1>1, <1>3, <2>1 DEF Erasing
<1> QED BY <1>3, <1>4, <1>5, <1>6, <1>7 DEF AccountInv

LEMMA InvStart ==
    ASSUME AccountInv, NEW r \in Requests, NEW o \in Updates \cup {Deletion}, Start(r, o)
    PROVE  AccountInv'
<1> DEFINE pc == IF o = Deletion THEN "delete" ELSE "read"
           s == [Idle EXCEPT !.pc = pc, !.op = o]
<1>1. pc \in {"read", "delete"} /\ (pc # "delete" => Applicable(o))
  BY DEF Applicable
<1>2. slot' = [slot EXCEPT ![r] = s]
  BY DEF Start, Begin
<1>3. s.pc = pc
  BY DEF Idle
<1>4. Good(s)
  <2> HIDE DEF pc
  <2> QED BY <1>1, StartGood
<1>5. s.pc # "unmirror"
  BY <1>3
<1>6. drawn' \subseteq Secrets
  <2>1. o.kind = "mint" => o.secret \in Secrets
    BY Fields DEF Deletion
  <2> QED BY <2>1 DEF Start, AccountInv, HistoryGood
<1>7. life # "unborn" /\ UNCHANGED <<store, mirror, life, stale>>
  BY DEF Start
<1> HIDE DEF s
<1> QED BY <1>2, <1>4, <1>5, <1>6, <1>7, SlotStep

LEMMA InvFetch ==
    ASSUME AccountInv, NEW r \in Requests, Fetch(r)
    PROVE  AccountInv'
<1> DEFINE o == [kind |-> "save", profile |-> Profile(store)]
           s == [Idle EXCEPT !.pc = "held", !.op = o]
<1>1. Sound(store) /\ life # "unborn"
  BY GoodSlot DEF Fetch, AccountInv, Unborn
<1>2. Sound(Profile(store))
  BY <1>1, SoundSecret DEF Profile
<1>3. o \in Saves /\ Applicable(o)
  <2>1. Profile(store) \in Accounts
    BY <1>2 DEF Sound
  <2>2. o \in Saves /\ o.profile = Profile(store)
    BY <2>1 DEF Saves
  <2> HIDE DEF o
  <2> QED BY <1>2, <2>2 DEF Applicable
<1>4. slot' = [slot EXCEPT ![r] = s]
  BY DEF Fetch, Begin
<1>5. s.pc = "held"
  BY DEF Idle
<1>6. Good(s)
  <2> HIDE DEF o
  <2> QED BY <1>3, StartGood
<1>7. drawn' \subseteq Secrets /\ UNCHANGED <<store, mirror, life, stale>>
  BY DEF Fetch, AccountInv, HistoryGood
<1> HIDE DEF s, o
<1> QED BY <1>1, <1>4, <1>5, <1>6, <1>7, SlotStep

LEMMA InvPostSave ==
    ASSUME AccountInv, NEW r \in Requests, PostSave(r)
    PROVE  AccountInv'
<1>1. /\ Good(slot[r]) /\ slot[r] \in Slots /\ slot[r].pc = "held" /\ life # "unborn"
  BY GoodSlot DEF PostSave
<1>2. drawn' \subseteq Secrets /\ UNCHANGED <<store, mirror, life, stale>>
  BY DEF PostSave, AccountInv, HistoryGood
<1> DEFINE s == [slot[r] EXCEPT !.pc = "read"]
<1>3. slot' = [slot EXCEPT ![r] = s] \/ slot' = [slot EXCEPT ![r] = Idle]
  BY DEF PostSave, Answer
<1>4. s \in Slots
  BY <1>1 DEF Slots, Pcs
<1>5. s.pc = "read" /\ s.op = slot[r].op
  BY <1>1 DEF Slots
<1> HIDE DEF s
<1>6. Good(s)
  BY <1>1, <1>4, <1>5 DEF Good
<1> QED BY <1>1, <1>2, <1>3, <1>5, <1>6, IdleGood, SlotStep

LEMMA InvRead ==
    ASSUME AccountInv, NEW r \in Requests, Read(r)
    PROVE  AccountInv'
<1>1. /\ Good(slot[r]) /\ slot[r] \in Slots /\ slot[r].pc = "read" /\ life # "unborn"
      /\ Applicable(slot[r].op)
  BY GoodSlot DEF Read, Good
<1>2. drawn' \subseteq Secrets /\ UNCHANGED <<store, mirror, life, stale>>
  BY DEF Read, AccountInv, HistoryGood
<1>3. CASE store = Absent
  <2>1. slot' = [slot EXCEPT ![r] = Idle]
    BY <1>3 DEF Read, Answer
  <2> QED BY <1>1, <1>2, <2>1, IdleGood, SlotStep
<1>4. CASE store # Absent
  <2>1. PICK f \in BOOLEAN : f = (slot[r].refused \/ Refuses(slot[r].op, store))
    OBVIOUS
  <2>2. PICK g \in BOOLEAN : g = (slot[r].claimed \/ Claims(slot[r].op, store))
    OBVIOUS
  <2> DEFINE s == [slot[r] EXCEPT !.pc = "swap", !.seen = store, !.refused = f, !.claimed = g]
  <2>3. slot' = [slot EXCEPT ![r] = s]
    BY <1>4, <2>1, <2>2 DEF Read
  <2>4. store \in Accounts
    BY <1>4, GoodSlot
  <2>5. s \in Slots
    BY <1>1, <2>4 DEF Slots, Pcs
  <2>6. s.pc = "swap" /\ s.op = slot[r].op /\ s.seen = store
    BY <1>1 DEF Slots
  <2> HIDE DEF s
  <2>7. Good(s)
    BY <1>1, <2>4, <2>5, <2>6 DEF Good
  <2> QED BY <1>1, <1>2, <2>3, <2>6, <2>7, SlotStep
<1> QED BY <1>3, <1>4

\* What a swap of the record that was read puts there, and what is mirrored of it.
LEMMA SwapEffect ==
    ASSUME AccountInv, NEW r \in Requests, slot[r].pc = "swap", Unchanged(r)
    PROVE  /\ Applicable(slot[r].op) /\ store # Absent /\ slot[r].seen = store
           /\ Sound(Effect(slot[r].op, slot[r].seen))
<1>1. Applicable(slot[r].op) /\ slot[r].seen \in Accounts /\ slot[r].seen = store
  BY GoodSlot DEF Good, Unchanged
<1>2. store # Absent
  BY <1>1, Prices
<1> QED BY <1>1, <1>2, GoodSlot, AppliedSound

LEMMA InvSwap ==
    ASSUME AccountInv, NEW r \in Requests, Swap(r)
    PROVE  AccountInv'
<1>1. /\ Good(slot[r]) /\ slot[r] \in Slots /\ slot[r].pc = "swap" /\ life # "unborn"
      /\ Applicable(slot[r].op) /\ slot[r].op \in Updates \cup Saves
      /\ slot[r].tries \in 0..Attempts - 1
  BY GoodSlot DEF Swap, Good, Applicable
<1>2. drawn' \subseteq Secrets /\ UNCHANGED <<mirror, life, stale>>
  BY DEF Swap, AccountInv, HistoryGood
<1>3. CASE Unchanged(r)
  <2>1. /\ store' = Effect(slot[r].op, slot[r].seen) /\ Settled(r)
    BY <1>3 DEF Swap
  <2>2. store # Absent /\ Sound(store')
    BY <1>1, <1>3, <2>1, SwapEffect
  <2> DEFINE m == [Idle EXCEPT !.pc = "mirror", !.op = slot[r].op,
                               !.seen = Effect(slot[r].op, slot[r].seen)]
  <2>3. slot' = [slot EXCEPT ![r] = Idle] \/ slot' = [slot EXCEPT ![r] = m]
    BY <2>1 DEF Settled, Answer
  <2>4. Good(m)
    BY <1>1, <2>1, <2>2, MirrorSlotGood
  <2>5. m.pc = "mirror"
    BY DEF Idle
  <2> HIDE DEF m
  <2> QED BY <1>1, <1>2, <2>2, <2>3, <2>4, <2>5, IdleGood, SlotStep
<1>4. CASE ~Unchanged(r)
  <2>1. UNCHANGED store
    BY <1>4 DEF Swap
  <2>2. CASE slot[r].tries + 1 = Attempts
    <3>1. slot' = [slot EXCEPT ![r] = Idle]
      BY <1>4, <2>2 DEF Swap, Answer
    <3> QED BY <1>1, <1>2, <2>1, <3>1, IdleGood, SlotStep
  <2>3. CASE slot[r].tries + 1 # Attempts
    <3>1. PICK n \in 0..Attempts - 1 : n = slot[r].tries + 1
      BY <1>1, <2>3, Prices
    <3> DEFINE s == [slot[r] EXCEPT !.pc = "read", !.seen = Absent, !.tries = n]
    <3>2. slot' = [slot EXCEPT ![r] = s]
      BY <1>4, <2>3, <3>1 DEF Swap
    <3>3. s \in Slots
      BY <1>1 DEF Slots, Pcs
    <3>4. s.pc = "read" /\ s.op = slot[r].op
      BY <1>1 DEF Slots
    <3> HIDE DEF s
    <3>5. Good(s)
      BY <1>1, <3>3, <3>4 DEF Good
    <3> QED BY <1>1, <1>2, <2>1, <3>2, <3>4, <3>5, SlotStep
  <2> QED BY <2>2, <2>3
<1> QED BY <1>3, <1>4

LEMMA InvMirror ==
    ASSUME AccountInv, NEW r \in Requests, Mirror(r)
    PROVE  AccountInv'
<1>1. Sound(slot[r].seen) /\ life # "unborn"
  BY GoodSlot DEF Mirror, Good
<1>2. /\ SlotsGood' /\ slot'[r] = Idle
      /\ \A q \in Requests \ {r} : slot'[q] = slot[q]
  BY AnswerSlot DEF AccountInv, Mirror
<1>3. StoreGood' /\ HistoryGood'
  BY DEF AccountInv, StoreGood, HistoryGood, Mirror
<1>4. MirrorGood'
  BY <1>1 DEF AccountInv, MirrorGood, Mirror
<1>5. Unborn'
  BY <1>1 DEF Unborn, Mirror
<1>6. Erasing'
  BY <1>2, IdleGood DEF AccountInv, Erasing, Mirror, HistoryGood
<1>7. ErasedStaysErased'
  <2>1. CASE UNCHANGED <<mirror, stale>>
    BY <2>1 DEF AccountInv, ErasedStaysErased, Mirror
  <2>2. CASE stale' = (stale \/ life = "erased")
    BY <2>2 DEF ErasedStaysErased, Mirror
  <2> QED BY <2>1, <2>2 DEF Mirror
<1> QED BY <1>2, <1>3, <1>4, <1>5, <1>6, <1>7 DEF AccountInv

LEMMA InvCallFails ==
    ASSUME AccountInv, NEW r \in Requests, CallFails(r)
    PROVE  AccountInv'
<1>1. life # "unborn"
  BY GoodSlot DEF CallFails
<1>2. /\ drawn' \subseteq Secrets /\ UNCHANGED <<mirror, life, stale>>
      /\ slot' = [slot EXCEPT ![r] = Idle]
  BY DEF CallFails, Answer, AccountInv, HistoryGood
<1>3. UNCHANGED store \/ (store # Absent /\ Sound(store'))
  BY SwapEffect DEF CallFails
<1> QED BY <1>1, <1>2, <1>3, IdleGood, SlotStep

LEMMA InvDeleteKey ==
    ASSUME AccountInv, NEW r \in Requests, DeleteKey(r)
    PROVE  AccountInv'
<1>1. Good(slot[r]) /\ slot[r] \in Slots /\ slot[r].pc = "delete" /\ life # "unborn"
  BY GoodSlot DEF DeleteKey
<1> DEFINE s == [slot[r] EXCEPT !.pc = "unmirror"]
<1>2. slot' = [slot EXCEPT ![r] = s]
  BY DEF DeleteKey
<1>3. s \in Slots /\ s.pc = "unmirror"
  BY <1>1 DEF Slots, Pcs
<1> HIDE DEF s
<1>4. Good(s)
  BY <1>3 DEF Good
<1>5. /\ SlotsGood' /\ slot'[r] = s
      /\ \A q \in Requests \ {r} : slot'[q] = slot[q]
  BY <1>2, <1>4, OneSlot DEF AccountInv
<1>6. (store' = Absent /\ stale' = stale) \/ (store' = store /\ stale' \in {TRUE})
  BY DEF DeleteKey
<1>7. StoreGood' /\ MirrorGood' /\ HistoryGood' /\ Unborn'
  BY <1>1, <1>6 DEF AccountInv, StoreGood, MirrorGood, HistoryGood, Unborn, DeleteKey
<1>8. Erasing' /\ ErasedStaysErased'
  BY <1>6 DEF AccountInv, Erasing, ErasedStaysErased, DeleteKey
<1> QED BY <1>5, <1>7, <1>8 DEF AccountInv

LEMMA InvDeleteMirror ==
    ASSUME AccountInv, NEW r \in Requests, DeleteMirror(r)
    PROVE  AccountInv'
<1>1. life # "unborn" /\ slot[r].pc = "unmirror"
  BY GoodSlot DEF DeleteMirror
<1>2. /\ SlotsGood' /\ slot'[r] = Idle
      /\ \A q \in Requests \ {r} : slot'[q] = slot[q]
  BY AnswerSlot DEF AccountInv, DeleteMirror
<1>3. (mirror' = Absent /\ stale' = stale) \/ (mirror' = mirror /\ stale' \in {TRUE})
  BY DEF DeleteMirror
<1>4. life' = "erased" \/ life' = life
  BY DEF DeleteMirror
<1>5. StoreGood' /\ MirrorGood' /\ HistoryGood' /\ Unborn'
  BY <1>1, <1>3, <1>4
     DEF AccountInv, StoreGood, MirrorGood, HistoryGood, Unborn, DeleteMirror
<1>6. Erasing'
  BY <1>2, <1>3, IdleGood DEF AccountInv, Erasing, DeleteMirror
<1>7. ErasedStaysErased'
  BY <1>1, <1>3 DEF AccountInv, Erasing, ErasedStaysErased, DeleteMirror
<1> QED BY <1>2, <1>5, <1>6, <1>7 DEF AccountInv

LEMMA InvReboot ==
    ASSUME AccountInv, NEW kept, Reboot(kept)
    PROVE  AccountInv'
<1>1. /\ slot' = [r \in Requests |-> IF slot[r].pc = "held" THEN slot[r] ELSE Idle]
      /\ UNCHANGED <<drawn, life, stale>>
  BY DEF Reboot
<1>2. SlotsGood'
  BY <1>1, IdleGood DEF AccountInv, SlotsGood, Good
<1>3. store' \in {store, mirror} /\ mirror' \in {mirror, store'}
  BY DEF Reboot, Seeded
<1>4. StoreGood' /\ MirrorGood' /\ HistoryGood' /\ Unborn'
  BY <1>1, <1>3, IdleGood DEF AccountInv, StoreGood, MirrorGood, HistoryGood, Unborn
<1>5. Erasing' /\ ErasedStaysErased'
  BY <1>1, <1>3, IdleGood DEF AccountInv, Erasing, ErasedStaysErased
<1> QED BY <1>2, <1>4, <1>5 DEF AccountInv

LEMMA AccountInvInit == AccountInit => AccountInv
BY IdleGood DEF AccountInit, AccountInv, SlotsGood, Good, StoreGood, MirrorGood,
                HistoryGood, Unborn, Erasing, ErasedStaysErased

LEMMA AccountInvStep == AccountInv /\ [AccountNext]_accountVars => AccountInv'
<1> SUFFICES ASSUME AccountInv, [AccountNext]_accountVars PROVE AccountInv'
  OBVIOUS
<1>1. CASE UNCHANGED accountVars
  BY <1>1 DEF accountVars, AccountInv, SlotsGood, Good, StoreGood, MirrorGood,
              HistoryGood, Unborn, Erasing, ErasedStaysErased
<1>2. ASSUME NEW r \in Requests, AccountStep(r) PROVE AccountInv'
  BY <1>2, InvCreate, InvStart, InvFetch, InvPostSave, InvRead, InvSwap, InvMirror, InvCallFails, InvDeleteKey,
     InvDeleteMirror DEF AccountStep
<1>3. ASSUME NEW kept, Reboot(kept) PROVE AccountInv'
  BY <1>3, InvReboot
<1> QED BY <1>1, <1>2, <1>3 DEF AccountNext

LEMMA AccountInvariant == AccountSpec => []AccountInv
BY AccountInvInit, AccountInvStep, PTL DEF AccountSpec
--------------------------------------------------------------------------------
(* AccountStore: theorems.                                                        *)

\* Every variable of the account store has its type at all times, for any number of
\* requests and any catalogue (sow-data/src/db.rs, PlayerAccount).
THEOREM AccountTypes == AccountSpec => []AccountTypeOK
BY AccountInvariant, AccountInvIsType, PTL

\* The books balance in Valkey and in redb whatever requests run at once and whatever is
\* retried, repeated, lost or restarted: nothing is owned that was not paid for, a
\* purchase counts once, a refund takes no more than it gave, also after a save that puts
\* an older profile back, as long as its caller saves what it got (grant_revenuecat_gems,
\* unlock_leader, update_profile, update_account_atomic in sow-data/src/db.rs).
THEOREM AccountBooks == AccountSpec => []BooksBalance
BY AccountInvariant, AccountInvIsBalanced, PTL

\* A confirmed deletion is final, restarts included, unless the code could not remove
\* the record or its copy, or wrote the copy afterwards (delete_account,
\* seed_valkey_from_redb).
THEOREM DeletionIsFinal == AccountSpec => []ErasedStaysErased
<1>1. AccountInv => ErasedStaysErased
  BY DEF AccountInv
<1> QED BY <1>1, AccountInvariant, PTL

\* Each change of the live record is one whole operation of a request, applied to the
\* record as it is, and all but the save of a profile take back nothing gained before
\* (update_account_atomic and update_profile, sow-data/src/db.rs:1165 and 2229).
THEOREM UpdatesAreWhole == AccountSpec => WholeUpdates
<1> DEFINE Applied == \E r \in Requests :
                          /\ slot[r].pc = "swap"
                          /\ store' = Effect(slot[r].op, store)
                          /\ slot[r].op.kind # "save" => Lasts(store, store')
           Restarted == store' = mirror /\ \A r \in Requests : slot'[r].pc \in {"idle", "held"}
           Whole == \/ store' = store
                    \/ store = Absent \/ store' = Absent
                    \/ Applied
                    \/ Restarted
<1>1. ASSUME AccountInv, AccountNext PROVE Whole
  <2>1. ASSUME NEW r \in Requests, Create(r) PROVE Whole
    BY <1>1, <2>1 DEF Create, AccountInv, Unborn
  <2>2. ASSUME NEW r \in Requests, slot[r].pc = "swap", Unchanged(r),
               store' = Effect(slot[r].op, slot[r].seen)
        PROVE  Applied
    <3>1. Applicable(slot[r].op) /\ store # Absent /\ slot[r].seen = store
      BY <1>1, <2>2, SwapEffect
    <3>2. store \in Accounts
      BY <1>1, <2>2, <3>1, GoodSlot
    <3>3. slot[r].op.kind # "save" => Lasts(store, store')
      BY <2>2, <3>1, <3>2, AppliedLasts
    <3> QED BY <2>2, <3>1, <3>3
  <2>3. ASSUME NEW r \in Requests, Swap(r) \/ CallFails(r) PROVE Whole
    <3>1. \/ store' = store
          \/ /\ slot[r].pc = "swap" /\ Unchanged(r)
             /\ store' = Effect(slot[r].op, slot[r].seen)
      BY <2>3 DEF Swap, CallFails
    <3> QED BY <2>2, <3>1
  <2>4. ASSUME NEW r \in Requests, DeleteKey(r) PROVE Whole
    BY <2>4 DEF DeleteKey
  <2>5. ASSUME NEW kept, Reboot(kept) PROVE Whole
    <3>1. store' \in {store, mirror}
      BY <2>5 DEF Reboot, Seeded
    <3>2. \A r \in Requests : slot'[r].pc \in {"idle", "held"}
      BY <2>5, IdleGood DEF Reboot
    <3> QED BY <3>1, <3>2
  <2>6. ASSUME NEW r \in Requests,
               (\E o \in Updates \cup {Deletion} : Start(r, o)) \/ Read(r) \/ Mirror(r)
                 \/ DeleteMirror(r) \/ Fetch(r) \/ PostSave(r)
        PROVE  Whole
    BY <2>6 DEF Start, Read, Mirror, DeleteMirror, Fetch, PostSave
  <2> QED BY <1>1, <2>1, <2>3, <2>4, <2>5, <2>6 DEF AccountNext, AccountStep
<1>2. ASSUME AccountInv, [AccountNext]_accountVars PROVE [Whole]_accountVars
  BY <1>1, <1>2
<1>4. Whole <=> \/ store' = store
                \/ store = Absent \/ store' = Absent
                \/ \E r \in Requests :
                       /\ slot[r].pc = "swap"
                       /\ store' = Effect(slot[r].op, store)
                       /\ slot[r].op.kind # "save" => Lasts(store, store')
                \/ store' = mirror /\ \A r \in Requests : slot'[r].pc \in {"idle", "held"}
  OBVIOUS
<1> HIDE DEF Whole, Applied, Restarted
<1>3. AccountSpec => [][Whole]_accountVars
  BY <1>2, AccountInvariant, PTL DEF AccountSpec
<1> QED BY <1>3, <1>4, PTL DEF WholeUpdates

---------------------------------------------------------------------------------
(* The services: the four, one of which moves.                                    *)

LEMMA ServicesParts ==
    ServicesSpec => AccountSpec /\ FinalizeSpec /\ RegistrySpec /\ BridgeSpec
<1>1. ServicesInit => AccountInit /\ FinalizeInit /\ RegistryInit /\ BridgeInit
  BY DEF ServicesInit
<1>2. [ServicesNext]_<<moving, accountVars, finalizeVars, registryVars, bridgeVars>>
        => /\ [AccountNext]_accountVars /\ [FinalizeNext]_finalizeVars
           /\ [RegistryNext]_registryVars /\ [BridgeNext]_bridgeVars
  BY DEF ServicesNext
<1> QED BY <1>1, <1>2, PTL DEF ServicesSpec, AccountSpec, FinalizeSpec, RegistrySpec, BridgeSpec

\* Every variable of the four services has its type, whichever of them moves.
THEOREM ServicesTypes == ServicesSpec => []ServicesTypeOK
<1>1. AccountTypeOK /\ FinalizeTypeOK /\ RegistryTypeOK /\ BridgeTypeOK => ServicesTypeOK
  BY DEF ServicesTypeOK
<1> QED BY <1>1, ServicesParts, AccountTypes, FinalizeTypes, RegistryTypes, BridgeTypes, PTL

\* All that is claimed of the services apart holds of them together.
THEOREM ServicesSafety ==
    ServicesSpec => /\ [](BooksBalance /\ ErasedStaysErased /\ ReplayKept /\ StartedWasHosted
                            /\ StreamsExact)
                    /\ WholeUpdates /\ LateCountsNothing /\ ClosedForCause
<1> QED BY ServicesParts, AccountBooks, DeletionIsFinal, ReplayIsKept, StartedIsHosted,
           StreamsAreExact, UpdatesAreWhole, LateIsIgnored, ClosedForItsCause, PTL
=================================================================================
