------------------------------ MODULE MatchFinalize ------------------------------
(***************************************************************************)
(* What happens to a match once it has been played: the relay uploads its  *)
(* replay to the data service, which archives it, counts the match in the  *)
(* career and the rating of everyone registered for it and keeps a record. *)
(*                                                                         *)
(* Relay: trigger_match_finalize, one upload at a time behind the finalize *)
(* gate, at most Tries posts.  Data service: handle_match_finalize and     *)
(* finalize_match_with_lobby, a step per await, each of which may fail.    *)
(* Either process may crash; Valkey may lose its keys, while the archive,  *)
(* the records and the ratings are files.  A match is known by its lobby's *)
(* id, and the server counts lobbies from 1 every time it starts, so that  *)
(* matches of one id share the journal, the files and the keys.  Left out: *)
(* winners, statistics and the order of exits (what is counted, not        *)
(* whether it is), the dead-letter pointer, which nothing reads, analytics *)
(* and the platforms' scores.                                              *)
(***************************************************************************)
EXTENDS Naturals, FiniteSets

CONSTANTS
    Matches,    \* bound: matches played
    Id,         \* the lobby id of each match
    Entrants,   \* accounts registered for each match, in roster order 1..Entrants
    Tries,      \* the 5 posts of trigger_match_finalize
    Handlers,   \* bound: finalize requests the data service serves at one time
    Nil,        \* no match, no file
    Torn,       \* a file that is empty, in part there or of more than one match
    Lapses      \* bound: what may go wrong

ASSUME FinalizeAssumption ==
    /\ DOMAIN Id = Matches
    /\ Nil \notin Matches /\ Torn \notin Matches /\ Nil # Torn
    /\ Entrants \in Nat \ {0} /\ Tries \in Nat \ {0}
    /\ Lapses \subseteq {"post", "disk", "valkey", "redb", "relay", "data", "keys"}

Ids  == {Id[m] : m \in Matches}
Seat == 1..Entrants

VARIABLES
    progress,   \* relay: where each match is
    posts,      \* relay: posts made for each match
    journal,    \* relay: the match whose turns the journal of each id holds
    spool,      \* relay: the match whose replay is under each id
    temp,       \* data: the match whose replay is in the temporary file of each id
    archive,    \* data: the match whose replay is under each id
    registered, \* Valkey: ids with a players key
    finalized,  \* Valkey: ids with a finalized key
    recorded,   \* redb: ids with a match record
    worker,     \* data: what each finalize request is doing
    career,     \* history: times each match is counted in each career
    rated,      \* history: times each match is counted in each rating
    displaced,  \* history: matches one of whose files another match of their id took
    shared      \* history: ids whose temporary file two requests wrote at once

finalizeVars == <<progress, posts, journal, spool, temp, archive, registered, finalized,
                  recorded, worker, career, rated, displaced, shared>>

files == <<temp, archive>>
keys  == <<registered, finalized>>
tally == <<career, rated>>
past  == <<displaced, shared>>

-----------------------------------------------------------------------------
Vacant(h) == worker[h].at = "vacant"

Spare == [at |-> "vacant", match |-> Nil, left |-> 0, late |-> FALSE, heard |-> FALSE]

FinalizeInit ==
    /\ progress = [m \in Matches |-> "planned"]
    /\ posts = [m \in Matches |-> 0]
    /\ journal = [i \in Ids |-> Nil]
    /\ spool = [i \in Ids |-> Nil]
    /\ temp = [i \in Ids |-> Nil]
    /\ archive = [i \in Ids |-> Nil]
    /\ registered = {}
    /\ finalized = {}
    /\ recorded = {}
    /\ worker = [h \in Handlers |-> Spare]
    /\ career = [m \in Matches |-> [p \in Seat |-> 0]]
    /\ rated = [m \in Matches |-> [p \in Seat |-> 0]]
    /\ displaced = {}
    /\ shared = {}

(* Relay.                                                                  *)

\* What the match m finds in its way is lost to the match it was of.
Displace(found, m) == displaced' = displaced \cup ((found \cap Matches) \ {m})

\* The server registers the roster and hands the match over; the relay has no
\* other lobby of the id, and begins the journal of the id anew, also under a match
\* that waits for its turn to be uploaded.
StartMatch(m) ==
    /\ progress[m] = "planned"
    /\ \A n \in Matches : Id[n] = Id[m] => progress[n] # "playing"
    /\ progress' = [progress EXCEPT ![m] = "playing"]
    /\ registered' = registered \cup {Id[m]}
    /\ journal' = [journal EXCEPT ![Id[m]] = m]
    /\ Displace({journal[Id[m]]}, m)
    /\ UNCHANGED <<posts, spool, files, finalized, recorded, worker, tally, shared>>

EndMatch(m) ==
    /\ progress[m] = "playing"
    /\ progress' = [progress EXCEPT ![m] = "over"]
    /\ UNCHANGED <<posts, journal, spool, files, keys, recorded, worker, tally, past>>

Uploading(m) == progress[m] \in {"sending", "posted"}

\* The gate is free: the journal is made a replay and removed, and the metadata
\* written.  If something fails, before or after the replay is in its place, the
\* upload is given up.  Turns of a later match in the journal are taken for its own
\* or not understood.
Spool(m) ==
    LET i == Id[m] IN
    /\ progress[m] = "over"
    /\ \A n \in Matches : ~Uploading(n)
    /\ \/ /\ journal[i] # Nil
          /\ spool' = [spool EXCEPT ![i] = IF journal[i] = m THEN m ELSE Torn]
          /\ journal' = [journal EXCEPT ![i] = Nil]
          /\ Displace({journal[i], spool[i]}, m)
          /\ progress' \in {[progress EXCEPT ![m] = at] :
                 at \in {"sending"} \cup (IF "disk" \in Lapses THEN {"left"} ELSE {})}
       \/ /\ "disk" \in Lapses \/ journal[i] # m
          /\ progress' = [progress EXCEPT ![m] = "left"]
          /\ UNCHANGED <<journal, spool, displaced>>
    /\ UNCHANGED <<posts, files, keys, recorded, worker, tally, shared>>

\* What the relay does after an attempt that did not succeed.
AfterFailure(m) ==
    progress' = [progress EXCEPT ![m] = IF posts[m] < Tries THEN "sending" ELSE "left"]

\* A post is on its way to a request handler, or fails before it gets there.
Post(m, h) ==
    /\ progress[m] = "sending"
    /\ posts[m] < Tries
    /\ Vacant(h)
    /\ progress' = [progress EXCEPT ![m] = "posted"]
    /\ posts' = [posts EXCEPT ![m] = @ + 1]
    /\ worker' = [worker EXCEPT ![h] = [at |-> "replay", match |-> m, left |-> Entrants,
                                        late |-> Id[m] \in recorded, heard |-> TRUE]]
    /\ UNCHANGED <<journal, spool, files, keys, recorded, tally, past>>

PostFails(m) ==
    /\ "post" \in Lapses
    /\ progress[m] = "sending"
    /\ posts[m] < Tries
    /\ posts' = [posts EXCEPT ![m] = @ + 1]
    /\ progress' = [progress EXCEPT ![m] =
                       IF posts'[m] < Tries THEN "sending" ELSE "left"]
    /\ UNCHANGED <<journal, spool, files, keys, recorded, worker, tally, past>>

RelayCrash ==
    /\ "relay" \in Lapses
    /\ \E m \in Matches : progress[m] \notin {"planned", "done", "left"}
    /\ progress' = [m \in Matches |->
                       IF progress[m] \in {"planned", "done"} THEN progress[m] ELSE "left"]
    /\ worker' = [h \in Handlers |-> [worker[h] EXCEPT !.heard = FALSE]]
    /\ UNCHANGED <<posts, journal, spool, files, keys, recorded, tally, past>>

-----------------------------------------------------------------------------
(* Data service.                                                           *)

\* Mutant: the files go whatever the answer is.
ReplyAndRemove(h, ok) ==
    LET m == worker[h].match IN
    /\ worker' = [worker EXCEPT ![h] = Spare]
    /\ IF ~worker[h].heard
       THEN UNCHANGED <<progress, spool>>
       ELSE /\ spool' = [spool EXCEPT ![Id[m]] = Nil]
            /\ IF ok THEN progress' = [progress EXCEPT ![m] = "done"] ELSE AfterFailure(m)

\* The answer reaches the relay, if it still listens: on success it removes the
\* two files, else it tries again or leaves them where they are.
Reply(h, ok) ==
    LET m == worker[h].match IN
    /\ worker' = [worker EXCEPT ![h] = Spare]
    /\ IF ~worker[h].heard
       THEN UNCHANGED <<progress, spool>>
       ELSE IF ok
            THEN /\ progress' = [progress EXCEPT ![m] = "done"]
                 /\ spool' = [spool EXCEPT ![Id[m]] = Nil]
            ELSE AfterFailure(m) /\ UNCHANGED spool

\* The handler goes on to its next await.
Onward(h, at) ==
    /\ worker' = [worker EXCEPT ![h].at = at]
    /\ UNCHANGED <<progress, spool>>

\* The replay goes to a temporary file, which is renamed into place.  The file is
\* named for the id only, so that requests of one id use the same one: each await may
\* find that another has emptied it, written it, renamed it or removed it.
Replacing(h) == worker[h].at \in {"write", "rename"}

\* What fails removes the temporary file, whoever wrote it, and is answered.
ReplayFails(h) ==
    /\ "disk" \in Lapses
    /\ temp' \in {temp, [temp EXCEPT ![Id[worker[h].match]] = Nil]}
    /\ Reply(h, FALSE)

CreateReplay(h) ==
    LET i == Id[worker[h].match] IN
    /\ worker[h].at = "replay"
    /\ \/ /\ temp' = [temp EXCEPT ![i] = Torn]
          /\ shared' = IF \E k \in Handlers : Replacing(k) /\ Id[worker[k].match] = i
                       THEN shared \cup {i} ELSE shared
          /\ Onward(h, "write")
       \/ ReplayFails(h) /\ UNCHANGED shared
    /\ UNCHANGED <<posts, journal, archive, keys, recorded, tally, displaced>>

\* What is under a name once the match m has been written to the file behind it.
Overwritten(c, m) == IF c = Nil THEN {Nil} ELSE {c, m, Torn}

\* A file that two requests write is under either name by now, or under none, and
\* is left whole or not.
WriteReplay(h) ==
    LET m == worker[h].match
        i == Id[m] IN
    /\ worker[h].at = "write"
    /\ \/ /\ i \notin shared
          /\ temp' = [temp EXCEPT ![i] = IF @ = Nil THEN Nil ELSE m]
          /\ Onward(h, "rename") /\ UNCHANGED archive
       \/ /\ i \in shared
          /\ \E c \in Overwritten(temp[i], m) : temp' = [temp EXCEPT ![i] = c]
          /\ \E c \in Overwritten(archive[i], m) : archive' = [archive EXCEPT ![i] = c]
          /\ Onward(h, "rename")
       \/ ReplayFails(h) /\ UNCHANGED archive
    /\ UNCHANGED <<posts, journal, keys, recorded, tally, past>>

\* The fsync, and the rename of whatever has the temporary name.
RenameReplay(h) ==
    LET m == worker[h].match
        i == Id[m] IN
    /\ worker[h].at = "rename"
    /\ \/ /\ temp[i] # Nil
          /\ archive' = [archive EXCEPT ![i] = temp[i]]
          /\ temp' = [temp EXCEPT ![i] = Nil]
          /\ Displace({archive[i]}, m)
          /\ Onward(h, "snapshot")
       \/ /\ temp[i] = Nil /\ Reply(h, FALSE)
          /\ UNCHANGED <<files, displaced>>
       \/ ReplayFails(h) /\ UNCHANGED <<archive, displaced>>
    /\ UNCHANGED <<posts, journal, keys, recorded, tally, shared>>

\* The lobby's metadata, then the roster read for the analytics.
Snapshot(h) ==
    /\ worker[h].at = "snapshot"
    /\ \/ Onward(h, "guard")
       \/ Lapses \cap {"disk", "valkey"} # {} /\ Reply(h, FALSE)
    /\ UNCHANGED <<posts, journal, files, keys, recorded, tally, past>>

\* Mutant: the record is not looked for.
SettleByKey(h, id) ==
    IF id \in finalized \/ id \notin registered
    THEN Reply(h, TRUE) /\ UNCHANGED finalized
    ELSE Onward(h, "players") /\ UNCHANGED finalized

\* The guards of finalize_match_with_lobby: a finalized key, a record or no
\* roster ends the request, and the answer is a success.
Settle(h, id) ==
    IF id \in finalized \cup recorded \/ id \notin registered
    THEN Reply(h, TRUE) /\ finalized' = finalized \cup (recorded \cap {id})
    ELSE Onward(h, "players") /\ UNCHANGED finalized

Guard(h) ==
    /\ worker[h].at = "guard"
    /\ \/ Settle(h, Id[worker[h].match])
       \/ "valkey" \in Lapses /\ Reply(h, FALSE) /\ UNCHANGED finalized
    /\ UNCHANGED <<posts, journal, files, registered, recorded, tally, past>>

\* The next player of the roster; the last one leads on to the record.
NextPlayer(h) ==
    /\ worker' = [worker EXCEPT ![h].left = @ - 1,
                                ![h].at = IF worker[h].left = 1 THEN "record" ELSE @]
    /\ UNCHANGED <<progress, spool>>

\* One player of the roster.  An account that cannot be loaded ends the request,
\* an outcome that cannot be written is logged and passed over.
CountPlayer(h) ==
    /\ worker[h].at = "players"
    /\ \/ /\ career' = [career EXCEPT ![worker[h].match][Entrants + 1 - worker[h].left] = @ + 1]
          /\ NextPlayer(h)
       \/ "valkey" \in Lapses /\ (NextPlayer(h) \/ Reply(h, FALSE)) /\ UNCHANGED career
    /\ UNCHANGED <<posts, journal, files, keys, recorded, rated, past>>

\* apply_ratings and save_match_record, with no await in between: the ratings
\* of a first part of the roster, then, if that is all of it, the record.
Rate(m, n) ==
    rated' = [rated EXCEPT ![m] = [p \in Seat |-> IF p <= n THEN @[p] + 1 ELSE @[p]]]

Record(h) ==
    LET m == worker[h].match IN
    /\ worker[h].at = "record"
    /\ \/ /\ Rate(m, Entrants)
          /\ recorded' = recorded \cup {Id[m]}
          /\ Onward(h, "cleanup")
       \/ /\ "redb" \in Lapses
          /\ \E n \in 0..Entrants : Rate(m, n)
          /\ Reply(h, FALSE)
          /\ UNCHANGED recorded
    /\ UNCHANGED <<posts, journal, files, keys, career, past>>

\* The finalized key is set and the match's keys are deleted.
Cleanup(h) ==
    LET id == Id[worker[h].match] IN
    /\ worker[h].at = "cleanup"
    /\ \/ /\ finalized' = finalized \cup {id}
          /\ registered' = registered \ {id}
          /\ Reply(h, TRUE)
       \/ /\ "valkey" \in Lapses
          /\ \/ UNCHANGED keys
             \/ finalized' = finalized \cup {id} /\ registered' = registered \ {id}
          /\ Reply(h, FALSE)
    /\ UNCHANGED <<posts, journal, files, recorded, tally, past>>

\* The connection breaks under a request: the relay takes it for a failed
\* attempt, the handler goes on unaware.
CutOff(h) ==
    /\ "post" \in Lapses
    /\ ~Vacant(h)
    /\ worker[h].heard
    /\ AfterFailure(worker[h].match)
    /\ worker' = [worker EXCEPT ![h].heard = FALSE]
    /\ UNCHANGED <<posts, journal, spool, files, keys, recorded, tally, past>>

\* A handler nobody listens to is dropped at one of its awaits.
Abandon(h) ==
    /\ ~Vacant(h)
    /\ ~worker[h].heard
    /\ worker' = [worker EXCEPT ![h] = Spare]
    /\ UNCHANGED <<progress, posts, journal, spool, files, keys, recorded, tally, past>>

DataCrash ==
    /\ "data" \in Lapses
    /\ \E h \in Handlers : ~Vacant(h)
    /\ worker' = [h \in Handlers |-> Spare]
    /\ progress' = [m \in Matches |->
           CASE progress[m] = "posted" /\ posts[m] < Tries -> "sending"
             [] progress[m] = "posted" /\ posts[m] = Tries -> "left"
             [] OTHER -> progress[m]]
    /\ UNCHANGED <<posts, journal, spool, files, keys, recorded, tally, past>>

\* A roster outlives its hour, or Valkey comes back empty.
LoseKeys ==
    /\ "keys" \in Lapses
    /\ registered # {}
    /\ registered' = {}
    /\ finalized' \in {finalized, {}}
    /\ UNCHANGED <<progress, posts, journal, spool, files, recorded, worker, tally, past>>

FinalizeNext ==
    \/ \E m \in Matches : StartMatch(m) \/ EndMatch(m) \/ Spool(m) \/ PostFails(m)
    \/ \E m \in Matches, h \in Handlers : Post(m, h)
    \/ \E h \in Handlers :
           \/ CreateReplay(h) \/ WriteReplay(h) \/ RenameReplay(h) \/ Snapshot(h)
           \/ Guard(h) \/ CountPlayer(h) \/ Record(h) \/ Cleanup(h)
           \/ CutOff(h) \/ Abandon(h)
    \/ RelayCrash
    \/ DataCrash
    \/ LoseKeys

FinalizeSpec == FinalizeInit /\ [][FinalizeNext]_finalizeVars

-----------------------------------------------------------------------------
(* Properties.                                                             *)

Stages == {"planned", "playing", "over", "sending", "posted", "done", "left"}

Awaits == {"vacant", "replay", "write", "rename", "snapshot", "guard", "players", "record",
           "cleanup"}

Contents == Matches \cup {Nil, Torn}

\* Every variable has its type (sow-relay/src/main.rs, trigger_match_finalize;
\* sow-data/src/main.rs, handle_match_finalize).
FinalizeTypeOK ==
    /\ progress \in [Matches -> Stages]
    /\ posts \in [Matches -> 0..Tries]
    /\ journal \in [Ids -> Matches \cup {Nil}]
    /\ spool \in [Ids -> Contents] /\ temp \in [Ids -> Contents] /\ archive \in [Ids -> Contents]
    /\ registered \subseteq Ids /\ finalized \subseteq Ids /\ recorded \subseteq Ids
    /\ worker \in [Handlers -> [at : Awaits, match : Matches \cup {Nil}, left : 0..Entrants,
                                 late : BOOLEAN, heard : BOOLEAN]]
    /\ career \in [Matches -> [Seat -> Nat]]
    /\ rated \in [Matches -> [Seat -> Nat]]
    /\ displaced \subseteq Matches /\ shared \subseteq Ids

\* From the first post on, a match's replay is whole in the relay's spool or in the
\* archive, whatever fails and whoever crashes between the steps that write it: the
\* relay removes its file after a success only, which the replay precedes.  Two
\* things the code does not prevent are excepted: another match of the same id took
\* the journal or a file of this one, or two requests of the id wrote the temporary
\* file at once, one of which may rename what the other has just emptied
\* (sow-relay/src/main.rs:1001, sow-data/src/main.rs:2604).
ReplayKept ==
    \A m \in Matches :
        posts[m] > 0 /\ m \notin displaced /\ Id[m] \notin shared
            => m \in {spool[Id[m]], archive[Id[m]]}

\* A request that comes after the match's record was saved changes no career and
\* no rating, also when the first one failed after the save and when Valkey has
\* lost the finalized key (finalize_match_with_lobby, sow-data/src/db.rs:2404).
LateCountsNothing ==
    [][\A h \in Handlers : worker[h].late /\ worker'[h] # worker[h] => UNCHANGED tally]_finalizeVars

=============================================================================
